---------------------------- MODULE Term_proofs -----------------------------
(***************************************************************************)
(* What UsageLimits guarantees for any number of handlers, people, limits  *)
(* and periods: its types, the student limit, the allowance of a fixed     *)
(* limit, and that work which failed is not charged.  What Exams           *)
(* guarantees for any number of papers, pupils and teachers: no paper is   *)
(* lost, and the merit list stands.  And that a behaviour of MCTerm, their *)
(* host, is one of each of its parts.                                      *)
(***************************************************************************)
EXTENDS MCTerm, Sums, FiniteSetTheorems, TLAPS

(* What the steps rely on beyond the types: whoever is about to admit      *)
(* holds the lock, only staff is reactivated, only soft limits are         *)
(* recorded without a condition, and a reservation is of one more.         *)
LockHeld ==
  \A q \in Requests :
    /\ At(q, "admit") => lock = q /\ request[q].person \in People
    /\ At(q, "reactivate") => request[q].person \in Staff

AtRecord(q) == At(q, "increment") \/ At(q, "reload") \/ At(q, "save")

SoftRecorded ==
  \A q \in Requests :
    /\ AtRecord(q) => request[q].limit \in Metered
    /\ At(q, "reserve") \/ At(q, "recheck") \/ At(q, "provider")
         => request[q].limit \in Metered
    /\ At(q, "increment") /\ request[q].delta = 1 => request[q].limit \in Soft
    /\ At(q, "reserve") => request[q].delta = 1

Inductive == TypeOK /\ LockHeld /\ SoftRecorded

LEMMA IdleIsRequest == Idle \in Request
  BY UsageAssumption DEF Idle, Request, Stages, Periods

LEMMA InitTyped == Init => Inductive
<1> SUFFICES ASSUME Init PROVE Inductive
  OBVIOUS
<1>1. \A q \in Requests : request[q] = Idle
  BY DEF Init
<1>2. LockHeld /\ SoftRecorded
  BY <1>1 DEF LockHeld, SoftRecorded, AtRecord, At, Idle
<1>3. request \in [Requests -> Request]
  BY IdleIsRequest DEF Init
<1>4. period \in Periods
  BY UsageAssumption DEF Init, Periods
<1>5. used \in [Metered -> [Periods -> Nat]]
  BY DEF Init
<1>6. TypeOK
  BY <1>3, <1>4, <1>5 DEF Init, TypeOK
<1> QED
  BY <1>2, <1>6 DEF Inductive

LEMMA CountTyped ==
  ASSUME NEW counter \in [Metered -> [Periods -> Int]], NEW l \in Metered,
         NEW t \in Periods, NEW n \in Int
  PROVE  Count(counter, l, t, n) \in [Metered -> [Periods -> Int]]
BY DEF Count

(* One handler moves to another record. *)
LEMMA BecomeTyped ==
  ASSUME TypeOK, NEW q \in Requests, NEW held \in Request, Become(q, held)
  PROVE  /\ request' \in [Requests -> Request]
         /\ request'[q] = held
         /\ \A o \in Requests \ {q} : request'[o] = request[o]
BY DEF TypeOK, Become

(* A handler's new record keeps the invariant when it is typed and says    *)
(* what its stage needs; the lock must not move from under another.        *)
LEMMA RequestMoves ==
  ASSUME Inductive, NEW q \in Requests, NEW held \in Request, Become(q, held),
         held.stage = "admit" => lock' = q /\ held.person \in People,
         held.stage = "reactivate" => held.person \in Staff,
         held.stage \in {"increment", "reload", "save", "reserve", "recheck", "provider"}
           => held.limit \in Metered,
         held.stage = "increment" /\ held.delta = 1 => held.limit \in Soft,
         held.stage = "reserve" => held.delta = 1,
         \A o \in Requests \ {q} : At(o, "admit") => lock' = lock
  PROVE  request' \in [Requests -> Request] /\ LockHeld' /\ SoftRecorded'
<1>1. /\ request' \in [Requests -> Request]
      /\ request'[q] = held
      /\ \A o \in Requests \ {q} : request'[o] = request[o]
  BY BecomeTyped DEF Inductive
<1>2. LockHeld'
  BY <1>1 DEF Inductive, LockHeld, At
<1>3. SoftRecorded'
  BY <1>1 DEF Inductive, SoftRecorded, AtRecord, At
<1> QED
  BY <1>1, <1>2, <1>3

LEMMA HeadcountInductive ==
  ASSUME Inductive, NEW q \in Requests, HeadcountStep(q)
  PROVE  Inductive'
<1> DEFINE r == request[q]
<1>0. /\ TypeOK /\ LockHeld /\ r \in Request /\ Idle \in Request
  BY IdleIsRequest DEF Inductive, TypeOK
<1>1. CASE \E p \in People : ReserveHeadcount(q, p)
  <2>1. PICK p \in People : ReserveHeadcount(q, p)
    BY <1>1
  <2> DEFINE held == [Idle EXCEPT !.stage = "admit", !.person = p]
  <2>2. held \in Request /\ held.stage = "admit" /\ held.person = p
    BY <1>0 DEF Request, Idle, Stages
  <2>3. Become(q, held) /\ lock' = q /\ lock = NoOne
    BY <2>1 DEF ReserveHeadcount, Locked
  <2>4. \A o \in Requests : ~At(o, "admit")
    BY <1>0, <2>3, UsageAssumption DEF LockHeld
  <2> HIDE DEF held
  <2>5. request' \in [Requests -> Request] /\ LockHeld' /\ SoftRecorded'
    BY <2>2, <2>3, <2>4, RequestMoves
  <2> QED
    BY <1>0, <2>1, <2>3, <2>5 DEF Inductive, TypeOK, ReserveHeadcount, counters
<1>2. CASE \E p \in People, platform \in BOOLEAN : ReadReactivation(q, p, platform)
  <2>1. PICK p \in People, platform \in BOOLEAN : ReadReactivation(q, p, platform)
    BY <1>2
  <2> DEFINE held == [Idle EXCEPT !.stage = "reactivate", !.person = p]
  <2>2. held \in Request /\ held.stage = "reactivate" /\ held.person = p
    BY <1>0 DEF Request, Idle, Stages
  <2>3. Become(q, held) /\ p \in Staff /\ lock' = lock
    BY <2>1 DEF ReadReactivation, heads
  <2> HIDE DEF held
  <2>4. request' \in [Requests -> Request] /\ LockHeld' /\ SoftRecorded'
    BY <2>2, <2>3, RequestMoves
  <2> QED
    BY <1>0, <2>1, <2>4 DEF Inductive, TypeOK, ReadReactivation, heads, counters
<1>3. CASE Admit(q)
  <2>1. Become(q, Idle) /\ lock' = NoOne /\ Idle.stage = "idle"
    BY <1>3 DEF Admit, Idle
  <2>2. \A o \in Requests \ {q} : ~At(o, "admit")
    BY <1>0, <1>3 DEF LockHeld, Admit
  <2>3. request' \in [Requests -> Request] /\ LockHeld' /\ SoftRecorded'
    BY <1>0, <2>1, <2>2, RequestMoves
  <2> QED
    BY <1>0, <1>3, <2>3 DEF Inductive, TypeOK, Admit, counters
<1>4. CASE Reactivate(q)
  <2>1. Become(q, Idle) /\ lock' = lock /\ Idle.stage = "idle"
    BY <1>4 DEF Reactivate, Idle
  <2>2. request' \in [Requests -> Request] /\ LockHeld' /\ SoftRecorded'
    BY <1>0, <2>1, RequestMoves
  <2> QED
    BY <1>0, <1>4, <2>2 DEF Inductive, TypeOK, Reactivate, counters
<1> QED
  BY <1>1, <1>2, <1>3, <1>4 DEF HeadcountStep

LEMMA MeteredInductive ==
  ASSUME Inductive, NEW q \in Requests, MeteredStep(q)
  PROVE  Inductive'
<1> DEFINE r == request[q]
<1>0. /\ TypeOK /\ SoftRecorded /\ r \in Request /\ Idle \in Request
      /\ Idle.stage = "idle"
  BY IdleIsRequest DEF Inductive, TypeOK, Idle
<1>9. /\ used \in [Metered -> [Periods -> Int]] /\ served \in [Metered -> [Periods -> Int]]
      /\ period \in Periods /\ 1 \in Int /\ -1 \in Int
  BY <1>0 DEF TypeOK
<1>1. CASE \E l \in Metered : Take(q, l)
  <2>1. PICK l \in Metered : Take(q, l)
    BY <1>1
  <2> DEFINE held == [Idle EXCEPT !.stage = IF l \in Soft THEN "increment" ELSE "reserve",
                                  !.limit = l, !.period = period]
  <2>2. /\ held \in Request /\ held.limit = l /\ held.delta = 1
        /\ held.stage = IF l \in Soft THEN "increment" ELSE "reserve"
    BY <1>0 DEF Request, Idle, Stages, TypeOK
  <2>3. Become(q, held) /\ lock' = lock
    BY <2>1 DEF Take, heads
  <2> HIDE DEF held
  <2>4. request' \in [Requests -> Request] /\ LockHeld' /\ SoftRecorded'
    BY <2>2, <2>3, RequestMoves
  <2> QED
    BY <1>0, <2>1, <2>4 DEF Inductive, TypeOK, Take, heads, counters
<1>2. CASE Reserve(q)
  <2> DEFINE held == [r EXCEPT !.stage = IF Fits(used[r.limit][r.period])
                                         THEN "reload" ELSE "recheck"]
  <2>1. r.limit \in Metered /\ r.period \in Periods
    BY <1>0, <1>2 DEF SoftRecorded, Reserve, At, Request
  <2>2. held \in Request /\ held.limit = r.limit /\ held.stage \in {"reload", "recheck"}
    BY <1>0 DEF Request, Stages
  <2>3. Become(q, held) /\ lock' = lock
    BY <1>2 DEF Reserve, heads
  <2> HIDE DEF held
  <2>4. request' \in [Requests -> Request] /\ LockHeld' /\ SoftRecorded'
    BY <2>1, <2>2, <2>3, RequestMoves
  <2>5. /\ Count(used, r.limit, r.period, 1) \in [Metered -> [Periods -> Int]]
        /\ Count(served, r.limit, r.period, 1) \in [Metered -> [Periods -> Int]]
    BY <1>9, <2>1, CountTyped
  <2> QED
    BY <1>0, <1>2, <2>4, <2>5 DEF Inductive, TypeOK, Reserve, heads
<1>3. CASE Recheck(q)
  <2> DEFINE ahead == [r EXCEPT !.stage = "provider", !.period = period]
  <2>1. r.limit \in Metered
    BY <1>0, <1>3 DEF SoftRecorded, Recheck, At
  <2>2. ahead \in Request /\ ahead.limit = r.limit /\ ahead.stage = "provider"
    BY <1>0 DEF Request, Stages, TypeOK
  <2>3. (Become(q, ahead) \/ Become(q, Idle)) /\ lock' = lock
    BY <1>3 DEF Recheck, heads
  <2> HIDE DEF ahead
  <2>4. request' \in [Requests -> Request] /\ LockHeld' /\ SoftRecorded'
    <3>1. CASE Become(q, ahead)
      BY <2>1, <2>2, <2>3, <3>1, RequestMoves
    <3>2. CASE Become(q, Idle)
      BY <1>0, <2>3, <3>2, RequestMoves
    <3> QED
      BY <2>3, <3>1, <3>2
  <2>5. Count(served, r.limit, period, 1) \in [Metered -> [Periods -> Int]]
    BY <1>9, <2>1, CountTyped
  <2> QED
    BY <1>0, <1>3, <2>4, <2>5 DEF Inductive, TypeOK, Recheck, heads
<1>4. CASE Deliver(q)
  <2>1. Become(q, Idle) /\ lock' = lock
    BY <1>4 DEF Deliver, heads
  <2>2. request' \in [Requests -> Request] /\ LockHeld' /\ SoftRecorded'
    BY <1>0, <2>1, RequestMoves
  <2> QED
    BY <1>0, <1>4, <2>2 DEF Inductive, TypeOK, Deliver, heads, counters
<1>5. CASE Fail(q)
  <2> DEFINE held == [r EXCEPT !.stage = "increment", !.delta = -1, !.period = period]
  <2>1. r.limit \in Metered /\ r.period \in Periods
    BY <1>0, <1>5 DEF SoftRecorded, Fail, At, Request
  <2>2. /\ held \in Request /\ held.limit = r.limit /\ held.stage = "increment"
        /\ held.delta = -1
    BY <1>0 DEF Request, Stages, TypeOK
  <2>3. Become(q, held) /\ lock' = lock
    BY <1>5 DEF Fail, heads
  <2> HIDE DEF held
  <2>4. request' \in [Requests -> Request] /\ LockHeld' /\ SoftRecorded'
    BY <2>1, <2>2, <2>3, RequestMoves
  <2>5. Count(served, r.limit, r.period, -1) \in [Metered -> [Periods -> Int]]
    BY <1>9, <2>1, CountTyped
  <2> QED
    BY <1>0, <1>5, <2>4, <2>5 DEF Inductive, TypeOK, Fail, heads
<1>6. CASE Increment(q)
  <2> DEFINE held == [r EXCEPT !.stage = "reload"]
  <2>1. /\ r.limit \in Metered /\ r.period \in Periods /\ r.delta \in {-1, 1}
        /\ r.delta = 1 => r.limit \in Soft
    BY <1>0, <1>6 DEF SoftRecorded, AtRecord, Increment, At, Request
  <2>2. /\ held \in Request /\ held.limit = r.limit /\ held.stage = "reload"
        /\ held.delta = r.delta
    BY <1>0 DEF Request, Stages
  <2>3. Become(q, held) /\ lock' = lock
    BY <1>6 DEF Increment, heads
  <2> HIDE DEF held
  <2>4. request' \in [Requests -> Request] /\ LockHeld' /\ SoftRecorded'
    BY <2>1, <2>2, <2>3, RequestMoves
  <2>5. /\ Count(used, r.limit, r.period, r.delta) \in [Metered -> [Periods -> Int]]
        /\ Count(served, r.limit, r.period, 1) \in [Metered -> [Periods -> Int]]
    BY <1>9, <2>1, CountTyped
  <2> QED
    BY <1>0, <1>6, <2>4, <2>5 DEF Inductive, TypeOK, Increment, heads
<1>7. CASE Reload(q)
  <2> DEFINE held == [r EXCEPT !.stage = "save", !.used = used[r.limit][r.period],
                               !.overage = overage[r.limit][r.period]]
  <2>1. r.limit \in Metered /\ r.period \in Periods
    BY <1>0, <1>7 DEF SoftRecorded, AtRecord, Reload, At, Request
  <2>2. used[r.limit][r.period] \in Int /\ overage[r.limit][r.period] \in Nat
    BY <1>0, <2>1 DEF TypeOK
  <2>3. /\ held \in Request /\ held.limit = r.limit /\ held.stage = "save"
        /\ held.delta = r.delta
    BY <1>0, <2>2 DEF Request, Stages
  <2>4. Become(q, held) /\ lock' = lock
    BY <1>7 DEF Reload, heads
  <2> HIDE DEF held
  <2>5. request' \in [Requests -> Request] /\ LockHeld' /\ SoftRecorded'
    BY <2>1, <2>3, <2>4, RequestMoves
  <2> QED
    BY <1>0, <1>7, <2>5 DEF Inductive, TypeOK, Reload, heads, counters
<1>8. CASE Save(q)
  <2> DEFINE ahead == [r EXCEPT !.stage = "provider", !.used = 0, !.overage = 0]
  <2>1. r.limit \in Metered /\ r.period \in Periods /\ r.used \in Int
    BY <1>0, <1>8 DEF SoftRecorded, AtRecord, Save, At, Request
  <2>2. ahead \in Request /\ ahead.limit = r.limit /\ ahead.stage = "provider"
    <3>1. 0 \in Int /\ 0 \in Nat
      OBVIOUS
    <3> QED
      BY <1>0, <3>1 DEF Request, Stages
  <2>3. (Become(q, ahead) \/ Become(q, Idle)) /\ lock' = lock
    BY <1>8 DEF Save, heads
  <2> HIDE DEF ahead
  <2>4. request' \in [Requests -> Request] /\ LockHeld' /\ SoftRecorded'
    <3>1. CASE Become(q, ahead)
      BY <2>1, <2>2, <2>3, <3>1, RequestMoves
    <3>2. CASE Become(q, Idle)
      BY <1>0, <2>3, <3>2, RequestMoves
    <3> QED
      BY <2>3, <3>1, <3>2
  <2>5. Overage(r.used) \in Nat
    BY <2>1, UsageAssumption DEF Overage
  <2>6. used' \in [Metered -> [Periods -> Int]]
    BY <1>0, <1>8, <2>1 DEF TypeOK, Save
  <2>7. overage' \in [Metered -> [Periods -> Nat]]
    BY <1>0, <1>8, <2>1, <2>5 DEF TypeOK, Save
  <2> QED
    BY <1>0, <1>8, <2>4, <2>6, <2>7 DEF Inductive, TypeOK, Save, heads
<1> QED
  BY <1>1, <1>2, <1>3, <1>4, <1>5, <1>6, <1>7, <1>8 DEF MeteredStep

LEMMA StepInductive == Inductive /\ [Next]_vars => Inductive'
<1> SUFFICES ASSUME Inductive, [Next]_vars PROVE Inductive'
  OBVIOUS
<1>1. CASE \E q \in Requests : HeadcountStep(q) \/ MeteredStep(q)
  BY <1>1, HeadcountInductive, MeteredInductive
<1>2. CASE \E p \in People : AdmitInactive(p) \/ Leave(p)
  <2>1. UNCHANGED <<lock, period, counters, request>>
    BY <1>2 DEF AdmitInactive, Leave
  <2>2. person' \in [People -> {"absent", "active", "inactive"}]
    BY <1>2 DEF Inductive, TypeOK, AdmitInactive, Leave
  <2> QED
    BY <2>1, <2>2 DEF Inductive, TypeOK, LockHeld, SoftRecorded, AtRecord, At, counters
<1>3. CASE Renew
  BY <1>3, UsageAssumption DEF Renew, Inductive, TypeOK, LockHeld, SoftRecorded, AtRecord, At,
                       heads, counters, Periods
<1>4. CASE UNCHANGED vars
  BY <1>4 DEF vars, Inductive, TypeOK, LockHeld, SoftRecorded, AtRecord, At
<1> QED
  BY <1>1, <1>2, <1>3, <1>4 DEF Next

(* Rows, counters and what every handler holds keep their types.           *)
THEOREM TypeCorrect == Spec => []TypeOK
<1>1. Inductive => TypeOK
  BY DEF Inductive
<1> QED
  BY InitTyped, StepInductive, <1>1, PTL DEF Spec

-----------------------------------------------------------------------------
(* The student limit.  A handler about to admit a student has room for one *)
(* more, and keeps it until it commits: nobody else may reserve.           *)
RoomKept ==
  \A q \in Requests :
    At(q, "admit") /\ request[q].person \in Students
      => Cardinality(Active(Students)) + 1 <= StudentLimit

WithinLimit == StudentLimitHolds /\ RoomKept

LEMMA ActiveFinite ==
  IsFiniteSet(Active(Students)) /\ Cardinality(Active(Students)) \in Nat
<1>1. Active(Students) \subseteq Students
  BY DEF Active
<1> QED
  BY <1>1, UsageAssumption, FS_Subset, FS_CardinalityType

(* Nobody joins, nobody comes to hold a reservation. *)
LEMMA NobodyJoins ==
  ASSUME WithinLimit, Active(Students)' \subseteq Active(Students),
         \A o \in Requests : At(o, "admit")' => request'[o] = request[o]
  PROVE  WithinLimit'
<1>1. Cardinality(Active(Students)') \in Nat
      /\ Cardinality(Active(Students)') <= Cardinality(Active(Students))
  BY ActiveFinite, FS_Subset, FS_CardinalityType
<1>2. Cardinality(Active(Students)') <= StudentLimit
  BY <1>1, ActiveFinite, UsageAssumption DEF WithinLimit, StudentLimitHolds
<1>3. \A o \in Requests : At(o, "admit")' => At(o, "admit")
  BY DEF At
<1>4. RoomKept'
  BY <1>1, <1>3, ActiveFinite, UsageAssumption DEF WithinLimit, RoomKept
<1> QED
  BY <1>2, <1>4 DEF WithinLimit, StudentLimitHolds

LEMMA MeteredAdmitsNobody ==
  ASSUME Inductive, NEW q \in Requests, MeteredStep(q)
  PROVE  person' = person /\ \A o \in Requests : At(o, "admit")' => request'[o] = request[o]
<1>1. request \in [Requests -> Request]
  BY DEF Inductive, TypeOK
<1>2. \A o \in Requests \ {q} : request'[o] = request[o]
  BY <1>1 DEF MeteredStep, Take, Reserve, Recheck, Deliver, Fail, Increment, Reload, Save, Become
<1>3. request'[q].stage # "admit"
  <2>1. request[q] \in Request /\ Idle \in Request
    BY <1>1, IdleIsRequest
  <2>2. \A l \in Metered : Take(q, l) => request'[q].stage # "admit"
    BY <1>1, <2>1 DEF Take, Become, Idle, Request
  <2>3. Reserve(q) => request'[q].stage # "admit"
    BY <1>1, <2>1 DEF Reserve, Become, Request
  <2> DEFINE ahead == [request[q] EXCEPT !.stage = "provider", !.period = period]
  <2>10. ahead.stage = "provider" /\ Idle.stage = "idle"
    BY <2>1 DEF Request, Idle
  <2>4. Recheck(q) => request'[q].stage # "admit"
    <3>1. Recheck(q) => Become(q, ahead) \/ Become(q, Idle)
      BY DEF Recheck
    <3> HIDE DEF ahead
    <3> QED
      BY <1>1, <2>10, <3>1 DEF Become
  <2>5. Deliver(q) => request'[q].stage # "admit"
    BY <1>1, <2>1 DEF Deliver, Become, Idle, Request
  <2>7. Fail(q) => request'[q].stage # "admit"
    BY <1>1, <2>1 DEF Fail, Become, Request
  <2>8. Increment(q) => request'[q].stage # "admit"
    BY <1>1, <2>1 DEF Increment, Become, Request
  <2>9. Reload(q) => request'[q].stage # "admit"
    BY <1>1, <2>1 DEF Reload, Become, Request
  <2>6. Save(q) => request'[q].stage # "admit"
    BY <1>1, <2>1 DEF Save, Become, Idle, Request
  <2> QED
    BY <2>2, <2>3, <2>4, <2>5, <2>6, <2>7, <2>8, <2>9 DEF MeteredStep
<1>4. person' = person
  BY DEF MeteredStep, Take, Reserve, Recheck, Deliver, Fail, Increment, Reload, Save, heads
<1> QED
  BY <1>2, <1>3, <1>4 DEF At

LEMMA HeadcountWithinLimit ==
  ASSUME Inductive, WithinLimit, NEW q \in Requests, HeadcountStep(q)
  PROVE  WithinLimit'
<1>0. request \in [Requests -> Request] /\ LockHeld
      /\ person \in [People -> {"absent", "active", "inactive"}]
  BY DEF Inductive, TypeOK
<1>1. CASE \E p \in People : ReserveHeadcount(q, p)
  <2>1. PICK p \in People : ReserveHeadcount(q, p)
    BY <1>1
  <2>2. Active(Students)' = Active(Students)
    BY <2>1 DEF ReserveHeadcount, Active
  <2>3. \A o \in Requests \ {q} : ~At(o, "admit")'
    BY <1>0, <2>1, UsageAssumption DEF ReserveHeadcount, Locked, LockHeld, At, Become
  <2>4. request'[q].person = p
    BY <1>0, <2>1 DEF ReserveHeadcount, Become, Idle
  <2>5. p \in Students => Cardinality(Active(Students)) + 1 <= StudentLimit
    BY <2>1 DEF ReserveHeadcount, RoomFor, GroupOf, LimitOf
  <2> QED
    BY <2>2, <2>3, <2>4, <2>5 DEF WithinLimit, StudentLimitHolds, RoomKept
<1>2. CASE \E p \in People, platform \in BOOLEAN : ReadReactivation(q, p, platform)
  <2>1. Active(Students)' = Active(Students)
    BY <1>2 DEF ReadReactivation, heads, Active
  <2>2. \A o \in Requests : At(o, "admit")' => request'[o] = request[o]
    BY <1>0, <1>2 DEF ReadReactivation, Become, Idle, At
  <2> QED
    BY <2>1, <2>2, NobodyJoins
<1>3. CASE Admit(q)
  <2> DEFINE p == request[q].person
  <2>1. \A o \in Requests : ~At(o, "admit")'
    BY <1>0, <1>3 DEF Admit, LockHeld, At, Become, Idle
  <2>2. Active(Students)' \subseteq Active(Students) \cup {p}
    BY <1>0, <1>3 DEF Admit, Active
  <2>3. CASE p \in Students
    <3>1. Cardinality(Active(Students)) + 1 <= StudentLimit
      BY <1>3, <2>3 DEF Admit, WithinLimit, RoomKept
    <3>2. /\ IsFiniteSet(Active(Students) \cup {p})
          /\ Cardinality(Active(Students) \cup {p}) \in Nat
          /\ Cardinality(Active(Students) \cup {p}) <= Cardinality(Active(Students)) + 1
      BY ActiveFinite, FS_AddElement, FS_CardinalityType
    <3>3. /\ Cardinality(Active(Students)') \in Nat
          /\ Cardinality(Active(Students)') <= Cardinality(Active(Students) \cup {p})
      BY <2>2, <3>2, FS_Subset, FS_CardinalityType
    <3>4. Cardinality(Active(Students)') <= StudentLimit
      BY <3>1, <3>2, <3>3, ActiveFinite, UsageAssumption
    <3> QED
      BY <2>1, <3>4 DEF WithinLimit, StudentLimitHolds, RoomKept
  <2>4. CASE p \notin Students
    <3>1. Active(Students)' \subseteq Active(Students)
      BY <2>2, <2>4 DEF Active
    <3>2. \A o \in Requests : At(o, "admit")' => request'[o] = request[o]
      BY <2>1
    <3> QED
      BY <3>1, <3>2, NobodyJoins
  <2> QED
    BY <2>3, <2>4
<1>4. CASE Reactivate(q)
  <2>1. request[q].person \notin Students
    BY <1>0, <1>4, UsageAssumption DEF LockHeld, Reactivate
  <2>2. Active(Students)' \subseteq Active(Students)
    BY <1>0, <1>4, <2>1 DEF Reactivate, Active
  <2>3. \A o \in Requests : At(o, "admit")' => request'[o] = request[o]
    BY <1>0, <1>4 DEF Reactivate, Become, Idle, At
  <2> QED
    BY <2>2, <2>3, NobodyJoins
<1> QED
  BY <1>1, <1>2, <1>3, <1>4 DEF HeadcountStep

(* Whatever is admitted, reactivated, transferred and metered at once, the *)
(* active students stay within student_limit.                              *)
THEOREM StudentsWithinLimit == Spec => []StudentLimitHolds
<1>1. Init => WithinLimit
  <2> SUFFICES ASSUME Init PROVE WithinLimit
    OBVIOUS
  <2>1. Active(Students) = {} /\ \A q \in Requests : ~At(q, "admit")
    BY DEF Init, Active, At, Idle, People
  <2> QED
    BY <2>1, FS_EmptySet, UsageAssumption DEF WithinLimit, StudentLimitHolds, RoomKept
<1>2. Inductive /\ WithinLimit /\ [Next]_vars => WithinLimit'
  <2> SUFFICES ASSUME Inductive, WithinLimit, [Next]_vars PROVE WithinLimit'
    OBVIOUS
  <2>1. CASE \E q \in Requests : HeadcountStep(q)
    BY <2>1, HeadcountWithinLimit
  <2>2. CASE \E q \in Requests : MeteredStep(q)
    <3>1. person' = person /\ \A o \in Requests : At(o, "admit")' => request'[o] = request[o]
      BY <2>2, MeteredAdmitsNobody
    <3>2. Active(Students)' \subseteq Active(Students)
      BY <3>1 DEF Active
    <3> QED
      BY <3>1, <3>2, NobodyJoins
  <2>3. CASE (\E p \in People : AdmitInactive(p) \/ Leave(p)) \/ Renew \/ UNCHANGED vars
    <3>1. Active(Students)' \subseteq Active(Students)
      <4>1. person \in [People -> {"absent", "active", "inactive"}]
        BY DEF Inductive, TypeOK
      <4>2. CASE \E p \in People : AdmitInactive(p)
        BY <4>1, <4>2 DEF AdmitInactive, Active
      <4>3. CASE \E p \in People : Leave(p)
        BY <4>1, <4>3 DEF Leave, Active
      <4>4. CASE Renew \/ UNCHANGED vars
        BY <4>4 DEF Renew, vars, heads, Active
      <4> QED
        BY <2>3, <4>2, <4>3, <4>4
    <3>2. request' = request
      BY <2>3 DEF AdmitInactive, Leave, Renew, vars
    <3> QED
      BY <3>1, <3>2, NobodyJoins
  <2> QED
    BY <2>1, <2>2, <2>3 DEF Next
<1>3. WithinLimit => StudentLimitHolds
  BY DEF WithinLimit
<1> QED
  BY InitTyped, StepInductive, <1>1, <1>2, <1>3, PTL DEF Spec

-----------------------------------------------------------------------------
(* The counter of a fixed limit moves up only by the conditional UPDATE.   *)

LEMMA MeteredFixed ==
  ASSUME Inductive, FixedNeverExceeded, NEW q \in Requests, MeteredStep(q)
  PROVE  FixedNeverExceeded'
<1> DEFINE r == request[q]
<1>0. /\ used \in [Metered -> [Periods -> Int]] /\ r \in Request /\ SoftRecorded
      /\ Allowance \in Nat
  BY UsageAssumption DEF Inductive, TypeOK
<1>1. CASE Reserve(q)
  <2>1. CASE Fits(used[r.limit][r.period])
    <3>1. r.stage = "reserve" /\ r.limit \in Metered
      BY <1>0, <1>1 DEF Reserve, SoftRecorded, At, Request
    <3>2. used' = Count(used, r.limit, r.period, 1)
      BY <1>1, <2>1 DEF Reserve
    <3> QED
      BY <1>0, <2>1, <3>1, <3>2 DEF FixedNeverExceeded, Fits, Count
  <2>2. CASE ~Fits(used[r.limit][r.period])
    BY <1>1, <2>2 DEF FixedNeverExceeded, Reserve
  <2> QED BY <2>1, <2>2
<1>2. CASE Increment(q)
  <2>1. r.delta = -1 \/ r.limit \in Soft
    BY <1>0, <1>2 DEF SoftRecorded, AtRecord, Increment, Request
  <2> QED
    BY <1>0, <1>2, <2>1 DEF FixedNeverExceeded, Increment, Count, Request
<1>3. CASE Save(q)
  BY <1>0, <1>3 DEF FixedNeverExceeded, Save, Request
<1>4. CASE used' = used
  BY <1>4 DEF FixedNeverExceeded
<1> QED
  BY <1>1, <1>2, <1>3, <1>4
     DEF MeteredStep, Take, Recheck, Deliver, Fail, Reload, counters

(* used_value of a limit without overage never passes the allowance.       *)
THEOREM FixedWithinAllowance == Spec => []FixedNeverExceeded
<1>1. Init => FixedNeverExceeded
  BY UsageAssumption DEF Init, FixedNeverExceeded
<1>2. Inductive /\ FixedNeverExceeded /\ [Next]_vars => FixedNeverExceeded'
  <2> SUFFICES ASSUME Inductive, FixedNeverExceeded, [Next]_vars PROVE FixedNeverExceeded'
    OBVIOUS
  <2>1. CASE \E q \in Requests : MeteredStep(q)
    BY <2>1, MeteredFixed
  <2>2. CASE used' = used
    BY <2>2 DEF FixedNeverExceeded
  <2> QED
    BY <2>1, <2>2 DEF Next, HeadcountStep, ReserveHeadcount, ReadReactivation, Admit,
                      Reactivate, AdmitInactive, Leave, Renew, counters, vars
<1> QED
  BY InitTyped, StepInductive, <1>1, <1>2, PTL DEF Spec

-----------------------------------------------------------------------------
(* What failed costs nothing.  Every unit a handler has taken and not yet  *)
(* settled is in served, so served never goes below zero; a unit given up  *)
(* stays charged at most until the handler that gave it up takes it back,  *)
(* and nothing is charged to a period that has not begun.                  *)
HoldsUnit(r, l, t) ==
  /\ r.limit = l /\ r.period = t
  /\ r.stage = "provider" \/ (r.stage \in {"reload", "save"} /\ r.delta = 1)

GivesBack(r, l, t) ==
  r.limit = l /\ r.period = t /\ r.delta = -1 /\ r.stage = "increment"

Holders(requests, l, t) == {q \in Requests : HoldsUnit(requests[q], l, t)}
Givers(requests, l, t) == {q \in Requests : GivesBack(requests[q], l, t)}

Charged ==
  /\ \A q \in Requests : request[q].period <= period
  /\ \A l \in Metered, t \in Periods :
       /\ Cardinality(Holders(request, l, t)) <= served[l][t]
       /\ t = period =>
            used[l][t] <= served[l][t] + Cardinality(Givers(request, l, t))
       /\ t > period => used[l][t] = 0

LEMMA ReleasingAreGivers ==
  ASSUME NEW l, NEW t
  PROVE  Releasing(l, t) = Givers(request, l, t)
BY DEF Releasing, Givers, GivesBack, At

(* Moving one handler moves it alone into or out of each set. *)
LEMMA HoldersMove ==
  ASSUME Inductive, NEW q \in Requests, NEW held \in Request, Become(q, held),
         NEW l, NEW t, NEW n \in Int,
         n >= (IF HoldsUnit(held, l, t) THEN 1 ELSE 0)
              - (IF HoldsUnit(request[q], l, t) THEN 1 ELSE 0)
  PROVE  /\ Cardinality(Holders(request', l, t)) \in Nat
         /\ Cardinality(Holders(request, l, t)) \in Nat
         /\ Cardinality(Holders(request', l, t)) <= Cardinality(Holders(request, l, t)) + n
<1> DEFINE S == Holders(request, l, t)
           T == Holders(request', l, t)
<1>1. request'[q] = held /\ \A o \in Requests \ {q} : request'[o] = request[o]
  BY BecomeTyped DEF Inductive
<1>2. IsFiniteSet(S) /\ Cardinality(S) \in Nat
  BY UsageAssumption, FS_Subset, FS_CardinalityType DEF Holders
<1>3. /\ HoldsUnit(held, l, t) => T = S \cup {q}
      /\ ~HoldsUnit(held, l, t) => T = S \ {q}
      /\ q \in S <=> HoldsUnit(request[q], l, t)
  BY <1>1 DEF Holders
<1> HIDE DEF S, T
<1>4. /\ Cardinality(S \cup {q}) = IF q \in S THEN Cardinality(S) ELSE Cardinality(S) + 1
      /\ Cardinality(S \ {q}) = IF q \in S THEN Cardinality(S) - 1 ELSE Cardinality(S)
      /\ Cardinality(S \cup {q}) \in Nat /\ Cardinality(S \ {q}) \in Nat
  BY <1>2, FS_AddElement, FS_RemoveElement, FS_CardinalityType
<1>5. Cardinality(T) \in Nat /\ Cardinality(T) <= Cardinality(S) + n
  <2>1. CASE HoldsUnit(held, l, t) /\ q \in S
    <3>1. Cardinality(T) = Cardinality(S) /\ Cardinality(T) \in Nat
      BY <1>3, <1>4, <2>1
    <3>2. n >= 0
      BY <1>3, <2>1
    <3> QED BY <1>2, <3>1, <3>2
  <2>2. CASE HoldsUnit(held, l, t) /\ q \notin S
    <3>1. Cardinality(T) = Cardinality(S) + 1 /\ Cardinality(T) \in Nat
      BY <1>3, <1>4, <2>2
    <3>2. n >= 1
      BY <1>3, <2>2
    <3> QED BY <1>2, <3>1, <3>2
  <2>3. CASE ~HoldsUnit(held, l, t) /\ q \in S
    <3>1. Cardinality(T) = Cardinality(S) - 1 /\ Cardinality(T) \in Nat
      BY <1>3, <1>4, <2>3
    <3>2. n >= -1
      BY <1>3, <2>3
    <3> QED BY <1>2, <3>1, <3>2
  <2>4. CASE ~HoldsUnit(held, l, t) /\ q \notin S
    <3>1. Cardinality(T) = Cardinality(S) /\ Cardinality(T) \in Nat
      BY <1>3, <1>4, <2>4
    <3>2. n >= 0
      BY <1>3, <2>4
    <3> QED BY <1>2, <3>1, <3>2
  <2> QED BY <2>1, <2>2, <2>3, <2>4
<1> QED BY <1>2, <1>5 DEF S, T

LEMMA GiversMove ==
  ASSUME Inductive, NEW q \in Requests, NEW held \in Request, Become(q, held),
         NEW l, NEW t
  PROVE  /\ Cardinality(Givers(request', l, t)) \in Nat
         /\ Cardinality(Givers(request, l, t)) \in Nat
         /\ Cardinality(Givers(request', l, t)) =
              Cardinality(Givers(request, l, t))
              + ((IF GivesBack(held, l, t) THEN 1 ELSE 0)
                 - (IF GivesBack(request[q], l, t) THEN 1 ELSE 0))
<1> DEFINE S == Givers(request, l, t)
           T == Givers(request', l, t)
<1>1. request'[q] = held /\ \A o \in Requests \ {q} : request'[o] = request[o]
  BY BecomeTyped DEF Inductive
<1>2. IsFiniteSet(S) /\ Cardinality(S) \in Nat
  BY UsageAssumption, FS_Subset, FS_CardinalityType DEF Givers
<1>3. /\ GivesBack(held, l, t) => T = S \cup {q}
      /\ ~GivesBack(held, l, t) => T = S \ {q}
      /\ q \in S <=> GivesBack(request[q], l, t)
  BY <1>1 DEF Givers
<1> HIDE DEF S, T
<1>4. /\ Cardinality(S \cup {q}) = IF q \in S THEN Cardinality(S) ELSE Cardinality(S) + 1
      /\ Cardinality(S \ {q}) = IF q \in S THEN Cardinality(S) - 1 ELSE Cardinality(S)
      /\ Cardinality(S \cup {q}) \in Nat /\ Cardinality(S \ {q}) \in Nat
  BY <1>2, FS_AddElement, FS_RemoveElement, FS_CardinalityType
<1>5. /\ Cardinality(T) \in Nat
      /\ Cardinality(T) = Cardinality(S) + ((IF GivesBack(held, l, t) THEN 1 ELSE 0)
                                            - (IF GivesBack(request[q], l, t) THEN 1 ELSE 0))
  <2>1. CASE GivesBack(held, l, t) /\ q \in S
    <3>1. Cardinality(T) = Cardinality(S) /\ Cardinality(T) \in Nat
      BY <1>3, <1>4, <2>1
    <3>2. (IF GivesBack(held, l, t) THEN 1 ELSE 0)
            - (IF GivesBack(request[q], l, t) THEN 1 ELSE 0) = 0
      BY <1>3, <2>1
    <3> QED BY <1>2, <3>1, <3>2
  <2>2. CASE GivesBack(held, l, t) /\ q \notin S
    <3>1. Cardinality(T) = Cardinality(S) + 1 /\ Cardinality(T) \in Nat
      BY <1>3, <1>4, <2>2
    <3>2. (IF GivesBack(held, l, t) THEN 1 ELSE 0)
            - (IF GivesBack(request[q], l, t) THEN 1 ELSE 0) = 1
      BY <1>3, <2>2
    <3> QED BY <1>2, <3>1, <3>2
  <2>3. CASE ~GivesBack(held, l, t) /\ q \in S
    <3>1. Cardinality(T) = Cardinality(S) - 1 /\ Cardinality(T) \in Nat
      BY <1>3, <1>4, <2>3
    <3>2. (IF GivesBack(held, l, t) THEN 1 ELSE 0)
            - (IF GivesBack(request[q], l, t) THEN 1 ELSE 0) = -1
      BY <1>3, <2>3
    <3> QED BY <1>2, <3>1, <3>2
  <2>4. CASE ~GivesBack(held, l, t) /\ q \notin S
    <3>1. Cardinality(T) = Cardinality(S) /\ Cardinality(T) \in Nat
      BY <1>3, <1>4, <2>4
    <3>2. (IF GivesBack(held, l, t) THEN 1 ELSE 0)
            - (IF GivesBack(request[q], l, t) THEN 1 ELSE 0) = 0
      BY <1>3, <2>4
    <3> QED BY <1>2, <3>1, <3>2
  <2> QED BY <2>1, <2>2, <2>3, <2>4
<1> QED BY <1>2, <1>5 DEF S, T

(* A step of one handler keeps the account when, counter by counter, what  *)
(* it adds to served covers the unit it comes to hold, and what it adds to *)
(* used is served or to be given back.                                     *)
LEMMA AccountKept ==
  ASSUME Inductive, Charged, NEW q \in Requests, NEW held \in Request, Become(q, held),
         period' = period, held.period <= period,
         used' \in [Metered -> [Periods -> Int]],
         served' \in [Metered -> [Periods -> Int]],
         \A l \in Metered, t \in Periods :
           LET more == served'[l][t] - served[l][t]
               back == (IF GivesBack(held, l, t) THEN 1 ELSE 0)
                       - (IF GivesBack(request[q], l, t) THEN 1 ELSE 0)
           IN  /\ more >= (IF HoldsUnit(held, l, t) THEN 1 ELSE 0)
                          - (IF HoldsUnit(request[q], l, t) THEN 1 ELSE 0)
               /\ t = period => \/ used'[l][t] = 0
                                \/ used'[l][t] - used[l][t] <= more + back
               /\ t > period => used'[l][t] = 0
  PROVE  Charged'
<1>1. /\ request'[q] = held /\ \A o \in Requests \ {q} : request'[o] = request[o]
      /\ TypeOK
  BY BecomeTyped DEF Inductive
<1>2. \A o \in Requests : request'[o].period <= period'
  BY <1>1 DEF Charged
<1>3. ASSUME NEW l \in Metered, NEW t \in Periods
      PROVE  /\ Cardinality(Holders(request', l, t)) <= served'[l][t]
             /\ t = period' =>
                  used'[l][t] <= served'[l][t] + Cardinality(Givers(request', l, t))
             /\ t > period' => used'[l][t] = 0
  <2> DEFINE more == served'[l][t] - served[l][t]
  <2>1. /\ used[l][t] \in Int /\ served[l][t] \in Int
        /\ used'[l][t] \in Int /\ served'[l][t] \in Int
    BY <1>1 DEF TypeOK
  <2>2. more \in Int
    BY <2>1
  <2>3. more >= (IF HoldsUnit(held, l, t) THEN 1 ELSE 0)
                - (IF HoldsUnit(request[q], l, t) THEN 1 ELSE 0)
    OBVIOUS
  <2>4. Cardinality(Holders(request, l, t)) <= served[l][t]
    BY DEF Charged
  <2>5. /\ Cardinality(Holders(request', l, t)) <= served'[l][t]
        /\ served'[l][t] >= 0
    <3> HIDE DEF more
    <3>1. /\ Cardinality(Holders(request', l, t)) \in Nat
          /\ Cardinality(Holders(request, l, t)) \in Nat
          /\ Cardinality(Holders(request', l, t)) <= Cardinality(Holders(request, l, t)) + more
      BY <2>2, <2>3, HoldersMove
    <3> QED BY <2>1, <2>4, <3>1 DEF more
  <2>6. /\ Cardinality(Givers(request', l, t)) \in Nat
        /\ Cardinality(Givers(request, l, t)) \in Nat
        /\ Cardinality(Givers(request', l, t)) =
             Cardinality(Givers(request, l, t))
             + ((IF GivesBack(held, l, t) THEN 1 ELSE 0)
                - (IF GivesBack(request[q], l, t) THEN 1 ELSE 0))
    BY GiversMove
  <2>7. t = period => used[l][t] <= served[l][t] + Cardinality(Givers(request, l, t))
    BY DEF Charged
  <2>8. t = period' => used'[l][t] <= served'[l][t] + Cardinality(Givers(request', l, t))
    BY <2>1, <2>5, <2>6, <2>7
  <2> QED BY <2>5, <2>8
<1> QED BY <1>2, <1>3 DEF Charged

(* One that changes no counter and comes to hold nothing keeps it too. *)
LEMMA AccountRests ==
  ASSUME Inductive, Charged, NEW q \in Requests, NEW held \in Request, Become(q, held),
         UNCHANGED <<period, used, served>>, held.period <= period,
         \A l, t : /\ HoldsUnit(held, l, t) => HoldsUnit(request[q], l, t)
                   /\ ~GivesBack(held, l, t) /\ ~GivesBack(request[q], l, t)
  PROVE  Charged'
<1>1. /\ used \in [Metered -> [Periods -> Int]] /\ served \in [Metered -> [Periods -> Int]]
      /\ \A l \in Metered, t \in Periods :
           /\ used[l][t] \in Int /\ served[l][t] \in Int
           /\ t > period => used[l][t] = 0
  BY DEF Inductive, TypeOK, Charged
<1> QED BY <1>1, AccountKept

LEMMA HeadcountCharged ==
  ASSUME Inductive, Charged, NEW q \in Requests, HeadcountStep(q)
  PROVE  Charged'
<1>1. /\ request \in [Requests -> Request] /\ TypeOK /\ period \in Nat \ {0}
  BY UsageAssumption DEF Inductive, TypeOK, Periods
<1>2. PICK held \in Request : /\ Become(q, held) /\ held.period = 1
                              /\ held.stage \in {"idle", "admit", "reactivate"}
  <2>1. \A p \in People : LET taken == [Idle EXCEPT !.stage = "admit", !.person = p]
                          IN  /\ taken \in Request /\ taken.period = 1
                              /\ taken.stage = "admit"
    BY IdleIsRequest DEF Request, Idle, Stages
  <2>2. \A p \in People : LET taken == [Idle EXCEPT !.stage = "reactivate", !.person = p]
                          IN  /\ taken \in Request /\ taken.period = 1
                              /\ taken.stage = "reactivate"
    BY IdleIsRequest DEF Request, Idle, Stages
  <2>3. Idle \in Request /\ Idle.period = 1 /\ Idle.stage = "idle"
    BY IdleIsRequest DEF Idle
  <2> QED BY <2>1, <2>2, <2>3
             DEF HeadcountStep, ReserveHeadcount, ReadReactivation, Admit, Reactivate
<1>3. UNCHANGED <<period, used, served>> /\ request[q].stage \in {"idle", "admit", "reactivate"}
  BY DEF HeadcountStep, ReserveHeadcount, ReadReactivation, Admit, Reactivate, At, counters
<1>4. \A l, t : /\ ~HoldsUnit(held, l, t) /\ ~HoldsUnit(request[q], l, t)
                /\ ~GivesBack(held, l, t) /\ ~GivesBack(request[q], l, t)
  BY <1>2, <1>3 DEF HoldsUnit, GivesBack
<1> QED BY <1>1, <1>2, <1>3, <1>4, AccountRests

LEMMA MeteredCharged ==
  ASSUME Inductive, Charged, NEW q \in Requests, MeteredStep(q)
  PROVE  Charged'
<1> DEFINE r == request[q]
<1>0. /\ TypeOK /\ SoftRecorded /\ r \in Request /\ Idle \in Request
      /\ Idle.stage = "idle" /\ Idle.period = 1 /\ Idle.delta = 1
      /\ period \in Periods /\ period \in Nat \ {0} /\ r.period <= period
  BY IdleIsRequest, UsageAssumption DEF Inductive, TypeOK, Idle, Charged, Periods
<1>a. TypeOK'
  BY MeteredInductive DEF Inductive
<1>b. /\ used \in [Metered -> [Periods -> Int]] /\ served \in [Metered -> [Periods -> Int]]
      /\ used' \in [Metered -> [Periods -> Int]] /\ served' \in [Metered -> [Periods -> Int]]
  BY <1>0, <1>a DEF TypeOK
<1>c. \A l \in Metered, t \in Periods : t > period => used[l][t] = 0
  BY DEF Charged
<1>d. r.stage # "idle" => r.limit \in Metered \/ r.stage \in {"admit", "reactivate"}
  BY <1>0 DEF SoftRecorded, AtRecord, At, Request, Stages
<1>1. CASE \E l \in Metered : Take(q, l)
  <2>1. PICK l \in Metered : Take(q, l)
    BY <1>1
  <2> DEFINE held == [Idle EXCEPT !.stage = IF l \in Soft THEN "increment" ELSE "reserve",
                                  !.limit = l, !.period = period]
  <2>2. /\ held \in Request /\ held.period = period /\ held.delta = 1
        /\ held.stage \in {"increment", "reserve"}
    BY <1>0 DEF Request, Idle, Stages
  <2>3. Become(q, held) /\ UNCHANGED <<period, used, served>> /\ r.stage = "idle"
    BY <2>1 DEF Take, counters, At
  <2> HIDE DEF held
  <2>4. \A m, t : /\ ~HoldsUnit(held, m, t) /\ ~HoldsUnit(r, m, t)
                  /\ ~GivesBack(held, m, t) /\ ~GivesBack(r, m, t)
    BY <2>2, <2>3 DEF HoldsUnit, GivesBack
  <2> QED
    BY <1>0, <2>2, <2>3, <2>4, AccountRests
<1>2. CASE Reserve(q)
  <2> DEFINE held == [r EXCEPT !.stage = IF Fits(used[r.limit][r.period])
                                         THEN "reload" ELSE "recheck"]
  <2>1. r.limit \in Metered /\ r.period \in Periods /\ r.stage = "reserve" /\ r.delta = 1
    BY <1>0, <1>2, <1>d DEF Reserve, At, Request, SoftRecorded
  <2>2. /\ held \in Request /\ held.limit = r.limit /\ held.period = r.period
        /\ held.stage = IF Fits(used[r.limit][r.period]) THEN "reload" ELSE "recheck"
        /\ held.delta = r.delta
    BY <1>0 DEF Request, Stages
  <2>3. Become(q, held) /\ period' = period
    BY <1>2 DEF Reserve
  <2>4. CASE Fits(used[r.limit][r.period])
    <3>1. /\ used' = Count(used, r.limit, r.period, 1)
          /\ served' = Count(served, r.limit, r.period, 1)
      BY <1>2, <2>4 DEF Reserve
    <3> HIDE DEF held
    <3>2. \A m, t : /\ HoldsUnit(held, m, t) <=> m = r.limit /\ t = r.period
                    /\ ~HoldsUnit(r, m, t) /\ ~GivesBack(held, m, t) /\ ~GivesBack(r, m, t)
      BY <2>1, <2>2, <2>4 DEF HoldsUnit, GivesBack
    <3>3. \A m \in Metered, t \in Periods :
            LET n == IF m = r.limit /\ t = r.period THEN 1 ELSE 0
            IN  used'[m][t] = used[m][t] + n /\ served'[m][t] = served[m][t] + n
      BY <1>b, <2>1, <3>1 DEF Count
    <3>4. \A t \in Periods : t > period => t # r.period
      BY <1>0, <2>1 DEF Periods
    <3> QED
      BY <1>0, <1>b, <1>c, <2>2, <2>3, <3>2, <3>3, <3>4, AccountKept
  <2>5. CASE ~Fits(used[r.limit][r.period])
    <3>1. UNCHANGED <<used, served>>
      BY <1>2, <2>5 DEF Reserve
    <3> HIDE DEF held
    <3>2. \A m, t : /\ ~HoldsUnit(held, m, t) /\ ~HoldsUnit(r, m, t)
                    /\ ~GivesBack(held, m, t) /\ ~GivesBack(r, m, t)
      BY <2>1, <2>2, <2>5 DEF HoldsUnit, GivesBack
    <3> QED
      BY <1>0, <2>2, <2>3, <3>1, <3>2, AccountRests
  <2> QED BY <2>4, <2>5
<1>3. CASE Recheck(q)
  <2>1. r.limit \in Metered /\ r.stage = "recheck"
    BY <1>3, <1>d DEF Recheck, At
  <2>2. CASE Fits(used[r.limit][period])
    <3> DEFINE held == [r EXCEPT !.stage = "provider", !.period = period]
    <3>1. /\ held \in Request /\ held.limit = r.limit /\ held.period = period
          /\ held.stage = "provider"
      BY <1>0 DEF Request, Stages
    <3>2. /\ Become(q, held) /\ UNCHANGED <<period, used>>
          /\ served' = Count(served, r.limit, period, 1)
      BY <1>3, <2>2 DEF Recheck
    <3> HIDE DEF held
    <3>3. \A m, t : /\ HoldsUnit(held, m, t) <=> m = r.limit /\ t = period
                    /\ ~HoldsUnit(r, m, t) /\ ~GivesBack(held, m, t) /\ ~GivesBack(r, m, t)
      BY <2>1, <3>1 DEF HoldsUnit, GivesBack
    <3>4. \A m \in Metered, t \in Periods :
            LET n == IF m = r.limit /\ t = period THEN 1 ELSE 0
            IN  served'[m][t] = served[m][t] + n
      <4>1. period \in Periods
        BY <1>0
      <4> QED BY <1>b, <2>1, <3>2, <4>1 DEF Count
    <3> HIDE DEF r
    <3>5. \A m \in Metered, t \in Periods :
            LET more == served'[m][t] - served[m][t]
                back == (IF GivesBack(held, m, t) THEN 1 ELSE 0)
                        - (IF GivesBack(r, m, t) THEN 1 ELSE 0)
            IN  /\ more >= (IF HoldsUnit(held, m, t) THEN 1 ELSE 0)
                           - (IF HoldsUnit(r, m, t) THEN 1 ELSE 0)
                /\ t = period => used'[m][t] - used[m][t] <= more + back
                /\ t > period => used'[m][t] = 0
      BY <1>b, <1>c, <3>2, <3>3, <3>4
    <3> USE DEF r
    <3>6. held.period <= period
      BY <1>0, <3>1
    <3> QED
      BY <1>b, <3>1, <3>2, <3>5, <3>6, AccountKept
  <2>3. CASE ~Fits(used[r.limit][period])
    <3>1. Become(q, Idle) /\ UNCHANGED <<period, used, served>>
      BY <1>3, <2>3 DEF Recheck
    <3>2. \A m, t : /\ ~HoldsUnit(Idle, m, t) /\ ~HoldsUnit(r, m, t)
                    /\ ~GivesBack(Idle, m, t) /\ ~GivesBack(r, m, t)
      BY <1>0, <2>1 DEF HoldsUnit, GivesBack
    <3> QED
      BY <1>0, <3>1, <3>2, AccountRests
  <2> QED BY <2>2, <2>3
<1>4. CASE Deliver(q)
  <2>1. Become(q, Idle) /\ UNCHANGED <<period, used, served>> /\ r.stage = "provider"
    BY <1>4 DEF Deliver, counters, At
  <2>2. \A m, t : /\ ~HoldsUnit(Idle, m, t)
                  /\ ~GivesBack(Idle, m, t) /\ ~GivesBack(r, m, t)
    BY <1>0, <2>1 DEF HoldsUnit, GivesBack
  <2> QED
    BY <1>0, <2>1, <2>2, AccountRests
<1>5. CASE Fail(q)
  <2> DEFINE held == [r EXCEPT !.stage = "increment", !.delta = -1, !.period = period]
  <2>1. r.limit \in Metered /\ r.period \in Periods /\ r.stage = "provider"
    BY <1>0, <1>5, <1>d DEF Fail, At, Request
  <2>2. /\ held \in Request /\ held.limit = r.limit /\ held.period = period
        /\ held.stage = "increment" /\ held.delta = -1
    BY <1>0 DEF Request, Stages
  <2>3. /\ Become(q, held) /\ UNCHANGED <<period, used>>
        /\ served' = Count(served, r.limit, r.period, -1)
    BY <1>5 DEF Fail
  <2> HIDE DEF held
  <2>4. \A m, t : /\ ~HoldsUnit(held, m, t) /\ ~GivesBack(r, m, t)
                  /\ HoldsUnit(r, m, t) <=> m = r.limit /\ t = r.period
                  /\ GivesBack(held, m, t) <=> m = r.limit /\ t = period
    BY <2>1, <2>2 DEF HoldsUnit, GivesBack
  <2>5. \A m \in Metered, t \in Periods :
          served'[m][t] = served[m][t] - IF m = r.limit /\ t = r.period THEN 1 ELSE 0
    BY <1>b, <2>1, <2>3 DEF Count
  <2> QED
    BY <1>0, <1>b, <1>c, <2>2, <2>3, <2>4, <2>5, AccountKept
<1>6. CASE Increment(q)
  <2> DEFINE held == [r EXCEPT !.stage = "reload"]
  <2>1. /\ r.limit \in Metered /\ r.period \in Periods /\ r.stage = "increment"
        /\ r.delta \in {-1, 1}
    BY <1>0, <1>6, <1>d DEF Increment, At, Request
  <2>2. /\ held \in Request /\ held.limit = r.limit /\ held.period = r.period
        /\ held.stage = "reload" /\ held.delta = r.delta
    BY <1>0 DEF Request, Stages
  <2>3. /\ Become(q, held) /\ period' = period
        /\ used' = Count(used, r.limit, r.period, r.delta)
        /\ served' = IF r.delta = 1 THEN Count(served, r.limit, r.period, 1) ELSE served
    BY <1>6 DEF Increment
  <2> HIDE DEF held
  <2>4. \A t \in Periods : t > period => t # r.period
    BY <1>0, <2>1 DEF Periods
  <2>5. CASE r.delta = 1
    <3>1. \A m, t : /\ HoldsUnit(held, m, t) <=> m = r.limit /\ t = r.period
                    /\ ~HoldsUnit(r, m, t) /\ ~GivesBack(held, m, t) /\ ~GivesBack(r, m, t)
      BY <2>1, <2>2, <2>5 DEF HoldsUnit, GivesBack
    <3>2. \A m \in Metered, t \in Periods :
            LET n == IF m = r.limit /\ t = r.period THEN 1 ELSE 0
            IN  used'[m][t] = used[m][t] + n /\ served'[m][t] = served[m][t] + n
      BY <1>b, <2>1, <2>3, <2>5 DEF Count
    <3>3. r.limit \in Metered /\ r.period \in Periods /\ held.period <= period
      BY <1>0, <2>1, <2>2
    <3> HIDE DEF r
    <3>4. \A m \in Metered, t \in Periods :
            LET more == served'[m][t] - served[m][t]
                back == (IF GivesBack(held, m, t) THEN 1 ELSE 0)
                        - (IF GivesBack(r, m, t) THEN 1 ELSE 0)
            IN  /\ more >= (IF HoldsUnit(held, m, t) THEN 1 ELSE 0)
                           - (IF HoldsUnit(r, m, t) THEN 1 ELSE 0)
                /\ t = period => used'[m][t] - used[m][t] <= more + back
                /\ t > period => used'[m][t] = 0
      BY <1>b, <1>c, <2>4, <3>1, <3>2, <3>3
    <3> USE DEF r
    <3> QED
      BY <1>b, <2>2, <2>3, <3>3, <3>4, AccountKept
  <2>6. CASE r.delta = -1
    <3>1. \A m, t : /\ GivesBack(r, m, t) <=> m = r.limit /\ t = r.period
                    /\ ~HoldsUnit(r, m, t) /\ ~HoldsUnit(held, m, t) /\ ~GivesBack(held, m, t)
      BY <2>1, <2>2, <2>6 DEF HoldsUnit, GivesBack
    <3>2. \A m \in Metered, t \in Periods :
            LET n == IF m = r.limit /\ t = r.period THEN 1 ELSE 0
            IN  used'[m][t] = used[m][t] - n /\ served'[m][t] = served[m][t]
      BY <1>b, <2>1, <2>3, <2>6 DEF Count
    <3>3. r.limit \in Metered /\ r.period \in Periods /\ held.period <= period
      BY <1>0, <2>1, <2>2
    <3> HIDE DEF r
    <3>4. \A m \in Metered, t \in Periods :
            LET more == served'[m][t] - served[m][t]
                back == (IF GivesBack(held, m, t) THEN 1 ELSE 0)
                        - (IF GivesBack(r, m, t) THEN 1 ELSE 0)
            IN  /\ more >= (IF HoldsUnit(held, m, t) THEN 1 ELSE 0)
                           - (IF HoldsUnit(r, m, t) THEN 1 ELSE 0)
                /\ t = period => used'[m][t] - used[m][t] <= more + back
                /\ t > period => used'[m][t] = 0
      BY <1>b, <1>c, <2>4, <3>1, <3>2, <3>3
    <3> USE DEF r
    <3> QED
      BY <1>b, <2>2, <2>3, <3>3, <3>4, AccountKept
  <2> QED BY <2>1, <2>5, <2>6
<1>7. CASE Reload(q)
  <2> DEFINE held == [r EXCEPT !.stage = "save", !.used = used[r.limit][r.period],
                               !.overage = overage[r.limit][r.period]]
  <2>1. r.limit \in Metered /\ r.period \in Periods /\ r.stage = "reload"
    BY <1>0, <1>7, <1>d DEF Reload, At, Request
  <2>2. used[r.limit][r.period] \in Int /\ overage[r.limit][r.period] \in Nat
    BY <1>0, <2>1 DEF TypeOK
  <2>3. /\ held \in Request /\ held.limit = r.limit /\ held.period = r.period
        /\ held.stage = "save" /\ held.delta = r.delta
    BY <1>0, <2>2 DEF Request, Stages
  <2>4. Become(q, held) /\ UNCHANGED <<period, used, served>>
    BY <1>7 DEF Reload, counters
  <2> HIDE DEF held
  <2>5. \A m, t : /\ HoldsUnit(held, m, t) <=> HoldsUnit(r, m, t)
                  /\ ~GivesBack(held, m, t) /\ ~GivesBack(r, m, t)
    BY <2>1, <2>3 DEF HoldsUnit, GivesBack
  <2> QED
    BY <1>0, <2>3, <2>4, <2>5, AccountRests
<1>8. CASE Save(q)
  <2>1. /\ r.limit \in Metered /\ r.period \in Periods /\ r.stage = "save"
        /\ r.delta \in {-1, 1}
    BY <1>0, <1>8, <1>d DEF Save, At, Request
  <2>2. /\ UNCHANGED <<period, served>>
        /\ used' = IF Floored(r) THEN [used EXCEPT ![r.limit][r.period] = 0] ELSE used
    BY <1>8 DEF Save
  <2>3. \A m \in Metered, t \in Periods : used'[m][t] = 0 \/ used'[m][t] = used[m][t]
    BY <1>b, <2>1, <2>2
  <2>s. ASSUME NEW held \in Request, Become(q, held), held.period <= period,
               \A m, t : /\ HoldsUnit(held, m, t) <=> HoldsUnit(r, m, t)
                         /\ ~GivesBack(held, m, t) /\ ~GivesBack(r, m, t)
        PROVE  Charged'
    <3>1. \A m \in Metered, t \in Periods :
            /\ served'[m][t] - served[m][t] = 0
            /\ used'[m][t] = 0 \/ used'[m][t] - used[m][t] = 0
      BY <1>b, <2>2, <2>3
    <3>2. \A m \in Metered, t \in Periods : t > period => used'[m][t] = 0
      BY <1>c, <2>3
    <3> QED
      BY <1>b, <2>2, <2>s, <3>1, <3>2, AccountKept
  <2>4. CASE r.delta = 1
    <3> DEFINE held == [r EXCEPT !.stage = "provider", !.used = 0, !.overage = 0]
    <3>1. /\ held \in Request /\ held.limit = r.limit /\ held.period = r.period
          /\ held.stage = "provider"
      <4>1. 0 \in Int /\ 0 \in Nat
        OBVIOUS
      <4> QED BY <1>0, <4>1 DEF Request, Stages
    <3>2. Become(q, held)
      BY <1>8, <2>4 DEF Save
    <3> HIDE DEF held
    <3>3. \A m, t : /\ HoldsUnit(held, m, t) <=> HoldsUnit(r, m, t)
                    /\ ~GivesBack(held, m, t) /\ ~GivesBack(r, m, t)
      BY <2>1, <2>4, <3>1 DEF HoldsUnit, GivesBack
    <3> QED BY <1>0, <2>s, <3>1, <3>2, <3>3
  <2>5. CASE r.delta = -1
    <3> DEFINE held == Idle
    <3>1. Become(q, held) /\ held \in Request /\ held.period <= period
      BY <1>0, <1>8, <2>5 DEF Save
    <3>2. \A m, t : /\ HoldsUnit(held, m, t) <=> HoldsUnit(r, m, t)
                    /\ ~GivesBack(held, m, t) /\ ~GivesBack(r, m, t)
      BY <1>0, <2>1, <2>5 DEF HoldsUnit, GivesBack
    <3> HIDE DEF held
    <3> QED BY <2>s, <3>1, <3>2
  <2> QED BY <2>1, <2>4, <2>5
<1> QED
  BY <1>1, <1>2, <1>3, <1>4, <1>5, <1>6, <1>7, <1>8 DEF MeteredStep

(* In the current period a school is charged for work that was served and  *)
(* for units still being given back, through concurrent reservations,      *)
(* failures and renewals between a reservation and its release.            *)
THEOREM FailureIsFree == Spec => []FailureCostsNothing
<1>1. Init => Charged
  <2> SUFFICES ASSUME Init PROVE Charged
    OBVIOUS
  <2>1. \A q \in Requests : request[q].period = 1 /\ request[q].stage = "idle"
    BY DEF Init, Idle
  <2>2. \A l, t : Holders(request, l, t) = {} /\ Givers(request, l, t) = {}
    BY <2>1 DEF Holders, Givers, HoldsUnit, GivesBack
  <2>3. /\ period = 1
        /\ \A l \in Metered, t \in Periods : used[l][t] = 0 /\ served[l][t] = 0
    BY DEF Init
  <2>4. \A l, t : /\ Cardinality(Holders(request, l, t)) = 0
                  /\ Cardinality(Givers(request, l, t)) = 0
    BY <2>2, FS_EmptySet
  <2> QED BY <2>1, <2>3, <2>4 DEF Charged
<1>2. Inductive /\ Charged /\ [Next]_vars => Charged'
  <2> SUFFICES ASSUME Inductive, Charged, [Next]_vars PROVE Charged'
    OBVIOUS
  <2>1. CASE \E q \in Requests : HeadcountStep(q) \/ MeteredStep(q)
    BY <2>1, HeadcountCharged, MeteredCharged
  <2>2. CASE (\E p \in People : AdmitInactive(p) \/ Leave(p)) \/ UNCHANGED vars
    <3>1. UNCHANGED <<period, used, served, request>>
      BY <2>2 DEF AdmitInactive, Leave, vars, counters
    <3> QED BY <3>1 DEF Charged
  <2>3. CASE Renew
    <3>1. period' = period + 1 /\ UNCHANGED <<used, served, request>>
      BY <2>3 DEF Renew, counters
    <3>2. period \in Nat /\ Periods \subseteq Nat
      BY UsageAssumption DEF Inductive, TypeOK, Periods
    <3>3. \A q \in Requests : request[q].period \in Nat
      BY <3>2 DEF Inductive, TypeOK, Request
    <3>4. ASSUME NEW l \in Metered, NEW t \in Periods
          PROVE  /\ Cardinality(Holders(request, l, t)) \in Nat
                 /\ Cardinality(Givers(request, l, t)) \in Nat
                 /\ used[l][t] \in Int /\ served[l][t] \in Int
      BY UsageAssumption, FS_Subset, FS_CardinalityType DEF Holders, Givers, Inductive, TypeOK
    <3> QED BY <3>1, <3>2, <3>3, <3>4 DEF Charged
  <2> QED BY <2>1, <2>2, <2>3 DEF Next
<1>3. Inductive /\ Charged => FailureCostsNothing
  <2> SUFFICES ASSUME Inductive, Charged, NEW l \in Metered
               PROVE  used[l][period] <= served[l][period] + Cardinality(Releasing(l, period))
    BY DEF FailureCostsNothing
  <2>1. period \in Periods
    BY DEF Inductive, TypeOK
  <2> QED BY <2>1, ReleasingAreGivers DEF Charged
<1> QED
  BY InitTyped, StepInductive, <1>1, <1>2, <1>3, PTL DEF Spec

-----------------------------------------------------------------------------
(* The exam: what is submitted are papers of it, and no result counts      *)
(* another paper.                                                          *)

PapersSound ==
  /\ exam.submitted \subseteq exam.papers
  /\ \A s \in Pupils : Counted(result[s].sheet) \subseteq exam.papers

OnePaper(t) == \E p \in Papers : teacher[t].papers = {p}

(* What a handler calculates from is what the class has, but for late      *)
(* marks, and misses nobody who did not come in since.                     *)
SheetsSound(t) ==
  \A s \in Pupils, p \in teacher[t].papers :
    <<p, s>> \notin late =>
      /\ s \in Sitters(teacher[t].sheets) => teacher[t].sheets[s][p] = mark[p][s]
      /\ (s \in cohort \ arrived /\ mark[p][s] # NoMark) => s \in Sitters(teacher[t].sheets)

SheetsOfPapers(t) == \A s \in Pupils : Counted(teacher[t].sheets[s]) \subseteq teacher[t].papers

(* A handler of one paper knows which; who records holds the exam, and has *)
(* read all that is submitted; who generates has seen every paper, unless  *)
(* one was added behind his back.                                          *)
HandlerSound(t) ==
  /\ teacher[t].at \in {"first", "mark", "stamp", "submit", "add"} => OnePaper(t)
  /\ teacher[t].at \in {"first", "mark"} => teacher[t].entry \in Pupils \X (0 .. MaxMark)
  /\ teacher[t].at \in {"record", "generate"} =>
       SheetsOfPapers(t) /\ (~astray => SheetsSound(t))
  /\ teacher[t].at = "submit" => teacher[t].papers \subseteq exam.papers
  /\ teacher[t].at = "record" =>
       /\ examLock = t
       /\ exam.submitted \subseteq teacher[t].papers
       /\ teacher[t].papers \subseteq exam.papers
       /\ ~ (teacher[t].papers \subseteq exam.submitted)
  /\ teacher[t].at \in {"check", "generate"} =>
       /\ teacher[t].papers # {} /\ teacher[t].papers \subseteq exam.papers
       /\ ~astray => exam.papers = teacher[t].papers /\ exam.submitted = teacher[t].papers
  /\ teacher[t].at = "publish" /\ ~astray => exam.status \notin EXAM_MUTABLE

HandlersSound == \A t \in Teachers : HandlerSound(t)

(* Once there are results, all papers are submitted, and nothing is        *)
(* recorded any more; before they are published, no row is.                *)
ResultsSettled ==
  ~astray =>
    /\ exam.status \notin EXAM_MUTABLE =>
         /\ exam.papers = exam.submitted
         /\ \A t \in Teachers : teacher[t].at # "record"
    /\ exam.status # "published" => \A s \in Pupils : ~result[s].published

ExamInv ==
  /\ ExamTypeOK /\ PapersSound /\ HandlersSound /\ ResultsSettled
  /\ NoPaperLost /\ MeritListStands

(* The papers a row counts are papers, and so finitely many.               *)
LEMMA CountedFinite ==
  ASSUME NEW sheet \in Sheet
  PROVE  /\ Counted(sheet) \subseteq Papers /\ IsFiniteSet(Counted(sheet))
         /\ Cardinality(Counted(sheet)) \in Nat
<1>1. Counted(sheet) \subseteq Papers
  BY DEF Counted
<1>2. QED BY <1>1, ExamAssumption, FS_Subset, FS_CardinalityType

(* What is counted has a mark, and the marks add up to a number.           *)
LEMMA PointsInNat ==
  ASSUME NEW sheet \in Sheet
  PROVE  Points(sheet) \in Nat
<1>1. \A p \in Counted(sheet) : sheet[p] \in Nat
  BY ExamAssumption DEF Counted, Sheet, MarkOrNone
<1>2. QED BY <1>1, CountedFinite, SumInNat DEF Points

(* A row that counts a paper is not an empty one.                          *)
LEMMA SatIsCounted ==
  ASSUME NEW r \in Result
  PROVE  Sat(r) <=> Counted(r.sheet) # {}
<1>1. r.sheet \in Sheet
  BY DEF Result
<1>2. NoSheet \in Sheet /\ \A p \in Papers : NoSheet[p] = NoMark
  BY DEF NoSheet, Sheet, MarkOrNone
<1>3. ASSUME Counted(r.sheet) = {} PROVE r.sheet = NoSheet
  <2>1. \A p \in Papers : r.sheet[p] = NoSheet[p]
    BY <1>2, <1>3 DEF Counted
  <2>2. QED BY <1>1, <1>2, <2>1 DEF Sheet
<1>4. ASSUME r.sheet = NoSheet PROVE Counted(r.sheet) = {}
  BY <1>2, <1>4 DEF Counted
<1>5. QED BY <1>3, <1>4 DEF Sat

(* Multiplying by the same number of papers keeps the order.               *)
LEMMA SameFactor ==
  ASSUME NEW m \in Nat, NEW k \in Nat, NEW n \in Nat \ {0}
  PROVE  m * n > k * n <=> m > k
<1>1. ASSUME m > k PROVE m * n > k * n
  <2>1. m - k \in Nat \ {0} /\ (m - k) * n = m * n - k * n
    BY <1>1
  <2>2. (m - k) * n > 0
    BY <2>1
  <2>3. m * n \in Nat /\ k * n \in Nat
    OBVIOUS
  <2>4. QED BY <2>1, <2>2, <2>3
<1>2. ASSUME ~ (m > k) PROVE ~ (m * n > k * n)
  <2>1. k - m \in Nat /\ (k - m) * n = k * n - m * n
    BY <1>2
  <2>2. (k - m) * n >= 0
    BY <2>1
  <2>3. m * n \in Nat /\ k * n \in Nat
    OBVIOUS
  <2>4. QED BY <2>1, <2>2, <2>3
<1>3. QED BY <1>1, <1>2

(* A row that counts papers of the exam is ranked exactly if it counts all *)
(* of them, and goes before those with fewer points.                       *)
LEMMA RankableIsWhole ==
  ASSUME NEW r \in Result, NEW papers \in SUBSET Papers, papers # {},
         Counted(r.sheet) \subseteq papers
  PROVE  Rankable(r, papers) <=> Counted(r.sheet) = papers
<1>1. r.sheet \in Sheet
  BY DEF Result
<1>2. IsFiniteSet(papers)
  BY ExamAssumption, FS_Subset
<1>3. Cardinality(Counted(r.sheet)) = Cardinality(papers) => Counted(r.sheet) = papers
  BY <1>2, FS_Subset
<1>4. QED BY <1>3, SatIsCounted DEF Rankable

LEMMA BetterIsMorePoints ==
  ASSUME NEW q \in Result, NEW r \in Result, NEW papers \in SUBSET Papers, papers # {},
         Counted(q.sheet) = papers, Counted(r.sheet) = papers
  PROVE  Better(q, r) <=> Points(q.sheet) > Points(r.sheet)
<1>1. q.sheet \in Sheet /\ r.sheet \in Sheet
  BY DEF Result
<1>2. IsFiniteSet(papers) /\ Cardinality(papers) \in Nat /\ Cardinality(papers) # 0
  BY ExamAssumption, FS_Subset, FS_CardinalityType, FS_EmptySet
<1> DEFINE m == Points(q.sheet)
           k == Points(r.sheet)
           n == Cardinality(papers)
<1>3. m \in Nat /\ k \in Nat /\ n \in Nat \ {0}
  BY <1>1, <1>2, PointsInNat
<1>4. Better(q, r) <=> m * n > k * n
  BY DEF Better
<1> HIDE DEF m, k, n
<1>5. m * n > k * n <=> m > k
  BY <1>3, SameFactor
<1>6. QED BY <1>4, <1>5 DEF m, k

(* A merit list: who counts every paper is placed by his points, the       *)
(* others are not.                                                         *)
Whole(rows, papers) == {q \in Pupils : Counted(rows[q].sheet) = papers}

PlacedByPoints(rows, papers) ==
  \A s \in Pupils :
    rows[s].position =
      (IF s \in Whole(rows, papers)
       THEN 1 + Cardinality({q \in Whole(rows, papers) :
              Points(rows[q].sheet) > Points(rows[s].sheet)})
       ELSE 0)

(* What rankResults() makes of rows over papers of the exam is one.        *)
LEMMA RanksFollowPoints ==
  ASSUME NEW rows \in [Pupils -> Result], NEW papers \in SUBSET Papers, papers # {},
         \A s \in Pupils : Counted(rows[s].sheet) \subseteq papers
  PROVE  LET new == Ranked(rows, papers)
         IN  /\ new \in [Pupils -> Result]
             /\ \A s \in Pupils : new[s].sheet = rows[s].sheet /\ new[s].published = rows[s].published
             /\ PlacedByPoints(new, papers)
<1> DEFINE whole == {q \in Pupils : Counted(rows[q].sheet) = papers}
           sat == {s \in Pupils : Rankable(rows[s], papers)}
           ahead(s) == {q \in sat : Better(rows[q], rows[s])}
           place(s) == IF s \in sat THEN 1 + Cardinality(ahead(s)) ELSE 0
           new == Ranked(rows, papers)
<1>1. sat = whole
  BY RankableIsWhole
<1>2. \A s \in whole : ahead(s) = {q \in whole : Points(rows[q].sheet) > Points(rows[s].sheet)}
  <2> SUFFICES ASSUME NEW s \in whole, NEW q \in whole
               PROVE  Better(rows[q], rows[s]) <=> Points(rows[q].sheet) > Points(rows[s].sheet)
    BY <1>1
  <2>1. /\ rows[q] \in Result /\ rows[s] \in Result
        /\ Counted(rows[q].sheet) = papers /\ Counted(rows[s].sheet) = papers
    OBVIOUS
  <2>2. QED BY <2>1, BetterIsMorePoints
<1>3. new = [s \in Pupils |-> [rows[s] EXCEPT !.position = place(s)]]
  BY DEF Ranked
<1>4. \A s \in Pupils : place(s) \in Nat
  <2> SUFFICES ASSUME NEW s \in Pupils PROVE Cardinality(ahead(s)) \in Nat
    OBVIOUS
  <2>1. ahead(s) \subseteq Pupils
    OBVIOUS
  <2>2. QED BY <2>1, ExamAssumption, FS_Subset, FS_CardinalityType
<1> HIDE DEF place
<1>5. /\ new \in [Pupils -> Result]
      /\ \A s \in Pupils : /\ new[s].sheet = rows[s].sheet /\ new[s].published = rows[s].published
                           /\ new[s].position = place(s)
  BY <1>3, <1>4 DEF Result
<1>6. \A s \in Pupils :
        place(s) = IF s \in whole
                   THEN 1 + Cardinality({q \in whole :
                          Points(rows[q].sheet) > Points(rows[s].sheet)})
                   ELSE 0
  BY <1>1, <1>2, Zenon DEF place
<1> HIDE DEF new
<1>7. whole = Whole(new, papers)
  BY <1>5 DEF Whole
<1>8. \A s \in Pupils :
        {q \in whole : Points(rows[q].sheet) > Points(rows[s].sheet)} =
          {q \in Whole(new, papers) : Points(new[q].sheet) > Points(new[s].sheet)}
  BY <1>5, <1>7 DEF Whole
<1>9. PlacedByPoints(new, papers)
  BY <1>5, <1>6, <1>7, <1>8, Zenon DEF PlacedByPoints
<1>10. QED BY <1>5, <1>9 DEF new

(* What recalculate() makes of the rows, from marks on papers of the exam: *)
(* who has one gets them, and nothing else of a row is touched.            *)
LEMMA RecalculatedRows ==
  ASSUME ExamTypeOK, PapersSound, NEW sheets \in [Pupils -> Sheet],
         \A s \in Pupils : Counted(sheets[s]) \subseteq exam.papers
  PROVE  /\ Recalculated(sheets) \in [Pupils -> Result]
         /\ \A s \in Pupils :
              LET r == Recalculated(sheets)[s]
              IN  /\ r.position = result[s].position /\ r.published = result[s].published
                  /\ Counted(r.sheet) \subseteq exam.papers
                  /\ s \in Sitters(sheets) => r.sheet = sheets[s]
<1> DEFINE rows == Recalculated(sheets)
<1>1. rows = [s \in Pupils |-> IF s \in Sitters(sheets) THEN [result[s] EXCEPT !.sheet = sheets[s]]
                               ELSE result[s]]
  BY DEF Recalculated
<1>2. \A s \in Pupils : result[s] \in Result /\ sheets[s] \in Sheet
  BY DEF ExamTypeOK
<1>3. rows \in [Pupils -> Result]
  BY <1>1, <1>2 DEF Result
<1> HIDE DEF rows
<1>4. ASSUME NEW s \in Pupils
      PROVE  /\ rows[s].position = result[s].position
             /\ rows[s].published = result[s].published
             /\ Counted(rows[s].sheet) \subseteq exam.papers
             /\ s \in Sitters(sheets) => rows[s].sheet = sheets[s]
  <2>1. CASE s \in Sitters(sheets)
    BY <1>1, <1>2, <2>1 DEF Result
  <2>2. CASE s \notin Sitters(sheets)
    BY <1>1, <2>2 DEF PapersSound
  <2>3. QED BY <2>1, <2>2
<1>5. QED BY <1>3, <1>4 DEF rows

(* What a handler of requests turns to.                                    *)
LEMMA FreeTeacherTyped == FreeTeacher \in Teacher /\ FreeTeacher.at = "free"
<1>1. NoSheets \in [Pupils -> Sheet]
  BY DEF NoSheets, NoSheet, Sheet, MarkOrNone
<1>2. QED BY <1>1 DEF FreeTeacher, Teacher, ExamStages

LEMMA TeacherTurns ==
  ASSUME ExamTypeOK, NEW t \in Teachers, NEW held \in Teacher,
         teacher' = [teacher EXCEPT ![t] = held]
  PROVE  /\ teacher' \in [Teachers -> Teacher]
         /\ teacher'[t] = held /\ \A u \in Teachers \ {t} : teacher'[u] = teacher[u]
BY DEF ExamTypeOK

LEMMA TurnsBusy ==
  ASSUME ExamTypeOK, NEW t \in Teachers, NEW at, NEW papers \in SUBSET Papers,
         at \in {"mark", "stamp", "submit", "record", "check", "generate", "publish", "add"},
         Busy(t, at, papers)
  PROVE  /\ teacher' \in [Teachers -> Teacher]
         /\ teacher'[t].at = at /\ teacher'[t].papers = papers
         /\ \A u \in Teachers \ {t} : teacher'[u] = teacher[u]
<1> DEFINE held == [FreeTeacher EXCEPT !.at = at, !.papers = papers]
<1>1. held \in Teacher /\ held.at = at /\ held.papers = papers
  BY FreeTeacherTyped DEF Teacher, ExamStages
<1>2. teacher' = [teacher EXCEPT ![t] = held]
  BY Zenon DEF Busy
<1> HIDE DEF held
<1>3. QED BY <1>1, <1>2, TeacherTurns

LEMMA TurnsFree ==
  ASSUME ExamTypeOK, NEW t \in Teachers, Released(t)
  PROVE  /\ teacher' \in [Teachers -> Teacher]
         /\ teacher'[t].at = "free"
         /\ \A u \in Teachers \ {t} : teacher'[u] = teacher[u]
BY FreeTeacherTyped, TeacherTurns DEF Released

(* A handler that calculates has read the class as it is.                  *)
LEMMA SheetsTyped ==
  ASSUME ExamTypeOK, NEW papers \in SUBSET Papers
  PROVE  /\ Sheets(papers) \in [Pupils -> Sheet]
         /\ \A s \in Pupils, p \in Papers :
              Sheets(papers)[s][p] = IF s \in cohort /\ p \in papers THEN mark[p][s] ELSE NoMark
BY DEF Sheets, Sheet, ExamTypeOK, MarkOrNone

LEMMA TurnsCalculating ==
  ASSUME ExamTypeOK, NEW t \in Teachers, NEW at \in {"record", "generate"},
         NEW papers \in SUBSET Papers, Calculates(t, at, papers),
         UNCHANGED <<cohort, mark, late, arrived>>
  PROVE  /\ teacher' \in [Teachers -> Teacher]
         /\ teacher'[t].at = at /\ teacher'[t].papers = papers
         /\ \A u \in Teachers \ {t} : teacher'[u] = teacher[u]
         /\ SheetsOfPapers(t)' /\ SheetsSound(t)'
<1> DEFINE sheets == Sheets(papers)
           held == [FreeTeacher EXCEPT !.at = at, !.papers = papers, !.sheets = sheets]
<1>1. /\ sheets \in [Pupils -> Sheet]
      /\ \A s \in Pupils, p \in Papers :
           sheets[s][p] = IF s \in cohort /\ p \in papers THEN mark[p][s] ELSE NoMark
  BY SheetsTyped
<1>2. teacher' = [teacher EXCEPT ![t] = held]
  BY Zenon DEF Calculates
<1> HIDE DEF sheets
<1>3. held \in Teacher /\ held.at = at /\ held.papers = papers /\ held.sheets = sheets
  BY <1>1, FreeTeacherTyped DEF Teacher, ExamStages
<1> HIDE DEF held
<1>4. /\ teacher' \in [Teachers -> Teacher] /\ teacher'[t] = held
      /\ \A u \in Teachers \ {t} : teacher'[u] = teacher[u]
  BY <1>2, <1>3, TeacherTurns
<1>5. SheetsOfPapers(t)'
  BY <1>1, <1>3, <1>4 DEF SheetsOfPapers, Counted
<1>6. SheetsSound(t)'
  <2> SUFFICES ASSUME NEW s \in Pupils, NEW p \in papers
               PROVE  /\ s \in Sitters(sheets) => sheets[s][p] = mark[p][s]
                      /\ (s \in cohort \ arrived /\ mark[p][s] # NoMark) => s \in Sitters(sheets)
    BY <1>3, <1>4 DEF SheetsSound
  <2>1. NoSheet \in Sheet /\ \A q \in Papers : NoSheet[q] = NoMark
    BY DEF NoSheet, Sheet, MarkOrNone
  <2>2. ASSUME s \in Sitters(sheets) PROVE s \in cohort
    <3>1. PICK q \in Papers : sheets[s][q] # NoMark
      <4>1. CASE \A q \in Papers : sheets[s][q] = NoSheet[q]
        <5>1. sheets[s] = NoSheet
          BY <1>1, <2>1, <4>1 DEF Sheet
        <5>2. QED BY <2>2, <5>1 DEF Sitters
      <4>2. QED BY <2>1, <4>1
    <3>2. QED BY <1>1, <3>1
  <2>3. ASSUME s \in cohort, mark[p][s] # NoMark PROVE s \in Sitters(sheets)
    BY <1>1, <2>1, <2>3 DEF Sitters
  <2>4. QED BY <1>1, <2>2, <2>3
<1>7. QED BY <1>3, <1>4, <1>5, <1>6

(* What a handler has read stays sound while no mark is written and nobody *)
(* is in the class who was not, or is not known to have come in.           *)
LEMMA SheetsStaySound ==
  ASSUME NEW u \in Teachers, SheetsSound(u), teacher'[u] = teacher[u],
         UNCHANGED <<mark, late>>, cohort' \ arrived' \subseteq cohort \ arrived
  PROVE  SheetsSound(u)'
BY DEF SheetsSound

(* The one paper of a handler is the one it was called for.                *)
LEMMA PaperOfOne ==
  ASSUME NEW t \in Teachers, OnePaper(t)
  PROVE  PaperOf(t) \in Papers /\ teacher[t].papers = {PaperOf(t)}
BY DEF OnePaper, PaperOf

LEMMA ExamInitInv == ExamInit => ExamInv
<1> SUFFICES ASSUME ExamInit PROVE ExamInv
  OBVIOUS
<1>1. PICK p \in Papers : exam = [status |-> "draft", papers |-> {p}, submitted |-> {}]
  BY DEF ExamInit
<1>2. NoResult \in Result /\ NoResult.sheet = NoSheet /\ ~NoResult.published
  BY DEF NoResult, Result, NoSheet, Sheet, MarkOrNone
<1>3. \A s \in Pupils : result[s] = NoResult
  BY DEF ExamInit
<1>4. \A t \in Teachers : teacher[t] = FreeTeacher
  BY DEF ExamInit
<1>5. ExamTypeOK
  <2>1. exam \in Exam
    BY <1>1 DEF Exam, EXAM_MUTABLE
  <2>2. mark \in [Papers -> [Pupils -> MarkOrNone]]
    BY DEF ExamInit, MarkOrNone
  <2>3. result \in [Pupils -> Result] /\ card \in [Pupils -> Result]
    BY <1>2 DEF ExamInit
  <2>4. teacher \in [Teachers -> Teacher]
    BY FreeTeacherTyped DEF ExamInit
  <2>5. QED BY <2>1, <2>2, <2>3, <2>4 DEF ExamInit, ExamTypeOK
<1>6. PapersSound
  <2>1. Counted(NoSheet) = {}
    BY DEF Counted, NoSheet
  <2>2. QED BY <1>1, <1>2, <1>3, <2>1 DEF PapersSound
<1>7. HandlersSound
  BY <1>4, FreeTeacherTyped DEF HandlersSound, HandlerSound
<1>8. exam.status \in EXAM_MUTABLE /\ exam.submitted = {} /\ exam.status # "published"
  BY <1>1 DEF EXAM_MUTABLE
<1>9. ResultsSettled
  BY <1>2, <1>3, <1>8 DEF ResultsSettled
<1>10. NoPaperLost /\ MeritListStands
  BY <1>8 DEF NoPaperLost, MeritListStands
<1>11. QED BY <1>5, <1>6, <1>7, <1>9, <1>10 DEF ExamInv

(* A step that only changes what one handler holds, and has him record     *)
(* nothing.                                                                *)
LEMMA HandlerReads ==
  ASSUME ExamInv, NEW t \in Teachers, teacher' \in [Teachers -> Teacher],
         \A u \in Teachers \ {t} : teacher'[u] = teacher[u],
         teacher'[t].at # "record", HandlerSound(t)',
         UNCHANGED <<exam, examLock, cohort, mark, result, card, late, arrived, astray>>
  PROVE  ExamInv'
<1>1. ExamTypeOK'
  BY DEF ExamInv, ExamTypeOK
<1>2. HandlersSound'
  <2> SUFFICES ASSUME NEW u \in Teachers, u # t PROVE HandlerSound(u)'
    BY DEF HandlersSound
  <2>1. HandlerSound(u) /\ teacher'[u] = teacher[u]
    BY DEF ExamInv, HandlersSound
  <2>2. /\ SheetsSound(u) => SheetsSound(u)'
        /\ SheetsOfPapers(u) => SheetsOfPapers(u)'
    BY <2>1 DEF SheetsSound, SheetsOfPapers
  <2>3. QED BY <2>1, <2>2 DEF HandlerSound, OnePaper
<1>3. PapersSound' /\ ResultsSettled'
  BY DEF ExamInv, PapersSound, ResultsSettled
<1>4. NoPaperLost'
  BY DEF ExamInv, NoPaperLost
<1>5. MeritListStands'
  BY DEF ExamInv, MeritListStands
<1>6. QED BY <1>1, <1>2, <1>3, <1>4, <1>5 DEF ExamInv

(* A step that only changes the class or the marks, and no mark on a paper *)
(* that was submitted before, unless it is a late one.                     *)
LEMMA ClassChanges ==
  ASSUME ExamInv, cohort' \subseteq Pupils, arrived' \subseteq cohort', mark' \in [Papers -> [Pupils -> MarkOrNone]],
         late' \subseteq Papers \X Pupils,
         teacher' \in [Teachers -> Teacher], HandlersSound',
         \A u \in Teachers : teacher'[u].at = "record" => teacher[u].at = "record",
         \A s \in cohort' \ arrived', p \in exam.submitted :
           mark'[p][s] # NoMark /\ <<p, s>> \notin late' =>
             s \in cohort \ arrived /\ mark[p][s] = mark'[p][s] /\ <<p, s>> \notin late,
         UNCHANGED <<exam, examLock, result, card, astray>>
  PROVE  ExamInv'
<1>1. ExamTypeOK'
  BY DEF ExamInv, ExamTypeOK
<1>2. PapersSound' /\ ResultsSettled'
  BY DEF ExamInv, PapersSound, ResultsSettled
<1>3. NoPaperLost'
  BY DEF ExamInv, NoPaperLost
<1>4. MeritListStands'
  BY DEF ExamInv, MeritListStands
<1>5. QED BY <1>1, <1>2, <1>3, <1>4 DEF ExamInv

LEMMA EnrolKeeps ==
  ASSUME ExamInv, NEW s \in Pupils, Enrol(s) \/ LeaveClass(s)
  PROVE  ExamInv'
<1>1. UNCHANGED <<exam, examLock, mark, result, teacher, card, late, astray>>
  BY DEF Enrol, LeaveClass
<1>2. /\ cohort' \subseteq Pupils /\ arrived' \subseteq cohort'
      /\ cohort' \ arrived' \subseteq cohort \ arrived
  BY DEF Enrol, LeaveClass, ExamInv, ExamTypeOK
<1>3. HandlersSound'
  <2> SUFFICES ASSUME NEW u \in Teachers PROVE HandlerSound(u)'
    BY DEF HandlersSound
  <2>1. HandlerSound(u)
    BY DEF ExamInv, HandlersSound
  <2>2. SheetsSound(u) => SheetsSound(u)'
    BY <1>1, <1>2, SheetsStaySound
  <2>3. SheetsOfPapers(u) => SheetsOfPapers(u)'
    BY <1>1 DEF SheetsOfPapers
  <2>4. QED BY <1>1, <2>1, <2>2, <2>3 DEF HandlerSound, OnePaper
<1>4. \A q \in cohort' \ arrived', p \in exam.submitted :
        mark'[p][q] # NoMark /\ <<p, q>> \notin late' =>
          q \in cohort \ arrived /\ mark[p][q] = mark'[p][q] /\ <<p, q>> \notin late
  BY <1>1, <1>2
<1>5. /\ mark' \in [Papers -> [Pupils -> MarkOrNone]] /\ late' \subseteq Papers \X Pupils
      /\ teacher' \in [Teachers -> Teacher]
  BY <1>1 DEF ExamInv, ExamTypeOK
<1>6. QED BY <1>1, <1>2, <1>3, <1>4, <1>5, ClassChanges

(* A handler reads, decides, and holds one paper, or nothing.              *)
LEMMA ReadingKeeps ==
  ASSUME ExamInv, NEW t \in Teachers, NEW p \in Papers,
         CheckMutable(t, p) \/ ReadSubmission(t, p)
  PROVE  ExamInv'
<1>1. UNCHANGED <<exam, examLock, cohort, mark, result, card, late, arrived, astray>>
  BY DEF CheckMutable, ReadSubmission, histories
<1>2. \/ Busy(t, "add", {p})
      \/ Busy(t, "submit", {p}) /\ p \in exam.papers
  BY DEF CheckMutable, ReadSubmission
<1>3. /\ teacher' \in [Teachers -> Teacher] /\ teacher'[t].papers = {p}
      /\ \/ teacher'[t].at = "add"
         \/ teacher'[t].at = "submit" /\ p \in exam.papers
      /\ \A u \in Teachers \ {t} : teacher'[u] = teacher[u]
  BY <1>2, TurnsBusy DEF ExamInv
<1>4. HandlerSound(t)'
  BY <1>1, <1>3 DEF HandlerSound, OnePaper
<1>5. QED BY <1>1, <1>3, <1>4, HandlerReads

LEMMA ReadPaperKeeps ==
  ASSUME ExamInv, NEW t \in Teachers, NEW p \in Papers, NEW s \in Pupils,
         NEW m \in 0 .. MaxMark, ReadPaper(t, p, s, m)
  PROVE  ExamInv'
<1> DEFINE at == IF exam.status = "draft" THEN "first" ELSE "mark"
           held == [FreeTeacher EXCEPT !.at = at, !.papers = {p}, !.entry = <<s, m>>]
<1>1. /\ teacher' = [teacher EXCEPT ![t] = held]
      /\ UNCHANGED <<exam, examLock, cohort, mark, result, card, late, arrived, astray>>
  BY DEF ReadPaper, histories
<1>2. at \in {"first", "mark"}
  OBVIOUS
<1> HIDE DEF at
<1>3. held \in Teacher /\ held.at = at /\ held.papers = {p} /\ held.entry = <<s, m>>
  BY <1>2, FreeTeacherTyped DEF Teacher, ExamStages
<1> HIDE DEF held
<1>4. /\ teacher' \in [Teachers -> Teacher] /\ teacher'[t] = held
      /\ \A u \in Teachers \ {t} : teacher'[u] = teacher[u]
  BY <1>1, <1>3, TeacherTurns DEF ExamInv
<1>5. HandlerSound(t)'
  BY <1>2, <1>3, <1>4 DEF HandlerSound, OnePaper
<1>6. QED BY <1>1, <1>2, <1>3, <1>4, <1>5, HandlerReads

(* The mark is written; on a paper that was submitted since, or is being   *)
(* recorded, it is a late one.                                             *)
LEMMA WriteMarkKeeps ==
  ASSUME ExamInv, NEW t \in Teachers, WriteMark(t)
  PROVE  ExamInv'
<1> DEFINE p == PaperOf(t)
           s == teacher[t].entry[1]
           m == teacher[t].entry[2]
<1>1. /\ teacher[t].at \in {"first", "mark"}
      /\ mark' = [mark EXCEPT ![p][s] = m]
      /\ late' = IF p \in exam.submitted \/ Recording(p) THEN late \cup {<<p, s>>} ELSE late
      /\ IF teacher[t].at = "first" THEN Busy(t, "stamp", {p}) ELSE Released(t)
      /\ UNCHANGED <<exam, examLock, cohort, result, card, arrived, astray>>
  BY DEF WriteMark
<1>2. p \in Papers /\ s \in Pupils /\ m \in 0 .. MaxMark
  <2>1. OnePaper(t) /\ teacher[t].entry \in Pupils \X (0 .. MaxMark)
    BY <1>1 DEF ExamInv, HandlersSound, HandlerSound
  <2>2. QED BY <2>1, PaperOfOne
<1> HIDE DEF p, s, m
<1>3. /\ mark' \in [Papers -> [Pupils -> MarkOrNone]]
      /\ \A x \in Papers, q \in Pupils : x # p \/ q # s => mark'[x][q] = mark[x][q]
  <2>1. m \in MarkOrNone
    BY <1>2 DEF MarkOrNone
  <2>2. QED BY <1>1, <1>2, <2>1 DEF ExamInv, ExamTypeOK
<1>4. late' \subseteq Papers \X Pupils /\ late \subseteq late'
  BY <1>1, <1>2 DEF ExamInv, ExamTypeOK
<1>5. /\ teacher' \in [Teachers -> Teacher]
      /\ teacher'[t].at \in {"stamp", "free"} /\ (teacher'[t].at = "stamp" => teacher'[t].papers = {p})
      /\ \A u \in Teachers \ {t} : teacher'[u] = teacher[u]
  <2>1. CASE teacher[t].at = "first"
    <3>1. Busy(t, "stamp", {p})
      BY <1>1, <2>1
    <3>2. QED BY <1>2, <3>1, TurnsBusy DEF ExamInv
  <2>2. CASE teacher[t].at # "first"
    <3>1. Released(t)
      BY <1>1, <2>2
    <3>2. QED BY <3>1, TurnsFree DEF ExamInv
  <2>3. QED BY <2>1, <2>2
<1>6. HandlersSound'
  <2>1. HandlerSound(t)'
    BY <1>2, <1>5 DEF HandlerSound, OnePaper
  <2>2. ASSUME NEW u \in Teachers, u # t PROVE HandlerSound(u)'
    <3>1. HandlerSound(u) /\ teacher'[u] = teacher[u]
      BY <1>5, <2>2 DEF ExamInv, HandlersSound
    <3>2. ASSUME teacher[u].at \in {"record", "generate"}, ~astray, p \in teacher[u].papers
          PROVE  <<p, s>> \in late'
      <4>1. p \in exam.submitted \/ Recording(p)
        BY <3>1, <3>2 DEF HandlerSound, Recording
      <4>2. QED BY <1>1, <4>1
    <3>3. teacher[u].papers \subseteq Papers
      BY DEF ExamInv, ExamTypeOK, Teacher
    <3>4. ASSUME teacher[u].at \in {"record", "generate"}, ~astray
          PROVE  SheetsSound(u)'
      <4>1. SheetsSound(u)
        BY <3>1, <3>4 DEF HandlerSound
      <4>2. ASSUME NEW q \in Pupils, NEW x \in teacher[u].papers, <<x, q>> \notin late'
            PROVE  mark'[x][q] = mark[x][q] /\ <<x, q>> \notin late
        BY <1>3, <1>4, <3>2, <3>3, <3>4, <4>2
      <4>3. QED BY <1>1, <3>1, <4>1, <4>2 DEF SheetsSound
    <3>5. SheetsOfPapers(u) => SheetsOfPapers(u)'
      BY <3>1 DEF SheetsOfPapers
    <3>6. QED BY <1>1, <3>1, <3>4, <3>5 DEF HandlerSound, OnePaper
  <2>3. QED BY <2>1, <2>2 DEF HandlersSound
<1>7. \A u \in Teachers : teacher'[u].at = "record" => teacher[u].at = "record"
  BY <1>5
<1>8. exam.submitted \subseteq Papers /\ cohort \subseteq Pupils /\ arrived \subseteq cohort
  BY DEF ExamInv, ExamTypeOK, Exam
<1>9. ASSUME NEW q \in cohort' \ arrived', NEW x \in exam.submitted,
             mark'[x][q] # NoMark, <<x, q>> \notin late'
      PROVE  q \in cohort \ arrived /\ mark[x][q] = mark'[x][q] /\ <<x, q>> \notin late
  <2>1. ~ (x = p /\ q = s)
    BY <1>1, <1>9
  <2>2. QED BY <1>1, <1>3, <1>4, <1>8, <1>9, <2>1
<1>10. cohort' \subseteq Pupils /\ arrived' \subseteq cohort'
  BY <1>1, <1>8
<1>11. QED BY <1>1, <1>3, <1>4, <1>5, <1>6, <1>7, <1>9, <1>10, ClassChanges

(* A draft becomes one whose marks are being entered.                      *)
LEMMA StampKeeps ==
  ASSUME ExamInv, NEW t \in Teachers, StampMarksEntry(t)
  PROVE  ExamInv'
<1>1. /\ exam' = [exam EXCEPT !.status = "marks_entry"]
      /\ astray' = (astray \/ exam.status \notin EXAM_MUTABLE)
      /\ Released(t)
      /\ UNCHANGED <<examLock, cohort, mark, result, card, late, arrived>>
  BY DEF StampMarksEntry, histories
<1>2. /\ exam' \in Exam /\ exam'.status = "marks_entry"
      /\ exam'.papers = exam.papers /\ exam'.submitted = exam.submitted
  BY <1>1 DEF ExamInv, ExamTypeOK, Exam, EXAM_MUTABLE
<1>3. /\ teacher' \in [Teachers -> Teacher] /\ teacher'[t].at = "free"
      /\ \A u \in Teachers \ {t} : teacher'[u] = teacher[u]
  BY <1>1, TurnsFree DEF ExamInv
<1>4. /\ astray' \in BOOLEAN /\ (~astray' => ~astray /\ exam.status \in EXAM_MUTABLE)
      /\ exam'.status \in EXAM_MUTABLE /\ exam'.status # "published"
      /\ exam.status \in EXAM_MUTABLE => exam.status # "published"
  BY <1>1, <1>2 DEF ExamInv, ExamTypeOK, EXAM_MUTABLE
<1>5. ExamTypeOK'
  BY <1>1, <1>2, <1>3, <1>4 DEF ExamInv, ExamTypeOK
<1>6. PapersSound'
  BY <1>1, <1>2 DEF ExamInv, PapersSound
<1>7. HandlersSound'
  <2> SUFFICES ASSUME NEW u \in Teachers PROVE HandlerSound(u)'
    BY DEF HandlersSound
  <2>1. CASE u = t
    BY <1>3, <2>1 DEF HandlerSound
  <2>2. CASE u # t
    <3>1. HandlerSound(u) /\ teacher'[u] = teacher[u]
      BY <1>3, <2>2 DEF ExamInv, HandlersSound
    <3>2. /\ SheetsSound(u) => SheetsSound(u)'
          /\ SheetsOfPapers(u) => SheetsOfPapers(u)'
      BY <1>1, <3>1, SheetsStaySound DEF SheetsOfPapers
    <3>3. QED BY <1>1, <1>2, <1>4, <3>1, <3>2 DEF HandlerSound, OnePaper
  <2>3. QED BY <2>1, <2>2
<1>8. ResultsSettled'
  BY <1>1, <1>4 DEF ExamInv, ResultsSettled
<1>9. NoPaperLost'
  BY <1>1, <1>2, <1>4 DEF ExamInv, NoPaperLost
<1>10. MeritListStands'
  BY <1>4 DEF MeritListStands
<1>11. QED BY <1>5, <1>6, <1>7, <1>8, <1>9, <1>10 DEF ExamInv

(* A paper is added; behind the back of whoever generates, that is astray. *)
LEMMA AddPaperKeeps ==
  ASSUME ExamInv, NEW t \in Teachers, AddPaper(t)
  PROVE  ExamInv'
<1>1. /\ teacher[t].at = "add"
      /\ exam' = [exam EXCEPT !.papers = @ \cup teacher[t].papers]
      /\ astray' = (astray \/ Generating \/ exam.status \notin EXAM_MUTABLE)
      /\ Released(t)
      /\ UNCHANGED <<examLock, cohort, mark, result, card, late, arrived>>
  BY DEF AddPaper, histories
<1>2. teacher[t].papers \subseteq Papers
  BY DEF ExamInv, ExamTypeOK, Teacher
<1>3. /\ exam' \in Exam /\ exam'.status = exam.status /\ exam.papers \subseteq exam'.papers
      /\ exam'.submitted = exam.submitted
  BY <1>1, <1>2 DEF ExamInv, ExamTypeOK, Exam
<1>4. /\ teacher' \in [Teachers -> Teacher] /\ teacher'[t].at = "free"
      /\ \A u \in Teachers \ {t} : teacher'[u] = teacher[u]
  BY <1>1, TurnsFree DEF ExamInv
<1>5. /\ astray' \in BOOLEAN
      /\ ~astray' => /\ ~astray /\ exam.status \in EXAM_MUTABLE
                     /\ \A u \in Teachers : teacher[u].at \notin {"check", "generate"}
  BY <1>1 DEF ExamInv, ExamTypeOK, Generating
<1>6. ExamTypeOK'
  BY <1>1, <1>3, <1>4, <1>5 DEF ExamInv, ExamTypeOK
<1>7. PapersSound'
  BY <1>1, <1>3 DEF ExamInv, PapersSound
<1>8. HandlersSound'
  <2> SUFFICES ASSUME NEW u \in Teachers PROVE HandlerSound(u)'
    BY DEF HandlersSound
  <2>1. CASE u = t
    BY <1>4, <2>1 DEF HandlerSound
  <2>2. CASE u # t
    <3>1. HandlerSound(u) /\ teacher'[u] = teacher[u]
      BY <1>4, <2>2 DEF ExamInv, HandlersSound
    <3>2. /\ SheetsSound(u) => SheetsSound(u)'
          /\ SheetsOfPapers(u) => SheetsOfPapers(u)'
      BY <1>1, <3>1, SheetsStaySound DEF SheetsOfPapers
    <3>3. QED BY <1>1, <1>3, <1>5, <3>1, <3>2 DEF HandlerSound, OnePaper
  <2>3. QED BY <2>1, <2>2
<1>9. ResultsSettled'
  BY <1>1, <1>3, <1>5 DEF ExamInv, ResultsSettled
<1>10. NoPaperLost'
  BY <1>1, <1>3, <1>5 DEF ExamInv, NoPaperLost
<1>11. MeritListStands'
  BY <1>3, <1>5 DEF MeritListStands
<1>12. QED BY <1>6, <1>7, <1>8, <1>9, <1>10, <1>11 DEF ExamInv

(* A submission takes the exam, and knows what else is submitted; one that *)
(* comes second lets go.                                                   *)
LEMMA LockExamKeeps ==
  ASSUME ExamInv, NEW t \in Teachers, LockExam(t)
  PROVE  ExamInv'
<1> DEFINE p == PaperOf(t)
<1>1. /\ teacher[t].at = "submit" /\ examLock = NoTeacher
      /\ IF p \in exam.submitted THEN Released(t) /\ UNCHANGED examLock
         ELSE examLock' = t /\ Calculates(t, "record", exam.submitted \cup {p})
      /\ UNCHANGED <<exam, cohort, mark, result, card, late, arrived, astray>>
  BY DEF LockExam, ExamGranted, histories
<1>2. p \in Papers /\ teacher[t].papers = {p} /\ p \in exam.papers
  <2>1. OnePaper(t) /\ teacher[t].papers \subseteq exam.papers
    BY <1>1 DEF ExamInv, HandlersSound, HandlerSound
  <2>2. p \in Papers /\ teacher[t].papers = {p}
    BY <2>1, PaperOfOne
  <2>3. QED BY <2>1, <2>2
<1> HIDE DEF p
<1>3. CASE p \in exam.submitted
  <2>1. Released(t) /\ UNCHANGED examLock
    BY <1>1, <1>3
  <2>2. /\ teacher' \in [Teachers -> Teacher] /\ teacher'[t].at = "free"
        /\ \A u \in Teachers \ {t} : teacher'[u] = teacher[u]
    BY <2>1, TurnsFree DEF ExamInv
  <2>3. HandlerSound(t)'
    BY <2>2 DEF HandlerSound
  <2>4. QED BY <1>1, <2>1, <2>2, <2>3, HandlerReads
<1>4. CASE p \notin exam.submitted
  <2>1. examLock' = t /\ Calculates(t, "record", exam.submitted \cup {p})
    BY <1>1, <1>4
  <2>2. exam.submitted \cup {p} \in SUBSET Papers
    BY <1>2 DEF ExamInv, ExamTypeOK, Exam
  <2>3. /\ teacher' \in [Teachers -> Teacher] /\ teacher'[t].at = "record"
        /\ teacher'[t].papers = exam.submitted \cup {p}
        /\ \A u \in Teachers \ {t} : teacher'[u] = teacher[u]
        /\ SheetsOfPapers(t)' /\ SheetsSound(t)'
    BY <1>1, <2>1, <2>2, TurnsCalculating DEF ExamInv
  <2>4. ExamTypeOK'
    BY <1>1, <2>1, <2>3 DEF ExamInv, ExamTypeOK
  <2>5. PapersSound' /\ NoPaperLost' /\ MeritListStands'
    BY <1>1 DEF ExamInv, PapersSound, NoPaperLost, MeritListStands
  <2>6. HandlersSound'
    <3> SUFFICES ASSUME NEW u \in Teachers PROVE HandlerSound(u)'
      BY DEF HandlersSound
    <3>1. CASE u = t
      BY <1>1, <1>2, <1>4, <2>1, <2>3, <3>1 DEF HandlerSound, ExamInv, PapersSound
    <3>2. CASE u # t
      <4>1. HandlerSound(u) /\ teacher'[u] = teacher[u]
        BY <2>3, <3>2 DEF ExamInv, HandlersSound
      <4>2. teacher[u].at # "record"
        BY <1>1, <4>1, ExamAssumption DEF HandlerSound
      <4>3. /\ SheetsSound(u) => SheetsSound(u)'
            /\ SheetsOfPapers(u) => SheetsOfPapers(u)'
        BY <1>1, <4>1, SheetsStaySound DEF SheetsOfPapers
      <4>4. QED BY <1>1, <4>1, <4>2, <4>3 DEF HandlerSound, OnePaper
    <3>3. QED BY <3>1, <3>2
  <2>7. ResultsSettled'
    <3>1. astray \/ exam.status \in EXAM_MUTABLE
      BY <1>2, <1>4 DEF ExamInv, ResultsSettled
    <3>2. QED BY <1>1, <3>1 DEF ExamInv, ResultsSettled
  <2>8. QED BY <2>4, <2>5, <2>6, <2>7 DEF ExamInv
<1>5. QED BY <1>3, <1>4

(* The paper is submitted, and the rows are over all that are.             *)
LEMMA RecordKeeps ==
  ASSUME ExamInv, NEW t \in Teachers, RecordSubmission(t)
  PROVE  ExamInv'
<1> DEFINE papers == teacher[t].papers
           sheets == teacher[t].sheets
<1>1. /\ teacher[t].at = "record"
      /\ exam' = [exam EXCEPT !.submitted = @ \cup papers]
      /\ result' = Recalculated(sheets)
      /\ arrived' = arrived \ Sitters(sheets)
      /\ examLock' = NoTeacher
      /\ Released(t)
      /\ UNCHANGED <<cohort, mark, card, late, astray>>
  BY DEF RecordSubmission
<1>2. /\ examLock = t /\ exam.submitted \subseteq papers /\ papers \subseteq exam.papers
      /\ ~ (papers \subseteq exam.submitted)
      /\ papers \in SUBSET Papers /\ sheets \in [Pupils -> Sheet]
      /\ \A s \in Pupils : Counted(sheets[s]) \subseteq papers
      /\ ~astray => SheetsSound(t)
  <2>1. HandlerSound(t)
    BY DEF ExamInv, HandlersSound
  <2>2. papers \in SUBSET Papers /\ sheets \in [Pupils -> Sheet]
    BY DEF ExamInv, ExamTypeOK, Teacher
  <2>3. QED BY <1>1, <2>1, <2>2 DEF HandlerSound, SheetsOfPapers
<1>f. ASSUME ~astray, NEW s \in Pupils, NEW p \in papers, <<p, s>> \notin late
      PROVE  /\ s \in Sitters(sheets) => sheets[s][p] = mark[p][s]
             /\ (s \in cohort \ arrived /\ mark[p][s] # NoMark) => s \in Sitters(sheets)
  BY <1>2, <1>f DEF SheetsSound
<1> HIDE DEF papers, sheets
<1>3. /\ exam' \in Exam /\ exam'.status = exam.status /\ exam'.papers = exam.papers
      /\ exam'.submitted = papers
  BY <1>1, <1>2 DEF ExamInv, ExamTypeOK, Exam
<1>4. /\ result' \in [Pupils -> Result]
      /\ \A s \in Pupils :
           /\ result'[s].published = result[s].published
           /\ Counted(result'[s].sheet) \subseteq exam.papers
           /\ s \in Sitters(sheets) => result'[s].sheet = sheets[s]
  <2>1. \A s \in Pupils : Counted(sheets[s]) \subseteq exam.papers
    BY <1>2
  <2>2. QED BY <1>1, <1>2, <2>1, RecalculatedRows DEF ExamInv
<1>5. /\ teacher' \in [Teachers -> Teacher] /\ teacher'[t].at = "free"
      /\ \A u \in Teachers \ {t} : teacher'[u] = teacher[u]
  BY <1>1, TurnsFree DEF ExamInv
<1>6. astray \/ exam.status \in EXAM_MUTABLE
  BY <1>1 DEF ExamInv, ResultsSettled
<1>7. ExamTypeOK'
  BY <1>1, <1>3, <1>4, <1>5 DEF ExamInv, ExamTypeOK
<1>8. PapersSound'
  BY <1>2, <1>3, <1>4 DEF PapersSound
<1>9. HandlersSound'
  <2> SUFFICES ASSUME NEW u \in Teachers PROVE HandlerSound(u)'
    BY DEF HandlersSound
  <2>1. CASE u = t
    BY <1>5, <2>1 DEF HandlerSound
  <2>2. CASE u # t
    <3>1. HandlerSound(u) /\ teacher'[u] = teacher[u]
      BY <1>5, <2>2 DEF ExamInv, HandlersSound
    <3>2. teacher[u].at # "record"
      BY <1>2, <2>2, <3>1 DEF HandlerSound
    <3>3. teacher[u].at \in {"check", "generate"} => astray
      BY <1>2, <3>1 DEF HandlerSound
    <3>4. SheetsOfPapers(u) => SheetsOfPapers(u)'
      BY <3>1 DEF SheetsOfPapers
    <3>5. QED BY <1>1, <1>3, <3>1, <3>2, <3>3, <3>4 DEF HandlerSound, OnePaper
  <2>3. QED BY <2>1, <2>2
<1>10. ResultsSettled'
  BY <1>1, <1>3, <1>4, <1>6 DEF ExamInv, ResultsSettled
<1>11. NoPaperLost'
  <2> SUFFICES ASSUME NEW s \in cohort \ arrived', NEW p \in papers,
                      mark[p][s] # NoMark, <<p, s>> \notin late, ~astray
               PROVE  result'[s].sheet[p] = mark[p][s]
    BY <1>1, <1>3 DEF NoPaperLost
  <2>1. s \in Pupils
    BY DEF ExamInv, ExamTypeOK
  <2>2. s \in Sitters(sheets)
    BY <1>1, <1>f, <2>1
  <2>3. QED BY <1>4, <1>f, <2>1, <2>2
<1>12. MeritListStands'
  BY <1>1, <1>3, <1>6 DEF MeritListStands
<1>13. QED BY <1>7, <1>8, <1>9, <1>10, <1>11, <1>12 DEF ExamInv

(* Results are generated of what was submitted when they were asked for.   *)
LEMMA CheckGenerateKeeps ==
  ASSUME ExamInv, NEW t \in Teachers, CheckGenerate(t)
  PROVE  ExamInv'
<1>1. /\ exam.papers # {} /\ exam.papers \subseteq exam.submitted
      /\ Busy(t, "check", exam.papers)
      /\ UNCHANGED <<exam, examLock, cohort, mark, result, card, late, arrived, astray>>
  BY DEF CheckGenerate, histories
<1>2. exam.papers \in SUBSET Papers
  BY DEF ExamInv, ExamTypeOK, Exam
<1>3. /\ teacher' \in [Teachers -> Teacher] /\ teacher'[t].at = "check"
      /\ teacher'[t].papers = exam.papers
      /\ \A u \in Teachers \ {t} : teacher'[u] = teacher[u]
  BY <1>1, <1>2, TurnsBusy DEF ExamInv
<1>4. HandlerSound(t)'
  BY <1>1, <1>3 DEF HandlerSound, ExamInv, PapersSound
<1>5. QED BY <1>1, <1>3, <1>4, HandlerReads

LEMMA ReadForGenerationKeeps ==
  ASSUME ExamInv, NEW t \in Teachers, ReadForGeneration(t)
  PROVE  ExamInv'
<1>1. /\ teacher[t].at = "check"
      /\ Calculates(t, "generate", teacher[t].papers)
      /\ astray' = (astray \/ exam.papers # teacher[t].papers)
      /\ UNCHANGED <<exam, examLock, cohort, mark, result, card, late, arrived>>
  BY DEF ReadForGeneration, histories
<1>2. teacher[t].papers \in SUBSET Papers /\ HandlerSound(t)
  BY DEF ExamInv, ExamTypeOK, HandlersSound, Teacher
<1>3. UNCHANGED astray
  BY <1>1, <1>2 DEF HandlerSound, ExamInv, ExamTypeOK
<1>4. /\ teacher' \in [Teachers -> Teacher] /\ teacher'[t].at = "generate"
      /\ teacher'[t].papers = teacher[t].papers
      /\ \A u \in Teachers \ {t} : teacher'[u] = teacher[u]
      /\ SheetsOfPapers(t)' /\ SheetsSound(t)'
  BY <1>1, <1>2, TurnsCalculating DEF ExamInv
<1>5. HandlerSound(t)'
  BY <1>1, <1>2, <1>3, <1>4 DEF HandlerSound
<1>6. QED BY <1>1, <1>3, <1>4, <1>5, HandlerReads

LEMMA CheckPublishKeeps ==
  ASSUME ExamInv, NEW t \in Teachers, CheckPublish(t)
  PROVE  ExamInv'
<1>1. /\ exam.status = "completed" /\ Busy(t, "publish", {})
      /\ UNCHANGED <<exam, examLock, cohort, mark, result, card, late, arrived, astray>>
  BY DEF CheckPublish, histories
<1>2. /\ teacher' \in [Teachers -> Teacher] /\ teacher'[t].at = "publish"
      /\ \A u \in Teachers \ {t} : teacher'[u] = teacher[u]
  BY <1>1, TurnsBusy DEF ExamInv
<1>3. HandlerSound(t)'
  BY <1>1, <1>2 DEF HandlerSound, EXAM_MUTABLE
<1>4. QED BY <1>1, <1>2, <1>3, HandlerReads

(* The rows are over the papers that were checked, which are all there are *)
(* unless one was added since, and are ranked.                             *)
LEMMA CommitGenerationKeeps ==
  ASSUME ExamInv, NEW t \in Teachers, CommitGeneration(t)
  PROVE  ExamInv'
<1> DEFINE papers == teacher[t].papers
           sheets == teacher[t].sheets
           rows == Recalculated(sheets)
<1>1. /\ teacher[t].at = "generate" /\ examLock = NoTeacher
      /\ result' = Ranked(rows, papers)
      /\ exam' = [exam EXCEPT !.status = "completed"]
      /\ arrived' = arrived \ Sitters(sheets)
      /\ astray' = (astray \/ exam.status = "published" \/ Disagreeing(t))
      /\ Released(t)
      /\ UNCHANGED <<examLock, cohort, mark, card, late>>
  BY DEF CommitGeneration
<1>2. /\ papers # {} /\ papers \subseteq exam.papers /\ papers \in SUBSET Papers
      /\ ~astray => exam.papers = papers /\ exam.submitted = papers
      /\ sheets \in [Pupils -> Sheet]
      /\ \A s \in Pupils : Counted(sheets[s]) \subseteq papers
      /\ ~astray => SheetsSound(t)
  <2>1. HandlerSound(t)
    BY DEF ExamInv, HandlersSound
  <2>2. papers \in SUBSET Papers /\ sheets \in [Pupils -> Sheet]
    BY DEF ExamInv, ExamTypeOK, Teacher
  <2>3. QED BY <1>1, <2>1, <2>2 DEF HandlerSound, SheetsOfPapers
<1>f. ASSUME ~astray, NEW s \in Pupils, NEW p \in papers, <<p, s>> \notin late
      PROVE  /\ s \in Sitters(sheets) => sheets[s][p] = mark[p][s]
             /\ (s \in cohort \ arrived /\ mark[p][s] # NoMark) => s \in Sitters(sheets)
  BY <1>2, <1>f DEF SheetsSound
<1>g. ASSUME ~astray', NEW u \in Teachers, teacher[u].at = "generate"
      PROVE  teacher[u].sheets = sheets
  BY <1>1, <1>g DEF Disagreeing
<1> HIDE DEF papers, sheets
<1>3. /\ rows \in [Pupils -> Result]
      /\ \A s \in Pupils :
           /\ rows[s].published = result[s].published
           /\ Counted(rows[s].sheet) \subseteq exam.papers
           /\ s \in Sitters(sheets) => rows[s].sheet = sheets[s]
  <2>1. \A s \in Pupils : Counted(sheets[s]) \subseteq exam.papers
    BY <1>2
  <2>2. QED BY <1>2, <2>1, RecalculatedRows DEF ExamInv
<1> HIDE DEF rows
<1>4. /\ exam' \in Exam /\ exam'.status = "completed" /\ exam'.papers = exam.papers
      /\ exam'.submitted = exam.submitted
  BY <1>1 DEF ExamInv, ExamTypeOK, Exam
<1>5. /\ astray' \in BOOLEAN
      /\ ~astray' => ~astray /\ exam.status # "published"
  BY <1>1 DEF ExamInv, ExamTypeOK
<1>6. /\ teacher' \in [Teachers -> Teacher] /\ teacher'[t].at = "free"
      /\ \A u \in Teachers \ {t} : teacher'[u] = teacher[u]
  BY <1>1, TurnsFree DEF ExamInv
<1>7. /\ result' \in [Pupils -> Result]
      /\ \A s \in Pupils : result'[s].sheet = rows[s].sheet /\ result'[s].published = rows[s].published
  <2>1. ASSUME NEW s \in Pupils
        PROVE  IF Rankable(rows[s], papers)
               THEN 1 + Cardinality({q \in {z \in Pupils : Rankable(rows[z], papers)} :
                                       Better(rows[q], rows[s])}) \in Nat
               ELSE 0 \in Nat
    <3>1. {q \in {z \in Pupils : Rankable(rows[z], papers)} : Better(rows[q], rows[s])}
            \in SUBSET Pupils
      OBVIOUS
    <3>2. QED BY <3>1, ExamAssumption, FS_Subset, FS_CardinalityType
  <2>2. QED BY <1>1, <1>3, <2>1 DEF Ranked, Result
<1>8. ExamTypeOK'
  BY <1>1, <1>4, <1>5, <1>6, <1>7 DEF ExamInv, ExamTypeOK
<1>9. PapersSound'
  BY <1>3, <1>4, <1>7 DEF ExamInv, PapersSound
<1>10. \A u \in Teachers : teacher[u].at # "record"
  BY <1>1, ExamAssumption DEF ExamInv, HandlersSound, HandlerSound
<1>11. HandlersSound'
  <2> SUFFICES ASSUME NEW u \in Teachers PROVE HandlerSound(u)'
    BY DEF HandlersSound
  <2>1. CASE u = t
    BY <1>6, <2>1 DEF HandlerSound
  <2>2. CASE u # t
    <3>1. HandlerSound(u) /\ teacher'[u] = teacher[u]
      BY <1>6, <2>2 DEF ExamInv, HandlersSound
    <3>2. exam'.status \notin EXAM_MUTABLE
      BY <1>4 DEF EXAM_MUTABLE
    <3>3. SheetsOfPapers(u) => SheetsOfPapers(u)'
      BY <3>1 DEF SheetsOfPapers
    <3>4. ASSUME teacher[u].at = "generate", ~astray' PROVE SheetsSound(u)'
      <4>1. SheetsSound(u) /\ teacher[u].sheets = sheets
        BY <1>5, <1>g, <3>1, <3>4 DEF HandlerSound
      <4>2. QED BY <1>1, <3>1, <4>1 DEF SheetsSound
    <3>5. QED BY <1>4, <1>5, <1>10, <3>1, <3>2, <3>3, <3>4 DEF HandlerSound, OnePaper
  <2>3. QED BY <2>1, <2>2
<1>12. ResultsSettled'
  <2>1. ASSUME ~astray' PROVE exam'.papers = exam'.submitted
    BY <1>2, <1>4, <1>5, <2>1
  <2>2. \A u \in Teachers : teacher'[u].at # "record"
    BY <1>6, <1>10
  <2>3. ASSUME ~astray' PROVE \A s \in Pupils : ~result'[s].published
    BY <1>3, <1>5, <1>7, <2>3 DEF ExamInv, ResultsSettled
  <2>4. QED BY <2>1, <2>2, <2>3 DEF ResultsSettled
<1>13. NoPaperLost'
  <2> SUFFICES ASSUME NEW s \in cohort \ arrived', NEW p \in exam.submitted,
                      mark[p][s] # NoMark, <<p, s>> \notin late, ~astray'
               PROVE  result'[s].sheet[p] = mark[p][s]
    BY <1>1, <1>4 DEF NoPaperLost
  <2>1. s \in Pupils /\ p \in papers
    BY <1>2, <1>5 DEF ExamInv, ExamTypeOK
  <2>2. s \in Sitters(sheets)
    BY <1>1, <1>5, <1>f, <2>1
  <2>3. QED BY <1>3, <1>5, <1>7, <1>f, <2>1, <2>2
<1>14. MeritListStands'
  <2> SUFFICES ASSUME ~astray' PROVE PlacedByPoints(result', exam'.papers)
    BY <1>4 DEF MeritListStands, PlacedByPoints, Whole
  <2>1. exam'.papers = papers
    BY <1>2, <1>4, <1>5
  <2>2. \A q \in Pupils : Counted(rows[q].sheet) \subseteq papers
    BY <1>3, <1>4, <2>1
  <2>3. PlacedByPoints(Ranked(rows, papers), papers)
    BY <1>2, <1>3, <2>2, RanksFollowPoints
  <2>4. QED BY <1>1, <2>1, <2>3
<1>15. QED BY <1>8, <1>9, <1>11, <1>12, <1>13, <1>14 DEF ExamInv

(* Whoever is placed is published, and the report cards are the rows.      *)
LEMMA CommitPublishKeeps ==
  ASSUME ExamInv, NEW t \in Teachers, CommitPublish(t)
  PROVE  ExamInv'
<1> DEFINE rows == ReleasedRows(result)
<1>1. /\ teacher[t].at = "publish" /\ result' = rows /\ card' = rows
      /\ exam' = [exam EXCEPT !.status = "published"]
      /\ Released(t)
      /\ UNCHANGED <<examLock, cohort, mark, late, arrived, astray>>
  BY DEF CommitPublish
<1>2. /\ rows \in [Pupils -> Result]
      /\ \A s \in Pupils :
           /\ rows[s].sheet = result[s].sheet /\ rows[s].position = result[s].position
           /\ rows[s].published = (result[s].published \/ result[s].position > 0)
  <2>1. \A s \in Pupils : result[s] \in Result
    BY DEF ExamInv, ExamTypeOK
  <2>2. QED BY <2>1 DEF ReleasedRows, Result
<1> HIDE DEF rows
<1>3. /\ exam' \in Exam /\ exam'.status = "published" /\ exam'.papers = exam.papers
      /\ exam'.submitted = exam.submitted
  BY <1>1 DEF ExamInv, ExamTypeOK, Exam
<1>4. /\ teacher' \in [Teachers -> Teacher] /\ teacher'[t].at = "free"
      /\ \A u \in Teachers \ {t} : teacher'[u] = teacher[u]
  BY <1>1, TurnsFree DEF ExamInv
<1>5. ~astray => exam.status \notin EXAM_MUTABLE
  BY <1>1 DEF ExamInv, HandlersSound, HandlerSound
<1>6. ExamTypeOK'
  BY <1>1, <1>2, <1>3, <1>4 DEF ExamInv, ExamTypeOK
<1>7. PapersSound'
  BY <1>1, <1>2, <1>3 DEF ExamInv, PapersSound
<1>8. HandlersSound'
  <2> SUFFICES ASSUME NEW u \in Teachers PROVE HandlerSound(u)'
    BY DEF HandlersSound
  <2>1. CASE u = t
    BY <1>4, <2>1 DEF HandlerSound
  <2>2. CASE u # t
    <3>1. HandlerSound(u) /\ teacher'[u] = teacher[u]
      BY <1>4, <2>2 DEF ExamInv, HandlersSound
    <3>2. exam'.status \notin EXAM_MUTABLE
      BY <1>3 DEF EXAM_MUTABLE
    <3>3. /\ SheetsSound(u) => SheetsSound(u)'
          /\ SheetsOfPapers(u) => SheetsOfPapers(u)'
      BY <1>1, <3>1, SheetsStaySound DEF SheetsOfPapers
    <3>4. QED BY <1>1, <1>3, <3>1, <3>2, <3>3 DEF HandlerSound, OnePaper
  <2>3. QED BY <2>1, <2>2
<1>9. ResultsSettled'
  BY <1>1, <1>3, <1>4, <1>5 DEF ExamInv, ResultsSettled
<1>10. NoPaperLost'
  <2>1. cohort \subseteq Pupils
    BY DEF ExamInv, ExamTypeOK
  <2>2. QED BY <1>1, <1>2, <1>3, <2>1 DEF ExamInv, NoPaperLost
<1>11. MeritListStands'
  <2> SUFFICES ASSUME ~astray
               PROVE  /\ PlacedByPoints(rows, exam.papers)
                      /\ \A s \in Pupils : rows[s].published = (s \in Whole(rows, exam.papers))
    BY <1>1, <1>3 DEF MeritListStands, PlacedByPoints, Whole
  <2>1. PlacedByPoints(result, exam.papers)
    BY <1>5 DEF ExamInv, MeritListStands, PlacedByPoints, Whole
  <2>2. Whole(rows, exam.papers) = Whole(result, exam.papers)
    BY <1>2 DEF Whole
  <2>3. \A s \in Pupils :
          {q \in Whole(rows, exam.papers) : Points(rows[q].sheet) > Points(rows[s].sheet)} =
            {q \in Whole(result, exam.papers) : Points(result[q].sheet) > Points(result[s].sheet)}
    BY <1>2, <2>2 DEF Whole
  <2>4. PlacedByPoints(rows, exam.papers)
    BY <1>2, <2>1, <2>2, <2>3, Zenon DEF PlacedByPoints
  <2>5. ASSUME NEW s \in Pupils
        PROVE  result[s].position > 0 <=> s \in Whole(result, exam.papers)
    <3> DEFINE ahead == {q \in Whole(result, exam.papers) :
                           Points(result[q].sheet) > Points(result[s].sheet)}
    <3>1. ahead \in SUBSET Pupils
      BY DEF Whole
    <3>2. Cardinality(ahead) \in Nat
      BY <3>1, ExamAssumption, FS_Subset, FS_CardinalityType
    <3>3. result[s].position = IF s \in Whole(result, exam.papers) THEN 1 + Cardinality(ahead) ELSE 0
      BY <2>1, Zenon DEF PlacedByPoints
    <3> HIDE DEF ahead
    <3>4. QED BY <3>2, <3>3
  <2>6. ASSUME NEW s \in Pupils PROVE result[s].published => s \in Whole(result, exam.papers)
    <3>1. CASE exam.status = "published"
      BY <1>5, <3>1 DEF ExamInv, MeritListStands, Whole
    <3>2. CASE exam.status # "published"
      BY <3>2 DEF ExamInv, ResultsSettled
    <3>3. QED BY <3>1, <3>2
  <2>7. ASSUME NEW s \in Pupils PROVE rows[s].published = (s \in Whole(rows, exam.papers))
    <3>1. result[s].published \in BOOLEAN
      BY DEF ExamInv, ExamTypeOK, Result
    <3>2. (result[s].published \/ result[s].position > 0) = (s \in Whole(result, exam.papers))
      BY <2>5, <2>6, <3>1
    <3>3. QED BY <1>2, <2>2, <3>2
  <2>8. QED BY <2>4, <2>7
<1>12. QED BY <1>6, <1>7, <1>8, <1>9, <1>10, <1>11 DEF ExamInv

(* A handler gives up, and the exam is not kept.                           *)
LEMMA AbandonKeeps ==
  ASSUME ExamInv, NEW t \in Teachers, AbandonExam(t)
  PROVE  ExamInv'
<1>1. /\ examLock' = IF examLock = t THEN NoTeacher ELSE examLock
      /\ Released(t)
      /\ UNCHANGED <<exam, cohort, mark, result, card, late, arrived, astray>>
  BY DEF AbandonExam, histories
<1>2. /\ teacher' \in [Teachers -> Teacher] /\ teacher'[t].at = "free"
      /\ \A u \in Teachers \ {t} : teacher'[u] = teacher[u]
  BY <1>1, TurnsFree DEF ExamInv
<1>3. ExamTypeOK'
  BY <1>1, <1>2 DEF ExamInv, ExamTypeOK
<1>4. PapersSound' /\ NoPaperLost' /\ MeritListStands'
  BY <1>1 DEF ExamInv, PapersSound, NoPaperLost, MeritListStands
<1>5. HandlersSound'
  <2> SUFFICES ASSUME NEW u \in Teachers PROVE HandlerSound(u)'
    BY DEF HandlersSound
  <2>1. CASE u = t
    BY <1>2, <2>1 DEF HandlerSound
  <2>2. CASE u # t
    <3>1. HandlerSound(u) /\ teacher'[u] = teacher[u]
      BY <1>2, <2>2 DEF ExamInv, HandlersSound
    <3>2. /\ SheetsSound(u) => SheetsSound(u)'
          /\ SheetsOfPapers(u) => SheetsOfPapers(u)'
      BY <1>1, <3>1, SheetsStaySound DEF SheetsOfPapers
    <3>3. QED BY <1>1, <2>2, <3>1, <3>2 DEF HandlerSound, OnePaper
  <2>3. QED BY <2>1, <2>2
<1>6. ResultsSettled'
  BY <1>1, <1>2 DEF ExamInv, ResultsSettled
<1>7. QED BY <1>3, <1>4, <1>5, <1>6 DEF ExamInv

LEMMA ExamNextInv == ExamInv /\ [ExamNext]_examVars => ExamInv'
<1> SUFFICES ASSUME ExamInv, [ExamNext]_examVars PROVE ExamInv'
  OBVIOUS
<1>1. CASE UNCHANGED examVars
  <2>1. ExamTypeOK' /\ PapersSound' /\ HandlersSound' /\ ResultsSettled'
    BY <1>1 DEF examVars, ExamInv, ExamTypeOK, PapersSound, HandlersSound, HandlerSound,
                OnePaper, SheetsSound, SheetsOfPapers, ResultsSettled
  <2>2. NoPaperLost' /\ MeritListStands'
    BY <1>1 DEF examVars, ExamInv, NoPaperLost, MeritListStands
  <2>3. QED BY <2>1, <2>2 DEF ExamInv
<1>2. ASSUME NEW s \in Pupils, Enrol(s) \/ LeaveClass(s) PROVE ExamInv'
  BY <1>2, EnrolKeeps
<1>3. ASSUME NEW t \in Teachers, NEW p \in Papers, CheckMutable(t, p) \/ ReadSubmission(t, p)
      PROVE  ExamInv'
  BY <1>3, ReadingKeeps
<1>4. ASSUME NEW t \in Teachers, NEW p \in Papers, NEW s \in Pupils, NEW m \in 0 .. MaxMark,
             ReadPaper(t, p, s, m)
      PROVE  ExamInv'
  BY <1>4, ReadPaperKeeps
<1>5. ASSUME NEW t \in Teachers, AddPaper(t) \/ WriteMark(t) \/ StampMarksEntry(t) PROVE ExamInv'
  BY <1>5, AddPaperKeeps, WriteMarkKeeps, StampKeeps
<1>6. ASSUME NEW t \in Teachers, LockExam(t) \/ RecordSubmission(t) PROVE ExamInv'
  BY <1>6, LockExamKeeps, RecordKeeps
<1>7. ASSUME NEW t \in Teachers, CheckGenerate(t) \/ ReadForGeneration(t) \/ CommitGeneration(t)
      PROVE  ExamInv'
  BY <1>7, CheckGenerateKeeps, ReadForGenerationKeeps, CommitGenerationKeeps
<1>8. ASSUME NEW t \in Teachers, CheckPublish(t) \/ CommitPublish(t) \/ AbandonExam(t)
      PROVE  ExamInv'
  BY <1>8, CheckPublishKeeps, CommitPublishKeeps, AbandonKeeps
<1>9. QED BY <1>1, <1>2, <1>3, <1>4, <1>5, <1>6, <1>7, <1>8 DEF ExamNext

LEMMA ExamAlways == ExamSpec => []ExamInv
  BY ExamInitInv, ExamNextInv, PTL DEF ExamSpec

(* Papers, marks, results and what handlers hold keep their types.         *)
THEOREM ExamTyped == ExamSpec => []ExamTypeOK
<1>1. ExamInv => ExamTypeOK
  BY DEF ExamInv
<1>2. QED BY <1>1, ExamAlways, PTL

(* Submissions at the same moment lose no paper, whoever comes and goes    *)
(* between their steps: the results of everyone in the class who did not   *)
(* come in since they were calculated are over all that was submitted.     *)
THEOREM NoSubmissionLost == ExamSpec => []NoPaperLost
<1>1. ExamInv => NoPaperLost
  BY DEF ExamInv
<1>2. QED BY <1>1, ExamAlways, PTL

(* Generated results rank those who sat every paper by their points, and   *)
(* what was published is not changed, whatever is submitted, entered or    *)
(* published beside it.                                                    *)
THEOREM PublishedListStands == ExamSpec => []MeritListStands
<1>1. ExamInv => MeritListStands
  BY DEF ExamInv
<1>2. QED BY <1>1, ExamAlways, PTL

-----------------------------------------------------------------------------
(* A behaviour of the host is one of each of its parts.                    *)
LEMMA TermIsItsParts ==
  TermSpec => Spec /\ ExamSpec
<1>1. TermInit => Init /\ ExamInit
  BY DEF TermInit
<1>2. ASSUME [UsagePart \/ ExamPart \/ ExamRests]_<<part, vars, examVars>>
      PROVE  [Next]_vars /\ [ExamNext]_examVars
  BY <1>2, Zenon DEF UsagePart, ExamPart, ExamRests
<1>3. QED BY <1>1, <1>2, PTL DEF TermSpec, Spec, ExamSpec

(* So what the parts guarantee holds in their host: types, the student     *)
(* limit, the fixed allowance, work that failed and was not charged, and   *)
(* an exam that loses no paper and keeps its merit list.                   *)
THEOREM TermHolds ==
  TermSpec => [](/\ TermTypes /\ StudentLimitHolds /\ FixedNeverExceeded /\ FailureCostsNothing
                 /\ NoPaperLost /\ MeritListStands)
<1>1. TypeOK /\ ExamTypeOK => TermTypes
  BY DEF TermTypes
<1>2. QED
  BY <1>1, TermIsItsParts, TypeCorrect, ExamTyped, StudentsWithinLimit, FixedWithinAllowance,
     FailureIsFree, NoSubmissionLost, PublishedListStands, PTL
=============================================================================

-------------------------- MODULE Runtime_proofs ----------------------------
(***************************************************************************)
(* What CronRunner guarantees for any number of processes, tasks, runs and *)
(* orders, and any timeout: a name is in a process's set exactly while one *)
(* run of that process waits for its task.  What JobQueue guarantees for   *)
(* any number of jobs, slots and attempts: no wake-up is lost.  And that a *)
(* behaviour of MCRuntime, their host, is one of each of its parts.        *)
(***************************************************************************)
EXTENDS MCRuntime, CacheSweep_proofs

-----------------------------------------------------------------------------
(* A run that is under way is some process's. *)
Placed == \A r \in Runs : run[r].host \in Hosts \/ run[r] = NoRun

(* What is waited for is in the set, what is in the set is waited for, and *)
(* by one run.                                                             *)
Noted == \A r \in Runs : Waiting(r) => run[r].task \in running[run[r].host]
Attended == \A h \in Hosts : \A t \in running[h] : WaitedFor(h, t) # {}
Alone ==
  \A r, q \in Runs :
    Waiting(r) /\ run[r].host = run[q].host /\ run[r].task = run[q].task => r = q

CronInv == CronTypeOK /\ Placed /\ Noted /\ Attended /\ Alone

LEMMA NoRunTyped ==
  /\ NoRun \in Run
  /\ NoRun.host = NoHost /\ NoRun.task = NoTask /\ NoRun.todo = <<>> /\ NoRun.age = 0
BY CronAssumption DEF NoRun, Run

LEMMA CronInitInv == CronInit => CronInv
<1> SUFFICES ASSUME CronInit PROVE CronInv
  OBVIOUS
<1>1. CronTypeOK
  BY NoRunTyped DEF CronInit, CronTypeOK
<1>2. Placed /\ Noted /\ Alone
  BY NoRunTyped DEF CronInit, Placed, Noted, Alone, Waiting
<1>3. Attended
  BY DEF CronInit, Attended
<1> QED
  BY <1>1, <1>2, <1>3 DEF CronInv

(* Run r becomes next, which waits for nothing, as r did before.           *)
LEMMA IdleRunKeeps ==
  ASSUME CronInv, NEW r \in Runs, NEW next \in Run,
         ~Waiting(r), next.task = NoTask, next.host \in Hosts \/ next = NoRun,
         run' = [run EXCEPT ![r] = next], UNCHANGED running,
         adrift' \in [Hosts -> SUBSET Tasks], UNCHANGED kills
  PROVE  CronInv'
<1>1. /\ run' \in [Runs -> Run] /\ run'[r] = next
      /\ \A q \in Runs \ {r} : run'[q] = run[q]
  BY DEF CronInv, CronTypeOK
<1>2. CronTypeOK'
  BY <1>1 DEF CronInv, CronTypeOK
<1>3. Placed' /\ Noted'
  BY <1>1 DEF CronInv, Placed, Noted, Waiting
<1>4. Alone'
  BY <1>1 DEF CronInv, Alone, Waiting
<1>5. Attended'
  <2> SUFFICES ASSUME NEW h \in Hosts, NEW t \in running'[h] PROVE WaitedFor(h, t)' # {}
    BY DEF Attended
  <2>1. t \in running[h] /\ t # NoTask
    BY CronAssumption DEF CronInv, CronTypeOK
  <2>2. PICK q \in Runs : run[q].host = h /\ run[q].task = t
    BY <2>1 DEF CronInv, Attended, WaitedFor
  <2>3. q # r
    BY <2>1, <2>2 DEF Waiting
  <2> QED
    BY <1>1, <2>2, <2>3 DEF WaitedFor
<1> QED
  BY <1>2, <1>3, <1>4, <1>5 DEF CronInv

(* Run r stops waiting, and takes the name out of its process's set.       *)
LEMMA LeaveKeeps ==
  ASSUME CronInv, NEW r \in Runs, Waiting(r),
         running' = [running EXCEPT ![run[r].host] = @ \ {run[r].task}],
         run' = [run EXCEPT ![r] = [@ EXCEPT !.task = NoTask, !.age = 0]],
         adrift' \in [Hosts -> SUBSET Tasks], UNCHANGED kills
  PROVE  CronInv'
<1> DEFINE next == [run[r] EXCEPT !.task = NoTask, !.age = 0]
           h0 == run[r].host
           t0 == run[r].task
<1>1. run[r] \in Run /\ run[r] # NoRun /\ h0 \in Hosts /\ t0 # NoTask
  BY NoRunTyped DEF CronInv, CronTypeOK, Placed, Waiting
<1>2. next \in Run /\ next.task = NoTask /\ next.host = h0
  <2>1. 0 \in 0 .. Timeout
    BY CronAssumption
  <2>2. next \in Run
    BY <1>1, <2>1 DEF Run
  <2> QED
    BY <1>1, <2>2 DEF Run
<1>3. run' = [run EXCEPT ![r] = next]
  OBVIOUS
<1> HIDE DEF next
<1>4. /\ run' \in [Runs -> Run] /\ run'[r] = next
      /\ \A q \in Runs \ {r} : run'[q] = run[q]
  BY <1>2, <1>3 DEF CronInv, CronTypeOK
<1>5. /\ running' \in [Hosts -> SUBSET Tasks]
      /\ running'[h0] = running[h0] \ {t0}
      /\ \A h \in Hosts \ {h0} : running'[h] = running[h]
  BY <1>1 DEF CronInv, CronTypeOK
<1>6. CronTypeOK'
  BY <1>4, <1>5 DEF CronInv, CronTypeOK
<1>7. Placed'
  BY <1>1, <1>2, <1>4 DEF CronInv, Placed
<1>8. Alone'
  BY <1>2, <1>4 DEF CronInv, Alone, Waiting
<1>9. Noted'
  <2> SUFFICES ASSUME NEW q \in Runs, Waiting(q)'
               PROVE  run'[q].task \in running'[run'[q].host]
    BY DEF Noted
  <2>1. q # r /\ run'[q] = run[q]
    BY <1>2, <1>4 DEF Waiting
  <2>2. run[q].task # NoTask /\ run[q].host \in Hosts /\ run[q].task \in running[run[q].host]
    BY <2>1, NoRunTyped DEF CronInv, Noted, Placed, Waiting
  <2>3. run[q].host = h0 => run[q].task # t0
    BY <2>1, <2>2 DEF CronInv, Alone, Waiting
  <2> QED
    BY <1>5, <2>1, <2>2, <2>3
<1>10. Attended'
  <2> SUFFICES ASSUME NEW h \in Hosts, NEW t \in running'[h] PROVE WaitedFor(h, t)' # {}
    BY DEF Attended
  <2>1. t \in running[h] /\ ~(h = h0 /\ t = t0)
    BY <1>5
  <2>2. PICK q \in Runs : run[q].host = h /\ run[q].task = t
    BY <2>1 DEF CronInv, Attended, WaitedFor
  <2> QED
    BY <1>4, <2>1, <2>2 DEF WaitedFor
<1> QED
  BY <1>6, <1>7, <1>8, <1>9, <1>10 DEF CronInv

LEMMA FiresKeeps ==
  ASSUME CronInv, NEW r \in Runs, NEW h \in Hosts, NEW t \in Tasks, ScheduleFires(r, h, t)
  PROVE  CronInv'
<1> DEFINE next == [NoRun EXCEPT !.host = h, !.todo = <<t>>]
<1>1. next \in Run /\ next.task = NoTask /\ next.host = h
  <2>1. <<t>> \in Seq(Tasks)
    OBVIOUS
  <2> QED
    BY <2>1, NoRunTyped DEF Run, NoRun
<1>2. ~Waiting(r)
  BY NoRunTyped DEF ScheduleFires, Waiting
<1>3. run' = [run EXCEPT ![r] = next] /\ UNCHANGED <<running, adrift, kills>>
  BY DEF ScheduleFires
<1>4. adrift' \in [Hosts -> SUBSET Tasks]
  BY <1>3 DEF CronInv, CronTypeOK
<1> HIDE DEF next
<1> QED
  BY <1>1, <1>2, <1>3, <1>4, IdleRunKeeps

LEMMA RunOnceKeeps ==
  ASSUME CronInv, NEW r \in Runs, NEW h \in Hosts, NEW order \in Orders, RunOnce(r, h, order)
  PROVE  CronInv'
<1> DEFINE next == [NoRun EXCEPT !.host = h, !.todo = order]
<1>1. next \in Run /\ next.task = NoTask /\ next.host = h
  BY CronAssumption, NoRunTyped DEF Run, NoRun
<1>2. ~Waiting(r)
  BY NoRunTyped DEF RunOnce, Waiting
<1>3. run' = [run EXCEPT ![r] = next] /\ UNCHANGED <<running, adrift, kills>>
  BY DEF RunOnce
<1>4. adrift' \in [Hosts -> SUBSET Tasks]
  BY <1>3 DEF CronInv, CronTypeOK
<1> HIDE DEF next
<1> QED
  BY <1>1, <1>2, <1>3, <1>4, IdleRunKeeps

(* What is first in a run that has something to do, and the rest of it.    *)
LEMMA TodoTyped ==
  ASSUME CronInv, NEW r \in Runs, run[r].todo # <<>>
  PROVE  /\ run[r] \in Run /\ run[r].host \in Hosts
         /\ Head(run[r].todo) \in Tasks /\ Tail(run[r].todo) \in Seq(Tasks)
<1>1. run[r] \in Run /\ run[r].todo \in Seq(Tasks)
  BY DEF CronInv, CronTypeOK, Run
<1>2. run[r].host \in Hosts
  BY NoRunTyped DEF CronInv, Placed
<1> QED
  BY <1>1, <1>2, HeadTailProperties

LEMMA SkipKeeps ==
  ASSUME CronInv, NEW r \in Runs, Skip(r)
  PROVE  CronInv'
<1> DEFINE next == [run[r] EXCEPT !.todo = Tail(@)]
<1>1. /\ run[r] \in Run /\ run[r].host \in Hosts
      /\ Tail(run[r].todo) \in Seq(Tasks)
  BY TodoTyped DEF Skip
<1>2. next \in Run /\ next.task = run[r].task /\ next.host = run[r].host
  BY <1>1 DEF Run
<1>3. ~Waiting(r) /\ run[r].task = NoTask
  BY DEF Skip, Waiting
<1>4. run' = [run EXCEPT ![r] = next] /\ UNCHANGED <<running, adrift, kills>>
  BY DEF Skip
<1>5. adrift' \in [Hosts -> SUBSET Tasks]
  BY <1>4 DEF CronInv, CronTypeOK
<1> HIDE DEF next
<1> QED
  BY <1>1, <1>2, <1>3, <1>4, <1>5, IdleRunKeeps

(* The name was not in the set, so nobody waits for the task.              *)
LEMMA StartKeeps ==
  ASSUME CronInv, NEW r \in Runs, Start(r)
  PROVE  CronInv'
<1> DEFINE h0 == run[r].host
           t0 == Head(run[r].todo)
           next == [run[r] EXCEPT !.task = t0, !.todo = Tail(@), !.age = 0]
<1>1. /\ run[r] \in Run /\ h0 \in Hosts /\ t0 \in Tasks
      /\ Tail(run[r].todo) \in Seq(Tasks)
  BY TodoTyped DEF Start
<1>2. next \in Run /\ next.task = t0 /\ next.host = h0
  <2>1. 0 \in 0 .. Timeout
    BY CronAssumption
  <2>2. next \in Run
    BY <1>1, <2>1 DEF Run
  <2> QED
    BY <1>1, <2>2 DEF Run
<1>3. /\ ~Waiting(r) /\ run[r].task = NoTask /\ t0 \notin running[h0]
      /\ running' = [running EXCEPT ![h0] = @ \cup {t0}]
      /\ UNCHANGED <<adrift, kills>>
  BY DEF Start, Waiting
<1>3a. run' = [run EXCEPT ![r] = next]
  BY DEF Start
<1> HIDE DEF next, t0
<1>4. /\ run' \in [Runs -> Run] /\ run'[r] = next
      /\ \A q \in Runs \ {r} : run'[q] = run[q]
  BY <1>2, <1>3a DEF CronInv, CronTypeOK
<1>5. /\ running' \in [Hosts -> SUBSET Tasks]
      /\ running'[h0] = running[h0] \cup {t0}
      /\ \A h \in Hosts \ {h0} : running'[h] = running[h]
  BY <1>1, <1>3 DEF CronInv, CronTypeOK
<1>6. CronTypeOK'
  BY <1>3, <1>4, <1>5 DEF CronInv, CronTypeOK
<1>7. Placed'
  BY <1>1, <1>2, <1>4 DEF CronInv, Placed
<1>8. \A q \in Runs \ {r} : ~(run[q].host = h0 /\ run[q].task = t0)
  BY <1>1, <1>3, CronAssumption DEF CronInv, Noted, Waiting
<1>9. Alone'
  BY <1>2, <1>4, <1>8 DEF CronInv, Alone, Waiting
<1>10. Noted'
  <2> SUFFICES ASSUME NEW q \in Runs, Waiting(q)'
               PROVE  run'[q].task \in running'[run'[q].host]
    BY DEF Noted
  <2>1. CASE q = r
    BY <1>2, <1>4, <1>5, <2>1
  <2>2. CASE q # r
    <3>1. run'[q] = run[q] /\ Waiting(q)
      BY <1>4, <2>2 DEF Waiting
    <3>2. run[q].host \in Hosts /\ run[q].task \in running[run[q].host]
      BY <3>1, NoRunTyped DEF CronInv, Noted, Placed, Waiting
    <3> QED
      BY <1>5, <3>1, <3>2
  <2> QED
    BY <2>1, <2>2
<1>11. Attended'
  <2> SUFFICES ASSUME NEW h \in Hosts, NEW t \in running'[h] PROVE WaitedFor(h, t)' # {}
    BY DEF Attended
  <2>1. CASE h = h0 /\ t = t0
    BY <1>2, <1>4, <2>1 DEF WaitedFor
  <2>2. CASE ~(h = h0 /\ t = t0)
    <3>1. t \in running[h] /\ t # NoTask
      BY <1>5, <2>2, CronAssumption DEF CronInv, CronTypeOK
    <3>2. PICK q \in Runs : run[q].host = h /\ run[q].task = t
      BY <3>1 DEF CronInv, Attended, WaitedFor
    <3>3. q # r
      BY <1>3, <3>1, <3>2
    <3> QED
      BY <1>4, <3>2, <3>3 DEF WaitedFor
  <2> QED
    BY <2>1, <2>2
<1> QED
  BY <1>6, <1>7, <1>9, <1>10, <1>11 DEF CronInv

LEMMA AbandonKeeps ==
  ASSUME CronInv, NEW r \in Runs, Abandon(r)
  PROVE  CronInv'
<1>1. Waiting(r)
  BY DEF Abandon, TimeIsUp
<1>2. run[r] \in Run /\ run[r].host \in Hosts /\ run[r].task \in Tasks
  BY <1>1, NoRunTyped DEF CronInv, CronTypeOK, Placed, Waiting, Run
<1>3. adrift' \in [Hosts -> SUBSET Tasks]
  BY <1>2 DEF Abandon, CronInv, CronTypeOK
<1> QED
  BY <1>1, <1>3, LeaveKeeps DEF Abandon

LEMMA ReturnKeeps ==
  ASSUME CronInv, NEW r \in Runs, Return(r)
  PROVE  CronInv'
<1>1. adrift' \in [Hosts -> SUBSET Tasks]
  BY DEF Return, CronInv, CronTypeOK
<1> QED
  BY <1>1, NoRunTyped, IdleRunKeeps DEF Return

LEMMA KillKeeps ==
  ASSUME CronInv, NEW h \in Hosts, Kill(h)
  PROVE  CronInv'
<1>1. /\ run' = [r \in Runs |-> IF run[r].host = h THEN NoRun ELSE run[r]]
      /\ run' \in [Runs -> Run]
  BY NoRunTyped DEF Kill, CronInv, CronTypeOK
<1>2. /\ running' \in [Hosts -> SUBSET Tasks] /\ running'[h] = {}
      /\ \A g \in Hosts \ {h} : running'[g] = running[g]
  BY DEF Kill, CronInv, CronTypeOK
<1>3. CronTypeOK'
  BY <1>1, <1>2 DEF Kill, CronInv, CronTypeOK
<1>4. Placed'
  BY <1>1, NoRunTyped DEF CronInv, Placed
<1>5. Alone'
  BY <1>1, NoRunTyped DEF CronInv, Alone, Waiting
<1>6. Noted'
  <2> SUFFICES ASSUME NEW q \in Runs, Waiting(q)'
               PROVE  run'[q].task \in running'[run'[q].host]
    BY DEF Noted
  <2>1. run'[q] = run[q] /\ run[q].host # h /\ Waiting(q)
    BY <1>1, NoRunTyped DEF Waiting
  <2>2. run[q].host \in Hosts /\ run[q].task \in running[run[q].host]
    BY <2>1, NoRunTyped DEF CronInv, Noted, Placed, Waiting
  <2> QED
    BY <1>2, <2>1, <2>2
<1>7. Attended'
  <2> SUFFICES ASSUME NEW g \in Hosts, NEW t \in running'[g] PROVE WaitedFor(g, t)' # {}
    BY DEF Attended
  <2>1. g # h /\ t \in running[g]
    BY <1>2
  <2>2. PICK q \in Runs : run[q].host = g /\ run[q].task = t
    BY <2>1 DEF CronInv, Attended, WaitedFor
  <2> QED
    BY <1>1, <2>1, <2>2 DEF WaitedFor
<1> QED
  BY <1>3, <1>4, <1>5, <1>6, <1>7 DEF CronInv

LEMMA PassTimeKeeps ==
  ASSUME CronInv, PassTime
  PROVE  CronInv'
<1>1. run' = [r \in Runs |-> IF Waiting(r) THEN [run[r] EXCEPT !.age = @ + 1] ELSE run[r]]
  BY DEF PassTime
<1>2. ASSUME NEW r \in Runs
      PROVE  /\ run'[r] \in Run /\ run'[r].host = run[r].host /\ run'[r].task = run[r].task
             /\ ~Waiting(r) => run'[r] = run[r]
  <2>1. run[r] \in Run /\ run[r].age < Timeout /\ run[r].age \in 0 .. Timeout
    BY DEF PassTime, CronInv, CronTypeOK, Run
  <2>2. run[r].age + 1 \in 0 .. Timeout
    BY <2>1, CronAssumption
  <2> QED
    BY <1>1, <2>1, <2>2 DEF Run
<1>3. CronTypeOK'
  <2>1. run' \in [Runs -> Run]
    BY <1>1, <1>2
  <2> QED
    BY <2>1 DEF PassTime, CronInv, CronTypeOK
<1>4. Placed'
  BY <1>2, NoRunTyped DEF CronInv, Placed, Waiting
<1>5. UNCHANGED running
  BY DEF PassTime
<1>6. Noted'
  BY <1>2, <1>5 DEF CronInv, Noted, Waiting
<1>7. Alone'
  BY <1>2 DEF CronInv, Alone, Waiting
<1>8. Attended'
  BY <1>2, <1>5 DEF CronInv, Attended, WaitedFor
<1> QED
  BY <1>3, <1>4, <1>6, <1>7, <1>8 DEF CronInv

LEMMA CronNextInv == CronInv /\ [CronNext]_cronVars => CronInv'
<1> SUFFICES ASSUME CronInv, [CronNext]_cronVars PROVE CronInv'
  OBVIOUS
<1>1. CASE UNCHANGED cronVars
  BY <1>1 DEF cronVars, CronInv, CronTypeOK, Placed, Noted, Attended, Alone, Waiting, WaitedFor
<1>2. ASSUME NEW r \in Runs, RunStep(r) PROVE CronInv'
  <2>1. ASSUME NEW h \in Hosts, NEW t \in Tasks, ScheduleFires(r, h, t) PROVE CronInv'
    BY <2>1, FiresKeeps
  <2>2. ASSUME NEW h \in Hosts, NEW order \in Orders, RunOnce(r, h, order) PROVE CronInv'
    BY <2>2, RunOnceKeeps
  <2>3. CASE Skip(r)
    BY <2>3, SkipKeeps
  <2>4. CASE Start(r)
    BY <2>4, StartKeeps
  <2>5. CASE Settle(r)
    <3>1. adrift' \in [Hosts -> SUBSET Tasks]
      BY <2>5 DEF Settle, CronInv, CronTypeOK
    <3> QED
      BY <2>5, <3>1, LeaveKeeps DEF Settle
  <2>6. CASE Abandon(r)
    BY <2>6, AbandonKeeps
  <2>7. CASE Return(r)
    BY <2>7, ReturnKeeps
  <2> QED
    BY <1>2, <2>1, <2>2, <2>3, <2>4, <2>5, <2>6, <2>7 DEF RunStep
<1>3. ASSUME NEW h \in Hosts, NEW t \in Tasks, EndsUnnoticed(h, t) PROVE CronInv'
  <2>1. CronTypeOK'
    BY <1>3 DEF EndsUnnoticed, CronInv, CronTypeOK
  <2>2. Placed' /\ Noted' /\ Attended' /\ Alone'
    BY <1>3 DEF EndsUnnoticed, CronInv, Placed, Noted, Attended, Alone, Waiting, WaitedFor
  <2> QED
    BY <2>1, <2>2 DEF CronInv
<1>4. ASSUME NEW h \in Hosts, Kill(h) PROVE CronInv'
  BY <1>4, KillKeeps
<1>5. CASE PassTime
  BY <1>5, PassTimeKeeps
<1> QED
  BY <1>1, <1>2, <1>3, <1>4, <1>5 DEF CronNext

(* The same, counted.                                                      *)
LEMMA InvCounts == CronInv => RunningIsWaitedFor
<1> SUFFICES ASSUME CronInv, NEW h \in Hosts, NEW t \in Tasks
             PROVE  Cardinality(WaitedFor(h, t)) = IF t \in running[h] THEN 1 ELSE 0
  BY DEF RunningIsWaitedFor
<1>1. t # NoTask
  BY CronAssumption
<1>2. CASE t \in running[h]
  <2>1. PICK r \in Runs : run[r].host = h /\ run[r].task = t
    BY <1>2 DEF CronInv, Attended, WaitedFor
  <2>2. WaitedFor(h, t) = {r}
    BY <1>1, <2>1 DEF CronInv, Alone, Waiting, WaitedFor
  <2> QED
    BY <1>2, <2>2, FS_Singleton
<1>3. CASE t \notin running[h]
  <2>1. WaitedFor(h, t) = {}
    BY <1>1, <1>3 DEF CronInv, Noted, Waiting, WaitedFor
  <2> QED
    BY <1>3, <2>1, FS_EmptySet
<1> QED
  BY <1>2, <1>3

(* Runs, sets and what is adrift keep their types. *)
THEOREM CronTyped == CronSpec => []CronTypeOK
<1>1. CronInv => CronTypeOK
  BY DEF CronInv
<1> QED
  BY <1>1, CronInitInv, CronNextInv, PTL DEF CronSpec

(* runOrdered(): whatever hangs, times out, is skipped or killed, a name   *)
(* is in a process's set exactly while one run there waits for its task.   *)
THEOREM SetSaysWhatIsWaitedFor == CronSpec => []RunningIsWaitedFor
BY InvCounts, CronInitInv, CronNextInv, PTL DEF CronSpec

-----------------------------------------------------------------------------
(* The queue: what is pending is listed once, and nothing else is; jobs    *)
(* that will be started have an attempt left.                              *)

ListedIn(queue, jobs) ==
  /\ \A m, n \in 1 .. Len(queue) : queue[m] = queue[n] => m = n
  /\ \A j \in Jobs : jobs[j].at = "pending" <=> \E n \in 1 .. Len(queue) : queue[n] = j

RunningIn(jobs) == {j \in Jobs : jobs[j].at = "running"}

AttemptsIn(jobs) ==
  \A j \in Registered : jobs[j].at \in {"pending", "backoff"} => jobs[j].attempts < MaxAttempts

QueueInv == QueueTypeOK /\ NoJobStranded /\ ListedIn(pending, job) /\ AttemptsIn(job)

(* Jobs are finitely many. *)
LEMMA RunningFinite ==
  ASSUME NEW jobs
  PROVE  IsFiniteSet(RunningIn(jobs)) /\ Cardinality(RunningIn(jobs)) \in Nat
<1>1. RunningIn(jobs) \in SUBSET Jobs
  BY DEF RunningIn
<1>2. QED BY <1>1, QueueAssumption, FS_Subset, FS_CardinalityType

(* The first n of a queue without repetitions are n. *)
LEMMA TakenCounted ==
  ASSUME NEW queue \in Seq(Jobs), NEW n \in Nat, n <= Len(queue),
         \A k, m \in 1 .. Len(queue) : queue[k] = queue[m] => k = m
  PROVE  LET taken == {queue[i] : i \in 1 .. n}
         IN  IsFiniteSet(taken) /\ Cardinality(taken) = n /\ taken \subseteq Jobs
<1> DEFINE taken == {queue[i] : i \in 1 .. n}
           f == [i \in 1 .. n |-> queue[i]]
<1>0. /\ Len(queue) \in Nat /\ 1 .. n \subseteq 1 .. Len(queue)
      /\ \A i \in 1 .. Len(queue) : queue[i] \in Jobs
  BY LenProperties, ElementOfSeq
<1>1. f \in Bijection(1 .. n, taken)
  <2>1. f \in Injection(1 .. n, taken)
    <3>1. f \in [1 .. n -> taken]
      OBVIOUS
    <3>2. ASSUME NEW k \in 1 .. n, NEW m \in 1 .. n, f[k] = f[m] PROVE k = m
      <4>1. queue[k] = queue[m] /\ k \in 1 .. Len(queue) /\ m \in 1 .. Len(queue)
        BY <1>0, <3>2
      <4>2. QED BY <4>1
    <3> HIDE DEF f, taken
    <3>3. QED BY <3>1, <3>2 DEF Injection, IsInjective
  <2>2. f \in Surjection(1 .. n, taken)
    BY DEF Surjection
  <2>3. QED BY <2>1, <2>2 DEF Bijection
<1>2. ExistsBijection(1 .. n, taken)
  BY <1>1 DEF ExistsBijection
<1>3. IsFiniteSet(1 .. n) /\ Cardinality(1 .. n) = n
  BY FS_Interval
<1>4. taken \subseteq Jobs
  BY <1>0
<1> HIDE DEF taken
<1>5. IsFiniteSet(taken) /\ Cardinality(taken) = n
  BY <1>2, <1>3, FS_Bijection
<1>6. QED BY <1>4, <1>5 DEF taken

(* drain() takes as many as there is room for, and leaves jobs pending     *)
(* only when every slot is taken.                                          *)
LEMMA DrainedKeeps ==
  ASSUME NEW queue \in Seq(Jobs), NEW jobs \in [Jobs -> JobState],
         ListedIn(queue, jobs), AttemptsIn(jobs),
         slots \in 0 .. Concurrency, slots = Cardinality(RunningIn(jobs)),
         Drained(queue, jobs)
  PROVE  /\ pending' \in Seq(Jobs) /\ job' \in [Jobs -> JobState]
         /\ slots' \in 0 .. Concurrency /\ slots' = Cardinality(RunningIn(job'))
         /\ pending' # <<>> => slots' = Concurrency
         /\ ListedIn(pending', job') /\ AttemptsIn(job')
<1> DEFINE room == Concurrency - slots
           n == IF room < Len(queue) THEN room ELSE Len(queue)
           taken == {queue[i] : i \in 1 .. n}
           rest == SubSeq(queue, n + 1, Len(queue))
<1>1. /\ Len(queue) \in Nat /\ \A i \in 1 .. Len(queue) : queue[i] \in Jobs
      /\ Concurrency \in Nat /\ room \in Nat /\ slots \in Nat
  BY QueueAssumption, LenProperties, ElementOfSeq
<1>2. n \in Nat /\ n <= Len(queue) /\ n <= room /\ (n < Len(queue) => n = room)
  <2> HIDE DEF room
  <2> QED BY <1>1
<1>3. /\ pending' = rest /\ slots' = slots + n
      /\ job' = [j \in Jobs |->
                  IF j \notin taken THEN jobs[j]
                  ELSE [at |-> "running",
                        attempts |-> jobs[j].attempts + (IF j \in Registered THEN 1 ELSE 0)]]
  BY Zenon DEF Drained
<1> HIDE DEF n
<1>4. IsFiniteSet(taken) /\ Cardinality(taken) = n /\ taken \subseteq Jobs
  <2>1. \A k, m \in 1 .. Len(queue) : queue[k] = queue[m] => k = m
    BY DEF ListedIn
  <2>2. QED BY <1>2, <2>1, TakenCounted
<1>5. /\ rest \in Seq(Jobs) /\ Len(rest) = Len(queue) - n
      /\ \A i \in 1 .. Len(rest) : rest[i] = queue[n + i]
  <2>1. \A i \in n + 1 .. Len(queue) : queue[i] \in Jobs
    BY <1>1, <1>2
  <2>2. /\ rest \in Seq(Jobs)
        /\ Len(rest) = IF n + 1 <= Len(queue) THEN Len(queue) - (n + 1) + 1 ELSE 0
        /\ \A i \in 1 .. Len(queue) - (n + 1) + 1 : rest[i] = queue[n + 1 + i - 1]
    <3>1. n + 1 \in Int /\ Len(queue) \in Int
      BY <1>1, <1>2
    <3>2. QED BY <2>1, <3>1, SubSeqProperties
  <2> HIDE DEF rest
  <2>3. Len(rest) = Len(queue) - n
    BY <1>1, <1>2, <2>2
  <2>4. ASSUME NEW i \in 1 .. Len(rest) PROVE rest[i] = queue[n + i]
    <3>1. i \in 1 .. Len(queue) - (n + 1) + 1 /\ n + 1 + i - 1 = n + i
      BY <1>1, <1>2, <2>3
    <3>2. QED BY <2>2, <3>1
  <2>5. QED BY <2>2, <2>3, <2>4
<1>6. \A j \in Jobs : j \in taken <=> \E i \in 1 .. n : queue[i] = j
  OBVIOUS
<1>7. \A j \in taken : jobs[j].at = "pending"
  BY <1>1, <1>2, <1>4, <1>6 DEF ListedIn
<1>8. \A j \in Jobs :
        IF j \in taken
        THEN /\ job'[j].at = "running"
             /\ job'[j].attempts = jobs[j].attempts + (IF j \in Registered THEN 1 ELSE 0)
        ELSE job'[j] = jobs[j]
  BY <1>3
<1>9. job' \in [Jobs -> JobState]
  <2>1. \A j \in Jobs :
          /\ jobs[j].attempts \in 0 .. MaxAttempts
          /\ j \in taken /\ j \in Registered => jobs[j].attempts < MaxAttempts
    BY <1>7 DEF JobState, AttemptsIn
  <2>2. \A j \in Jobs :
          j \in taken => jobs[j].attempts + (IF j \in Registered THEN 1 ELSE 0) \in 0 .. MaxAttempts
    BY <2>1, QueueAssumption
  <2>3. QED BY <1>3, <2>2 DEF JobState
<1>10. slots' = Cardinality(RunningIn(job'))
  <2>1. RunningIn(job') = RunningIn(jobs) \cup taken /\ RunningIn(jobs) \cap taken = {}
    BY <1>4, <1>7, <1>8 DEF RunningIn
  <2>2. Cardinality(RunningIn(jobs) \cup taken) =
          Cardinality(RunningIn(jobs)) + Cardinality(taken) - Cardinality(RunningIn(jobs) \cap taken)
    BY <1>4, RunningFinite, FS_Union
  <2>3. Cardinality(RunningIn(jobs) \cap taken) = 0
    BY <2>1, FS_EmptySet
  <2>4. Cardinality(RunningIn(job')) =
          Cardinality(RunningIn(jobs)) + Cardinality(taken) - Cardinality(RunningIn(jobs) \cap taken)
    BY <2>1, <2>2, Zenon
  <2>5. QED BY <1>1, <1>2, <1>3, <1>4, <2>3, <2>4
<1>11. slots' \in 0 .. Concurrency
  BY <1>1, <1>2, <1>3
<1>12. pending' # <<>> => slots' = Concurrency
  <2>1. rest # <<>> => Len(rest) > 0
    BY <1>5, EmptySeq
  <2>2. rest # <<>> => n = room
    BY <1>1, <1>2, <1>5, <2>1
  <2>3. QED BY <1>1, <1>3, <2>2
<1>13. ListedIn(pending', job')
  <2> HIDE DEF rest
  <2>1. ASSUME NEW k \in 1 .. Len(rest), NEW m \in 1 .. Len(rest), rest[k] = rest[m]
        PROVE  k = m
    <3>1. n + k \in 1 .. Len(queue) /\ n + m \in 1 .. Len(queue)
      <4>1. Len(rest) = Len(queue) - n /\ n \in Nat /\ Len(queue) \in Nat
        BY <1>1, <1>2, <1>5
      <4>2. k \in Nat /\ 1 <= k /\ k <= Len(queue) - n
        BY <4>1
      <4>3. m \in Nat /\ 1 <= m /\ m <= Len(queue) - n
        BY <4>1
      <4>4. QED BY <4>1, <4>2, <4>3
    <3>2. queue[n + k] = queue[n + m]
      BY <1>5, <2>1
    <3>3. n + k = n + m
      BY <3>1, <3>2 DEF ListedIn
    <3>4. QED BY <1>2, <3>3
  <2>2. ASSUME NEW j \in Jobs
        PROVE  job'[j].at = "pending" <=> \E k \in 1 .. Len(rest) : rest[k] = j
    <3>1. ASSUME job'[j].at = "pending" PROVE \E k \in 1 .. Len(rest) : rest[k] = j
      <4>1. j \notin taken /\ jobs[j].at = "pending"
        BY <1>8, <3>1
      <4>2. PICK m \in 1 .. Len(queue) : queue[m] = j
        BY <4>1 DEF ListedIn
      <4>3. ~ (m \in 1 .. n)
        BY <1>6, <4>1, <4>2
      <4>4. m - n \in 1 .. Len(rest) /\ n + (m - n) = m
        BY <1>1, <1>2, <1>5, <4>3
      <4>5. rest[m - n] = j
        BY <1>5, <4>2, <4>4
      <4>6. QED BY <4>4, <4>5
    <3>2. ASSUME NEW k \in 1 .. Len(rest), rest[k] = j PROVE job'[j].at = "pending"
      <4>1. n + k \in 1 .. Len(queue) /\ queue[n + k] = j
        <5>1. Len(rest) = Len(queue) - n /\ n \in Nat /\ Len(queue) \in Nat
          BY <1>1, <1>2, <1>5
        <5>2. k \in Nat /\ 1 <= k /\ k <= Len(queue) - n
          BY <5>1
        <5>3. queue[n + k] = j
          BY <1>5, <3>2
        <5>4. QED BY <5>1, <5>2, <5>3
      <4>2. jobs[j].at = "pending"
        BY <4>1 DEF ListedIn
      <4>3. j \notin taken
        <5> SUFFICES ASSUME j \in taken PROVE FALSE
          OBVIOUS
        <5>1. PICK i \in 1 .. n : queue[i] = j
          BY <1>6
        <5>2. i \in 1 .. Len(queue)
          BY <1>1, <1>2
        <5>3. i = n + k
          BY <4>1, <5>1, <5>2 DEF ListedIn
        <5>4. QED BY <1>2, <5>3
      <4>4. QED BY <1>8, <4>2, <4>3
    <3>3. QED BY <3>1, <3>2
  <2>3. QED BY <1>3, <2>1, <2>2 DEF ListedIn
<1>14. AttemptsIn(job')
  BY <1>8, QueueAssumption DEF AttemptsIn
<1>15. QED BY <1>3, <1>5, <1>9, <1>10, <1>11, <1>12, <1>13, <1>14

(* A push lists the job at the end. *)
LEMMA PushedListed ==
  ASSUME QueueTypeOK, ListedIn(pending, job), NEW j \in Jobs, job[j].at # "pending",
         NEW row \in JobState, row.at = "pending"
  PROVE  /\ Append(pending, j) \in Seq(Jobs)
         /\ [job EXCEPT ![j] = row] \in [Jobs -> JobState]
         /\ ListedIn(Append(pending, j), [job EXCEPT ![j] = row])
<1> DEFINE queue == Append(pending, j)
           jobs == [job EXCEPT ![j] = row]
<1>1. /\ queue \in Seq(Jobs) /\ Len(pending) \in Nat /\ Len(queue) = Len(pending) + 1
      /\ \A n \in 1 .. Len(queue) : queue[n] = IF n = Len(queue) THEN j ELSE pending[n]
  BY DEF QueueTypeOK
<1>2. jobs \in [Jobs -> JobState] /\ \A k \in Jobs : jobs[k] = IF k = j THEN row ELSE job[k]
  BY DEF QueueTypeOK
<1> HIDE DEF queue, jobs
<1>3. ~ \E n \in 1 .. Len(pending) : pending[n] = j
  BY DEF ListedIn
<1>4. \A n \in 1 .. Len(queue) : n # Len(queue) => n \in 1 .. Len(pending)
  BY <1>1
<1>5. \A m, n \in 1 .. Len(queue) : queue[m] = queue[n] => m = n
  BY <1>1, <1>3, <1>4 DEF ListedIn
<1>6. ASSUME NEW k \in Jobs
      PROVE  jobs[k].at = "pending" <=> \E n \in 1 .. Len(queue) : queue[n] = k
  <2>1. CASE k = j
    <3>1. Len(queue) \in 1 .. Len(queue) /\ queue[Len(queue)] = j
      BY <1>1
    <3>2. QED BY <1>2, <2>1, <3>1
  <2>2. CASE k # j
    <3>1. (\E n \in 1 .. Len(queue) : queue[n] = k) <=> \E n \in 1 .. Len(pending) : pending[n] = k
      BY <1>1, <1>4, <2>2
    <3>2. QED BY <1>2, <2>2, <3>1 DEF ListedIn
  <2>3. QED BY <2>1, <2>2
<1>7. QED BY <1>1, <1>2, <1>5, <1>6 DEF ListedIn, queue, jobs

(* Every step keeps the invariant. *)
LEMMA QueueNextInv ==
  ASSUME QueueInv, [QueueNext]_queueVars
  PROVE  QueueInv'
<1>0. /\ slots \in 0 .. Concurrency /\ slots = Cardinality(RunningIn(job))
      /\ drains \in Nat /\ losses \in Nat /\ Concurrency \in Nat
      /\ pending \in Seq(Jobs) /\ job \in [Jobs -> JobState]
      /\ ListedIn(pending, job) /\ AttemptsIn(job)
      /\ pending # <<>> => drains > 0 \/ slots = Concurrency
  BY QueueAssumption DEF QueueInv, QueueTypeOK, NoJobStranded, JobsAt, RunningIn
<1>1. ASSUME pending' \in Seq(Jobs), job' \in [Jobs -> JobState], drains' \in Nat,
             losses' \in Nat, slots' \in 0 .. Concurrency,
             slots' = Cardinality(RunningIn(job')),
             ListedIn(pending', job'), AttemptsIn(job'),
             pending' # <<>> => drains' > 0 \/ slots' = Concurrency
      PROVE  QueueInv'
  BY <1>1 DEF QueueInv, QueueTypeOK, NoJobStranded, JobsAt, RunningIn, ListedIn, AttemptsIn
<1>2. ASSUME NEW j \in Jobs, Enqueue(j) PROVE QueueInv'
  <2> DEFINE row == [at |-> "pending", attempts |-> 0]
  <2>1. /\ pending' = Append(pending, j) /\ job' = [job EXCEPT ![j] = row]
        /\ drains' = drains + 1 /\ UNCHANGED <<slots, losses>>
        /\ job[j].at # "pending" /\ job[j].at # "running"
    BY <1>2 DEF Enqueue, JobSettled
  <2>2. row \in JobState /\ row.at = "pending" /\ row.attempts = 0
    BY QueueAssumption DEF JobState
  <2> HIDE DEF row
  <2>3. /\ pending' \in Seq(Jobs) /\ job' \in [Jobs -> JobState]
        /\ ListedIn(pending', job')
    BY <1>0, <2>1, <2>2, PushedListed DEF QueueInv
  <2>4. RunningIn(job') = RunningIn(job)
    BY <1>0, <2>1, <2>2 DEF RunningIn
  <2>5. AttemptsIn(job')
    BY <1>0, <2>1, <2>2, QueueAssumption DEF AttemptsIn
  <2>6. drains' \in Nat /\ drains' > 0 /\ slots' = Cardinality(RunningIn(job'))
    BY <1>0, <2>1, <2>4
  <2>7. QED BY <1>0, <1>1, <2>1, <2>3, <2>5, <2>6
<1>3. ASSUME NEW j \in Jobs, NEW stage \in {"completed", "failed", "backoff"}, End(j, stage),
             stage = "backoff" /\ j \in Registered => AttemptsLeft(j)
      PROVE  QueueInv'
  <2>1. /\ job[j].at = "running" /\ job' = [job EXCEPT ![j].at = stage]
        /\ slots' = slots - 1 /\ UNCHANGED <<pending, losses>>
        /\ drains' = drains + (IF pending # <<>> THEN 1 ELSE 0)
    BY <1>3 DEF End, GiveBack
  <2>2. /\ job' \in [Jobs -> JobState]
        /\ \A k \in Jobs : job'[k].attempts = job[k].attempts
        /\ \A k \in Jobs : job'[k].at = IF k = j THEN stage ELSE job[k].at
    BY <1>0, <2>1 DEF JobState, JobSettled
  <2>3. ListedIn(pending', job')
    BY <1>0, <2>1, <2>2 DEF ListedIn
  <2>4. AttemptsIn(job')
    BY <1>0, <1>3, <2>2, QueueAssumption DEF AttemptsIn, AttemptsLeft
  <2>5. RunningIn(job') = RunningIn(job) \ {j} /\ j \in RunningIn(job)
    BY <2>1, <2>2 DEF RunningIn
  <2>6. /\ Cardinality(RunningIn(job')) = Cardinality(RunningIn(job)) - 1
        /\ Cardinality(RunningIn(job')) \in Nat
    <3>1. Cardinality(RunningIn(job) \ {j}) = Cardinality(RunningIn(job)) - 1
      BY <2>5, RunningFinite, FS_RemoveElement
    <3>2. QED BY <2>5, <3>1, RunningFinite
  <2>7. /\ slots' = Cardinality(RunningIn(job')) /\ slots' \in 0 .. Concurrency
        /\ drains' \in Nat /\ (pending' # <<>> => drains' > 0)
    BY <1>0, <2>1, <2>6
  <2>8. QED BY <1>0, <1>1, <2>1, <2>2, <2>3, <2>4, <2>7
<1>4. ASSUME NEW j \in Jobs, Ends(j) PROVE QueueInv'
  <2>1. CASE Complete(j)
    BY <1>3, <2>1 DEF Complete
  <2>2. CASE HandlerThrows(j)
    <3>1. CASE AttemptsLeft(j)
      BY <1>3, <2>2, <3>1 DEF HandlerThrows
    <3>2. CASE ~AttemptsLeft(j)
      BY <1>3, <2>2, <3>2 DEF HandlerThrows
    <3>3. QED BY <3>1, <3>2
  <2>3. CASE Refuse(j)
    BY <1>3, <2>3 DEF Refuse
  <2>4. QED BY <1>4, <2>1, <2>2, <2>3 DEF Ends
<1>5. ASSUME NEW j \in Jobs, Retry(j) PROVE QueueInv'
  <2> DEFINE row == [job[j] EXCEPT !.at = "pending"]
             queue == Append(pending, j)
             jobs == [job EXCEPT ![j] = row]
  <2>1. /\ job[j].at = "backoff" /\ UNCHANGED <<drains, losses>> /\ Drained(queue, jobs)
    BY <1>5 DEF Retry
  <2>2. row \in JobState /\ row.at = "pending" /\ row.attempts = job[j].attempts
    BY <1>0 DEF JobState
  <2>3. \A k \in Jobs : jobs[k] = IF k = j THEN row ELSE job[k]
    BY <1>0
  <2> HIDE DEF row
  <2>4. queue \in Seq(Jobs) /\ jobs \in [Jobs -> JobState] /\ ListedIn(queue, jobs)
    BY <1>0, <2>1, <2>2, PushedListed DEF QueueInv
  <2> HIDE DEF queue, jobs
  <2>5. RunningIn(jobs) = RunningIn(job)
    BY <2>1, <2>2, <2>3 DEF RunningIn
  <2>6. AttemptsIn(jobs)
    BY <1>0, <2>1, <2>2, <2>3, QueueAssumption DEF AttemptsIn
  <2>7. slots = Cardinality(RunningIn(jobs))
    BY <1>0, <2>5
  <2>8. /\ pending' \in Seq(Jobs) /\ job' \in [Jobs -> JobState]
        /\ slots' \in 0 .. Concurrency /\ slots' = Cardinality(RunningIn(job'))
        /\ pending' # <<>> => slots' = Concurrency
        /\ ListedIn(pending', job') /\ AttemptsIn(job')
    BY <1>0, <2>1, <2>4, <2>6, <2>7, DrainedKeeps
  <2>9. QED BY <1>0, <1>1, <2>1, <2>8
<1>6. CASE Drain
  <2>1. /\ pending' \in Seq(Jobs) /\ job' \in [Jobs -> JobState]
        /\ slots' \in 0 .. Concurrency /\ slots' = Cardinality(RunningIn(job'))
        /\ pending' # <<>> => slots' = Concurrency
        /\ ListedIn(pending', job') /\ AttemptsIn(job')
    BY <1>0, <1>6, DrainedKeeps DEF Drain
  <2>2. drains' \in Nat /\ losses' \in Nat
    BY <1>0, <1>6 DEF Drain
  <2>3. QED BY <1>1, <2>1, <2>2
<1>7. CASE LoseProcess
  <2>1. /\ pending' = <<>> /\ slots' = 0 /\ drains' = 0 /\ losses' = losses + 1
        /\ job' = [j \in Jobs |-> IF job[j].at \in {"pending", "running", "backoff"}
                                  THEN [job[j] EXCEPT !.at = "lost"] ELSE job[j]]
    BY <1>7 DEF LoseProcess
  <2>2. /\ job' \in [Jobs -> JobState]
        /\ \A j \in Jobs : job'[j].at \notin {"pending", "running", "backoff"}
    BY <1>0, <2>1 DEF JobState, JobSettled
  <2>3. RunningIn(job') = {} /\ ListedIn(pending', job') /\ AttemptsIn(job')
    BY <2>1, <2>2, QueueAssumption DEF RunningIn, ListedIn, AttemptsIn
  <2>4. slots' = Cardinality(RunningIn(job'))
    BY <2>1, <2>3, FS_EmptySet
  <2>5. /\ pending' \in Seq(Jobs) /\ slots' \in 0 .. Concurrency
        /\ drains' \in Nat /\ losses' \in Nat /\ pending' = <<>>
    BY <1>0, <2>1
  <2>6. QED BY <1>1, <2>2, <2>3, <2>4, <2>5
<1>8. CASE UNCHANGED queueVars
  BY <1>8 DEF queueVars, QueueInv, QueueTypeOK, NoJobStranded, JobsAt, ListedIn, AttemptsIn
<1>9. QED BY <1>2, <1>4, <1>5, <1>6, <1>7, <1>8 DEF QueueNext

(* An empty queue. *)
LEMMA QueueInitInv ==
  ASSUME QueueInit
  PROVE  QueueInv
<1>1. /\ pending = <<>> /\ slots = 0 /\ drains = 0 /\ losses = 0
      /\ job = [j \in Jobs |-> [at |-> "new", attempts |-> 0]]
  BY DEF QueueInit
<1>2. QueueTypeOK
  BY <1>1, QueueAssumption DEF QueueTypeOK, JobState
<1>3. JobsAt("running") = {}
  BY <1>1 DEF JobsAt
<1>4. NoJobStranded
  BY <1>1, <1>3, FS_EmptySet DEF NoJobStranded
<1>5. ListedIn(pending, job) /\ AttemptsIn(job)
  BY <1>1, QueueAssumption DEF ListedIn, AttemptsIn
<1>6. QED BY <1>2, <1>4, <1>5 DEF QueueInv

(* Slots are never more than the concurrency, nor a job's attempts more    *)
(* than it may have.                                                       *)
THEOREM QueueTyped == QueueSpec => []QueueTypeOK
<1>1. QueueInv => QueueTypeOK
  BY DEF QueueInv
<1>2. QED BY <1>1, QueueInitInv, QueueNextInv, PTL DEF QueueSpec

(* With any number of jobs, slots and attempts no wake-up is lost, through *)
(* retries, jobs without a handler and deaths of the process.              *)
THEOREM NoWakeUpLost == QueueSpec => []NoJobStranded
<1>1. QueueInv => NoJobStranded
  BY DEF QueueInv
<1>2. QED BY <1>1, QueueInitInv, QueueNextInv, PTL DEF QueueSpec

-----------------------------------------------------------------------------
(* A behaviour of the host is one of each of its parts.                    *)
LEMMA RuntimeIsItsParts ==
  RuntimeSpec => Spec /\ CacheSpec /\ CronSpec /\ QueueSpec /\ SweepSpec
<1>1. RuntimeInit => Init /\ CacheInit /\ CronInit /\ QueueInit /\ SweepInit
  BY DEF RuntimeInit
<1>2. ASSUME [RuntimeNext]_runtimeVars
      PROVE  /\ [Next]_vars /\ [CacheNext]_cacheVars /\ [CronNext]_cronVars
             /\ [QueueNext]_queueVars /\ [SweepNext]_sweepVars
  BY <1>2, Zenon DEF RuntimeNext, SubscriptionPart, CachePart, CronPart, QueuePart,
     NotificationsPart, runtimeVars, engineVars
<1>3. QED
  BY <1>1, <1>2, PTL DEF RuntimeSpec, Spec, CacheSpec, CronSpec, QueueSpec, SweepSpec

(* So what the parts guarantee holds in their host: types, a set of names  *)
(* that says what is waited for, and no wake-up lost.                      *)
THEOREM RuntimeHolds ==
  RuntimeSpec => [](RuntimeTypes /\ RunningIsWaitedFor /\ NoJobStranded)
<1>1. CacheTypeOK /\ CronTypeOK /\ QueueTypeOK /\ SweepTypeOK => RuntimeTypes
  BY DEF RuntimeTypes
<1>2. QED
  BY <1>1, RuntimeIsItsParts, CachesTyped, CronTyped, QueueTyped, NotificationsTyped,
     SetSaysWhatIsWaitedFor, NoWakeUpLost, PTL
=============================================================================

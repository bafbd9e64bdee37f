------------------------------ MODULE JobQueue ------------------------------
(***************************************************************************)
(* config/queue.js: the in-process queue.  A push schedules a drain; a     *)
(* drain starts jobs while there is room; a job that ends schedules        *)
(* another drain if anything is pending; one that throws comes back after  *)
(* its backoff.  None of it survives the process.                          *)
(***************************************************************************)
EXTENDS Integers, Sequences, FiniteSets

CONSTANTS
  Jobs,
  Registered,        \* jobs whose name has a handler
  Concurrency,
  MaxAttempts,
  MaxDrains, MaxLosses     \* bounds: drains scheduled at once, deaths of the process

ASSUME QueueAssumption ==
  /\ Registered \subseteq Jobs /\ IsFiniteSet(Jobs)
  /\ Concurrency \in Nat \ {0} /\ MaxAttempts \in Nat \ {0}
  /\ MaxDrains \in Nat /\ MaxLosses \in Nat

VARIABLES
  pending,     \* the FIFO
  slots,       \* this.running
  drains,      \* drains scheduled with setImmediate
  job,         \* [Jobs -> JobState]: where each of them is
  losses

queueVars == <<pending, slots, drains, job, losses>>

JobSettled == {"completed", "failed", "lost"}
JobState ==
  [at: {"new", "pending", "running", "backoff"} \cup JobSettled, attempts: 0 .. MaxAttempts]

QueueTypeOK ==
  /\ pending \in Seq(Jobs)
  /\ slots \in 0 .. Concurrency
  /\ drains \in Nat
  /\ job \in [Jobs -> JobState]
  /\ losses \in Nat

QueueInit ==
  /\ pending = <<>> /\ slots = 0 /\ drains = 0
  /\ job = [j \in Jobs |-> [at |-> "new", attempts |-> 0]]
  /\ losses = 0

JobsAt(stage) == {j \in Jobs : job[j].at = stage}

-----------------------------------------------------------------------------
(* A job is pushed, or one like it that has come to its end. *)
Enqueue(j) ==
  /\ job[j].at \in {"new"} \cup JobSettled
  /\ drains < MaxDrains
  /\ pending' = Append(pending, j)
  /\ job' = [job EXCEPT ![j] = [at |-> "pending", attempts |-> 0]]
  /\ drains' = drains + 1
  /\ UNCHANGED <<slots, losses>>

(* drain(): queue jobs are started, in order, while a slot is free; a job  *)
(* without a handler takes a slot but makes no attempt.                    *)
Drained(queue, jobs) ==
  LET room == Concurrency - slots
      n == IF room < Len(queue) THEN room ELSE Len(queue)
      taken == {queue[i] : i \in 1 .. n}
  IN  /\ pending' = SubSeq(queue, n + 1, Len(queue))
      /\ slots' = slots + n
      /\ job' = [j \in Jobs |->
                  IF j \notin taken THEN jobs[j]
                  ELSE [at |-> "running",
                        attempts |-> jobs[j].attempts + (IF j \in Registered THEN 1 ELSE 0)]]

Drain ==
  /\ drains > 0
  /\ drains' = drains - 1
  /\ Drained(pending, job)
  /\ UNCHANGED losses

(* Mutant: a slot is given back and nobody is called to fill it. *)
GiveBackQuietly == slots' = slots - 1 /\ UNCHANGED drains

(* The finally of a job. *)
GiveBack ==
  /\ slots' = slots - 1
  /\ drains' = drains + (IF pending # <<>> THEN 1 ELSE 0)

End(j, stage) ==
  /\ job[j].at = "running"
  /\ job' = [job EXCEPT ![j].at = stage]
  /\ GiveBack
  /\ UNCHANGED <<pending, losses>>

Complete(j) == j \in Registered /\ End(j, "completed")

(* Mutant: the attempt under way is not counted. *)
AttemptsLeftAfterNext(j) == job[j].attempts <= MaxAttempts

AttemptsLeft(j) == job[j].attempts < MaxAttempts

HandlerThrows(j) ==
  j \in Registered /\ End(j, IF AttemptsLeft(j) THEN "backoff" ELSE "failed")

Refuse(j) == j \notin Registered /\ End(j, "failed")

(* Mutant: the job is pushed again and the drain is left to others. *)
RetryUndrained(j) ==
  /\ job[j].at = "backoff"
  /\ pending' = Append(pending, j)
  /\ job' = [job EXCEPT ![j].at = "pending"]
  /\ UNCHANGED <<slots, drains, losses>>

(* The backoff is over: pushed to the back, and drained at once. *)
Retry(j) ==
  /\ job[j].at = "backoff"
  /\ Drained(Append(pending, j), [job EXCEPT ![j].at = "pending"])
  /\ UNCHANGED <<drains, losses>>

(* The process dies. *)
LoseProcess ==
  /\ losses < MaxLosses
  /\ losses' = losses + 1
  /\ pending' = <<>> /\ slots' = 0 /\ drains' = 0
  /\ job' = [j \in Jobs |-> IF job[j].at \in {"pending", "running", "backoff"}
                            THEN [job[j] EXCEPT !.at = "lost"] ELSE job[j]]

Ends(j) == Complete(j) \/ HandlerThrows(j) \/ Refuse(j)

QueueNext ==
  \/ \E j \in Jobs : Enqueue(j) \/ Ends(j) \/ Retry(j)
  \/ Drain
  \/ LoseProcess

QueueSpec == QueueInit /\ [][QueueNext]_queueVars

(* The event loop runs what is due, and a handler comes back. *)
QueueFairness ==
  /\ WF_queueVars(Drain)
  /\ \A j \in Jobs : WF_queueVars(Ends(j)) /\ WF_queueVars(Retry(j))

-----------------------------------------------------------------------------
(* Properties. *)

(* No wake-up is lost: while a job is pending, a drain is scheduled or     *)
(* every slot is held by a job whose end will schedule one.                *)
NoJobStranded ==
  /\ slots = Cardinality(JobsAt("running"))
  /\ pending # <<>> => drains > 0 \/ slots = Concurrency

(* Every job that was pushed completes, fails for good or is lost with its *)
(* process.                                                                *)
Underway == {"pending", "running", "backoff"}
EveryJobSettles == \A j \in Jobs : []<>(job[j].at \notin Underway)
=============================================================================

----------------------------- MODULE CronRunner -----------------------------
(***************************************************************************)
(* jobs/cron.js: runs of runOrdered() in the processes that may call it.   *)
(* The resident process starts one run per tick and task; `--once` is a    *)
(* process of its own that runs every task in order and exits.             *)
(*                                                                         *)
(* A process knows only its own set `running`.  A task that outlives its   *)
(* timeout is no longer waited for, and goes on.                           *)
(***************************************************************************)
EXTENDS Integers, Sequences, FiniteSets

CONSTANTS
  Tasks, Orders,       \* the tasks; ORDER, or the part of it that --only names
  Resident, Once,      \* processes
  Runs,                \* calls of runOrdered() that may be under way at once
  NoTask, NoHost,
  Timeout,             \* TASK_TIMEOUT_MS
  MaxKills             \* bound

ASSUME CronAssumption ==
  /\ Orders \subseteq Seq(Tasks) /\ NoTask \notin Tasks
  /\ Resident \cap Once = {} /\ NoHost \notin Resident \cup Once
  /\ IsFiniteSet(Runs)
  /\ Timeout \in Nat \ {0} /\ MaxKills \in Nat

Hosts == Resident \cup Once

VARIABLES
  running,     \* [Hosts -> SUBSET Tasks]: the module's Set, one per process
  run,         \* what every run is doing
  adrift,      \* [Hosts -> SUBSET Tasks]: tasks with copies nobody waits for
  kills

cronVars == <<running, run, adrift, kills>>

(* task is the one waited for, for age so far; todo is what comes after.   *)
Run == [host: Hosts \cup {NoHost}, todo: Seq(Tasks), task: Tasks \cup {NoTask},
        age: 0 .. Timeout]
NoRun == [host |-> NoHost, todo |-> <<>>, task |-> NoTask, age |-> 0]

CronTypeOK ==
  /\ running \in [Hosts -> SUBSET Tasks]
  /\ run \in [Runs -> Run]
  /\ adrift \in [Hosts -> SUBSET Tasks]
  /\ kills \in Nat

CronInit ==
  /\ running = [h \in Hosts |-> {}]
  /\ run = [r \in Runs |-> NoRun]
  /\ adrift = [h \in Hosts |-> {}]
  /\ kills = 0

Waiting(r) == run[r].task # NoTask
WaitedFor(h, t) == {r \in Runs : run[r].host = h /\ run[r].task = t}
In(h) == {r \in Runs : run[r].host = h}

-----------------------------------------------------------------------------
(* A schedule fires: runOrdered({only: [t]}). *)
ScheduleFires(r, h, t) ==
  /\ run[r] = NoRun /\ h \in Resident
  /\ run' = [run EXCEPT ![r] = [NoRun EXCEPT !.host = h, !.todo = <<t>>]]
  /\ UNCHANGED <<running, adrift, kills>>

RunOnce(r, h, order) ==
  /\ run[r] = NoRun /\ h \in Once /\ In(h) = {}
  /\ run' = [run EXCEPT ![r] = [NoRun EXCEPT !.host = h, !.todo = order]]
  /\ UNCHANGED <<running, adrift, kills>>

(* Mutant: the skip leaves through the finally as well. *)
SkipDeletes(r) ==
  LET h == run[r].host
      t == Head(run[r].todo)
  IN  /\ ~Waiting(r) /\ run[r].todo # <<>> /\ t \in running[h]
      /\ run' = [run EXCEPT ![r].todo = Tail(@)]
      /\ running' = [running EXCEPT ![h] = @ \ {t}]
      /\ UNCHANGED <<adrift, kills>>

(* Still going from an earlier tick: skipped. *)
Skip(r) ==
  LET h == run[r].host
      t == Head(run[r].todo)
  IN  /\ ~Waiting(r) /\ run[r].todo # <<>> /\ t \in running[h]
      /\ run' = [run EXCEPT ![r].todo = Tail(@)]
      /\ UNCHANGED <<running, adrift, kills>>

Start(r) ==
  LET h == run[r].host
      t == Head(run[r].todo)
  IN  /\ ~Waiting(r) /\ run[r].todo # <<>> /\ t \notin running[h]
      /\ running' = [running EXCEPT ![h] = @ \cup {t}]
      /\ run' = [run EXCEPT ![r] = [run[r] EXCEPT !.task = t, !.todo = Tail(@), !.age = 0]]
      /\ UNCHANGED <<adrift, kills>>

(* The task returned or threw: either way the run goes on. *)
Settle(r) ==
  /\ Waiting(r)
  /\ running' = [running EXCEPT ![run[r].host] = @ \ {run[r].task}]
  /\ run' = [run EXCEPT ![r] = [@ EXCEPT !.task = NoTask, !.age = 0]]
  /\ UNCHANGED <<adrift, kills>>

(* Mutant: the promise is awaited without withTimeout(). *)
NeverTimesOut(r) == FALSE

TimeIsUp(r) == Waiting(r) /\ run[r].age = Timeout

(* withTimeout() rejects; nothing cancels the work. *)
Abandon(r) ==
  LET h == run[r].host
      t == run[r].task
  IN  /\ TimeIsUp(r)
      /\ adrift' = [adrift EXCEPT ![h] = @ \cup {t}]
      /\ running' = [running EXCEPT ![h] = @ \ {t}]
      /\ run' = [run EXCEPT ![r] = [@ EXCEPT !.task = NoTask, !.age = 0]]
      /\ UNCHANGED kills

(* The last of them ends. *)
EndsUnnoticed(h, t) ==
  /\ t \in adrift[h]
  /\ adrift' = [adrift EXCEPT ![h] = @ \ {t}]
  /\ UNCHANGED <<running, run, kills>>

(* The run is over.  A --once process exits, and what it abandoned with it. *)
Return(r) ==
  LET h == run[r].host
  IN  /\ run[r] # NoRun /\ ~Waiting(r) /\ run[r].todo = <<>>
      /\ run' = [run EXCEPT ![r] = NoRun]
      /\ adrift' = IF h \in Once THEN [adrift EXCEPT ![h] = {}] ELSE adrift
      /\ UNCHANGED <<running, kills>>

(* A process is killed; the resident one is started again. *)
Kill(h) ==
  /\ kills < MaxKills
  /\ kills' = kills + 1
  /\ running' = [running EXCEPT ![h] = {}]
  /\ run' = [r \in Runs |-> IF run[r].host = h THEN NoRun ELSE run[r]]
  /\ adrift' = [adrift EXCEPT ![h] = {}]

(* Timers fire when they are due. *)
PassTime ==
  /\ \E r \in Runs : Waiting(r)
  /\ \A r \in Runs : run[r].age < Timeout
  /\ run' = [r \in Runs |-> IF Waiting(r) THEN [run[r] EXCEPT !.age = @ + 1] ELSE run[r]]
  /\ UNCHANGED <<running, adrift, kills>>

RunStep(r) ==
  \/ \E h \in Hosts, t \in Tasks : ScheduleFires(r, h, t)
  \/ \E h \in Hosts, order \in Orders : RunOnce(r, h, order)
  \/ Skip(r) \/ Start(r) \/ Settle(r) \/ Abandon(r) \/ Return(r)

CronNext ==
  \/ \E r \in Runs : RunStep(r)
  \/ \E h \in Hosts, t \in Tasks : EndsUnnoticed(h, t)
  \/ \E h \in Hosts : Kill(h)
  \/ PassTime

CronSpec == CronInit /\ [][CronNext]_cronVars

(* A run goes on and time passes; no task is assumed to settle. *)
CronFairness ==
  /\ WF_cronVars(PassTime)
  /\ \A r \in Runs : WF_cronVars(Abandon(r))

-----------------------------------------------------------------------------
(* Properties. *)

(* A name is in a process's set exactly while one run of that process      *)
(* waits for the task, so no tick runs beside a copy that is waited for,   *)
(* and none is skipped for a copy that is not.                             *)
RunningIsWaitedFor ==
  \A h \in Hosts, t \in Tasks :
    Cardinality(WaitedFor(h, t)) = IF t \in running[h] THEN 1 ELSE 0

(* A task that hangs does not keep its name for the life of the process:   *)
(* over and over a tick may start it afresh.                               *)
TaskComesAround == \A h \in Resident, t \in Tasks : []<>(t \notin running[h])
=============================================================================

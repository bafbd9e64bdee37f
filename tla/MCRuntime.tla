----------------------------- MODULE MCRuntime -----------------------------
(***************************************************************************)
(* The parts that promise that something happens in the end, on instances  *)
(* small enough for TLC: the subscriptions of MCSubscription, the caches,  *)
(* the cron runner, the queue and the notification sweep.  They share no   *)
(* state in these models: a behaviour is one of one part, the others rest. *)
(***************************************************************************)
EXTENDS MCSubscription, EntitlementCache, CronRunner, JobQueue, NotificationSweep

CONSTANTS lifecycle, dispatch      \* tasks

MCOrders == {<<lifecycle, dispatch>>, <<dispatch>>}

VARIABLE part

engineVars == <<cacheVars, cronVars, queueVars>>
runtimeVars == <<part, vars, engineVars, sweepVars>>

RuntimeInit ==
  /\ part \in {"subscription", "cache", "cron", "queue", "notifications"}
  /\ Init /\ CacheInit /\ CronInit /\ QueueInit /\ SweepInit
  /\ part # "cache" => driver = "memory"
  /\ part # "notifications" => audience = [r \in Rows |-> {}]

SubscriptionPart == part = "subscription" /\ Next /\ UNCHANGED <<part, engineVars, sweepVars>>
CachePart ==
  part = "cache" /\ CacheNext /\ UNCHANGED <<part, vars, cronVars, queueVars, sweepVars>>
CronPart ==
  part = "cron" /\ CronNext /\ UNCHANGED <<part, vars, cacheVars, queueVars, sweepVars>>
QueuePart ==
  part = "queue" /\ QueueNext /\ UNCHANGED <<part, vars, cacheVars, cronVars, sweepVars>>
NotificationsPart ==
  part = "notifications" /\ SweepNext /\ UNCHANGED <<part, vars, engineVars>>

RuntimeNext ==
  SubscriptionPart \/ CachePart \/ CronPart \/ QueuePart \/ NotificationsPart

(* Fairness, CacheFairness, ... of the part that is awake. *)
RuntimeFairness ==
  /\ SF_vars(part = "subscription" /\ LifecycleJob)
  /\ SF_vars(part = "subscription" /\ OverdueJob)
  /\ \A q \in Requests : WF_vars(part = "subscription" /\ Proceeds(q))
  /\ WF_cacheVars(part = "cache" /\ Elapse)
  /\ \A r \in Readers :
       WF_cacheVars(part = "cache" /\ \E stored \in BOOLEAN : StoreProduced(r, stored))
  /\ WF_cronVars(part = "cron" /\ PassTime)
  /\ \A r \in Runs : WF_cronVars(part = "cron" /\ Abandon(r))
  /\ WF_queueVars(part = "queue" /\ Drain)
  /\ \A j \in Jobs :
       /\ WF_queueVars(part = "queue" /\ Ends(j))
       /\ WF_queueVars(part = "queue" /\ Retry(j))
  /\ \A d \in Sweeps : WF_sweepVars(part = "notifications" /\ SweepWork(d))

RuntimeSpec == RuntimeInit /\ [][RuntimeNext]_runtimeVars /\ RuntimeFairness

(* Entries, runs, jobs and sweeps keep their types. *)
RuntimeTypes == CacheTypeOK /\ CronTypeOK /\ QueueTypeOK /\ SweepTypeOK
=============================================================================

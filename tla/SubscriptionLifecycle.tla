----------------------- MODULE SubscriptionLifecycle -----------------------
(***************************************************************************)
(* The subscriptions of one school under everything that moves them: the   *)
(* operator's requests, the settlement that follows a payment, the hourly  *)
(* subscription-lifecycle job and the daily invoice-overdue job.           *)
(*                                                                         *)
(* No handler locks the row it is about to change.  A request reads the    *)
(* row, checks its guard and computes the new columns, and only then opens *)
(* the transaction that writes them; a job reads a whole pass of rows and  *)
(* handles them one after another.  So every operation is a read step and  *)
(* a write step, and the write is Sequelize's instance.update(): it saves  *)
(* the columns whose new value differs from the copy that was read, and    *)
(* leaves the others as the database has them.  Overlap says whether a     *)
(* step of another actor may fall between the two.                         *)
(*                                                                         *)
(* The transaction itself is not one step either.  It updates the row,     *)
(* reads the school's subscriptions to see which of them governs, writes   *)
(* the answer to the school and commits.  Under InnoDB's default isolation *)
(* the reading is of a snapshot: what another transaction has not yet      *)
(* committed is not in it, and is not waited for.  What is waited for are  *)
(* locks: on the row, and on the school, which every such transaction      *)
(* shares through the foreign key of the history line it has inserted and  *)
(* must have alone to write to it.                                         *)
(*                                                                         *)
(* Invoices appear only as what the lifecycle asks of them: how many of a  *)
(* subscription's invoices are overdue, and which of those the daily job   *)
(* has already flagged.                                                    *)
(***************************************************************************)
EXTENDS SubscriptionRules, FiniteSets

CONSTANTS
  Requests,        \* concurrent request handlers
  MaxSubs,         \* rows the school's subscriptions may take
  Operations,      \* the requests this instance receives, and the jobs it runs
  StartOffsets,    \* starts_at, relative to the moment of creation
  TrialDays, GraceDays, RenewalModes,    \* values a request may carry
  Overlap,         \* may actors interleave inside one another's operations
  MaxNow, MaxOverdue, MaxCrashes         \* bounds

AllOperations ==
  Actions \cup {"create", "update", "change", "renew", "pay", "sweep", "dunning"}

ASSUME LifecycleAssumption ==
  /\ MaxSubs \in Nat \ {0}
  /\ Operations \subseteq AllOperations
  /\ StartOffsets \subseteq Nat
  /\ TrialDays \subseteq Nat /\ GraceDays \subseteq Nat
  /\ RenewalModes \subseteq BOOLEAN
  /\ Overlap \in BOOLEAN
  /\ MaxNow \in Nat /\ MaxOverdue \in Nat /\ MaxCrashes \in Nat

(* Whoever writes: the request handlers and the two jobs. *)
Actors == Requests \cup {"sweep", "dunning"}

ASSUME ActorsAssumption == "sweep" \notin Requests /\ "dunning" \notin Requests

Subs == 1 .. MaxSubs

VARIABLES
  now,            \* the clock
  sub,            \* [Subs -> Row]: the subscriptions table, in id order
  schoolState,    \* schools.subscription_state
  open,           \* [Actors -> Transaction]: the transactions under way
  skewed,         \* history: the last to refresh schoolState missed a commit
  unflagged,      \* [Subs -> Nat]: invoices past their due date, still unpaid
  flagged,        \* [Subs -> Nat]: invoices the daily job has made overdue
  request,        \* [Requests -> Request]: what each handler holds
  sweep,          \* the subscription-lifecycle job
  dunning,        \* the invoice-overdue job
  crashes

vars == <<now, sub, schoolState, open, skewed, unflagged, flagged, request, sweep, dunning,
          crashes>>

tables == <<sub, schoolState, open, skewed>>
invoices == <<unflagged, flagged>>

(* stage: idle, write (row read, columns computed), settle (payment        *)
(* committed, the subscription still to follow).  id 0 is a row create()   *)
(* has still to insert.  sync: whether the transaction ends with           *)
(* syncSchoolState(); an edit and a scheduled downgrade do not call it.    *)
Request ==
  [stage: {"idle", "write", "settle"}, id: 0 .. MaxSubs, read: Row, new: Row,
   sync: BOOLEAN]

IdleRequest ==
  [stage |-> "idle", id |-> 0, read |-> AbsentRow, new |-> AbsentRow, sync |-> FALSE]

(* A job: the pass it is in (0 when idle), the moment it evaluates, the    *)
(* rows of the pass still to handle as they were read, the row whose       *)
(* second write (the grace period) is still to come, 0 when none, and the  *)
(* row renew() has computed and not yet written.                           *)
Job ==
  [pass: 0 .. 5, at: Nat, todo: SUBSET Subs, rows: [Subs -> Row], grace: 0 .. MaxSubs,
   renewal: Row]

IdleJob ==
  [pass |-> 0, at |-> 0, todo |-> {}, rows |-> [s \in Subs |-> AbsentRow], grace |-> 0,
   renewal |-> AbsentRow]

(* A transaction that has updated a row and read which row governs: the    *)
(* row it has locked (0 when none is under way), the columns it will leave *)
(* there, the state it will give the school, and whether another has       *)
(* committed a state since it looked.                                      *)
Transaction ==
  [row: 0 .. MaxSubs, write: Row, to: SubscriptionStates \cup {"absent"}, missed: BOOLEAN]

NoTransaction == [row |-> 0, write |-> AbsentRow, to |-> "absent", missed |-> FALSE]

TypeOK ==
  /\ now \in Nat
  /\ sub \in [Subs -> Row]
  /\ schoolState \in SubscriptionStates \cup {"absent"}
  /\ open \in [Actors -> Transaction]
  /\ skewed \in BOOLEAN
  /\ unflagged \in [Subs -> Nat]
  /\ flagged \in [Subs -> Nat]
  /\ request \in [Requests -> Request]
  /\ sweep \in Job
  /\ dunning \in Job
  /\ crashes \in 0 .. MaxCrashes

Init ==
  /\ now = 0
  /\ sub = [s \in Subs |-> AbsentRow]
  /\ schoolState = "absent"
  /\ open = [a \in Actors |-> NoTransaction]
  /\ skewed = FALSE
  /\ unflagged = [s \in Subs |-> 0]
  /\ flagged = [s \in Subs |-> 0]
  /\ request = [q \in Requests |-> IdleRequest]
  /\ sweep = IdleJob
  /\ dunning = IdleJob
  /\ crashes = 0

-----------------------------------------------------------------------------
Exists(s) == sub[s].state # "absent"
Overdue(s) == unflagged[s] + flagged[s]

NewestOf(S) == CHOOSE s \in S : \A t \in S : t <= s

(* governingStateFor(): the newest usable row, else the newest row. *)
Governing(table) ==
  LET usable == {s \in Subs : table[s].state \in UsableStates}
      held == {s \in Subs : table[s].state # "absent"}
  IN  IF usable # {} THEN table[NewestOf(usable)].state
      ELSE IF held # {} THEN table[NewestOf(held)].state
      ELSE "absent"

(* instance.update(): a column is saved when it differs from the copy read. *)
Saved(row, read, new) ==
  LET Col(c) == IF new[c] # read[c] THEN new[c] ELSE row[c]
  IN  [state |-> Col("state"), plan_id |-> Col("plan_id"),
       billing_cycle |-> Col("billing_cycle"),
       current_period_start |-> Col("current_period_start"),
       current_period_end |-> Col("current_period_end"),
       trial_starts_at |-> Col("trial_starts_at"),
       trial_ends_at |-> Col("trial_ends_at"),
       grace_period_days |-> Col("grace_period_days"),
       grace_period_ends_at |-> Col("grace_period_ends_at"),
       automatic |-> Col("automatic"), paused_at |-> Col("paused_at"),
       scheduled_plan_id |-> Col("scheduled_plan_id"),
       scheduled_cycle |-> Col("scheduled_cycle"),
       scheduled_change_at |-> Col("scheduled_change_at")]

(* Nobody else has updated the row and not yet committed. *)
RowFree(a, s) == \A b \in Actors \ {a} : open[b].row # s

(* The first half of a transaction: the row is updated, and the rows of    *)
(* the school are read as they are committed, this one as it was updated.  *)
Begun(s, row) ==
  [row |-> s, write |-> row, to |-> Governing([sub EXCEPT ![s] = row]), missed |-> FALSE]

Begin(a, s, row) ==
  /\ Overlap /\ open[a].row = 0 /\ RowFree(a, s)
  /\ open' = [open EXCEPT ![a] = Begun(s, row)]
  /\ UNCHANGED <<sub, schoolState, skewed>>

(* The second half: schools.subscription_state is written when it changes, *)
(* which takes the school from every other transaction under way, and the  *)
(* whole commits.                                                          *)
FinishTransaction(a, txn) ==
  /\ RowFree(a, txn.row)
  /\ txn.to # schoolState => \A b \in Actors \ {a} : open[b].row = 0
  /\ sub' = [sub EXCEPT ![txn.row] = txn.write]
  /\ schoolState' = txn.to
  /\ skewed' = txn.missed
  /\ open' = [b \in Actors |->
                IF b = a \/ open[b].row = 0 THEN NoTransaction
                ELSE [open[b] EXCEPT
                        !.missed = @ \/ txn.write.state # sub[txn.row].state]]

(* Mutant: the school's state is read before the row is saved. *)
StoreSyncedFirst(a, s, row) ==
  FinishTransaction(a, [Begun(s, row) EXCEPT !.to = Governing(sub)])

(* Save, then syncSchoolState() inside the same transaction: the rest of   *)
(* one that has begun, or the whole of it.                                 *)
Store(a, s, row) == FinishTransaction(a, IF open[a].row = 0 THEN Begun(s, row) ELSE open[a])

(* Two that both hold the school shared and both want it alone: InnoDB     *)
(* rolls one of them back, and its statement fails.                        *)
RolledBack(a) ==
  /\ open[a].row # 0 /\ open[a].to # schoolState
  /\ \E b \in Actors \ {a} : open[b].row # 0 /\ open[b].to # schoolState
  /\ open' = [open EXCEPT ![a] = NoTransaction]
  /\ UNCHANGED <<sub, schoolState, skewed>>

Quiet ==
  /\ \A q \in Requests : request[q].stage = "idle"
  /\ sweep.pass = 0 /\ dunning.pass = 0

MayStart == Overlap \/ Quiet

Accepts(q, operation) ==
  /\ operation \in Operations
  /\ request[q].stage = "idle"
  /\ MayStart

Hold(q, s, new, sync) ==
  request' = [request EXCEPT ![q] =
                [stage |-> "write", id |-> s, read |-> sub[s], new |-> new, sync |-> sync]]

ReadOnly == UNCHANGED <<now, tables, invoices, sweep, dunning, crashes>>

-----------------------------------------------------------------------------
(* Requests. *)

(* create() reads whether the school holds an open subscription, and the   *)
(* insert is a later transaction.                                          *)
ReadCreate(q) ==
  /\ Accepts(q, "create")
  /\ \A s \in Subs : sub[s].state \notin OpenStates
  /\ \E s \in Subs : ~Exists(s)              \* bound: MaxSubs
  /\ \E plan \in Plans, cycle \in Cycles, start \in StartOffsets,
        trial \in TrialDays, grace \in GraceDays, auto \in RenewalModes :
       request' = [request EXCEPT ![q] =
         [stage |-> "write", id |-> 0, read |-> AbsentRow, sync |-> TRUE,
          new |-> NewRow(plan, cycle, now + start, trial, grace, auto)]]
  /\ ReadOnly

(* The id an insert draws: after every row there is or is about to be.     *)
NextId(s) ==
  LET Taken(t) == Exists(t) \/ \E a \in Actors : open[a].row = t
  IN  /\ \A t \in Subs : t >= s => ~Taken(t)
      /\ s # 1 => Taken(s - 1)

WriteBegins(q) ==
  /\ request[q].stage = "write" /\ request[q].sync
  /\ \E s \in Subs :
       \/ request[q].id = 0 /\ NextId(s) /\ Begin(q, s, request[q].new)
       \/ request[q].id = s /\ Begin(q, s, Saved(sub[s], request[q].read, request[q].new))
  /\ UNCHANGED <<now, invoices, request, sweep, dunning, crashes>>

Insert(q) ==
  /\ request[q].stage = "write" /\ request[q].id = 0
  /\ \E s \in Subs :
       /\ open[q].row = 0 => NextId(s)
       /\ Store(q, s, request[q].new)
  /\ request' = [request EXCEPT ![q] = IdleRequest]
  /\ UNCHANGED <<now, invoices, sweep, dunning, crashes>>

ReadUpdate(q, s) ==
  /\ Accepts(q, "update") /\ Exists(s)
  /\ \/ \E days \in TrialDays : Hold(q, s, WithTrialDays(sub[s], days), FALSE)
     \/ \E days \in GraceDays : Hold(q, s, [sub[s] EXCEPT !.grace_period_days = days], FALSE)
     \/ \E auto \in RenewalModes : Hold(q, s, [sub[s] EXCEPT !.automatic = auto], FALSE)
  /\ ReadOnly

ReadTransition(q, s, action) ==
  /\ Accepts(q, action)
  /\ CanTransition(sub[s], action)
  /\ Hold(q, s, Transitioned(sub[s], action, now), TRUE)
  /\ ReadOnly

ReadChangePlan(q, s, plan, cycle) ==
  /\ Accepts(q, "change")
  /\ \/ /\ CanChangePlan(sub[s], plan, cycle)
        /\ Hold(q, s, PlanChanged(sub[s], plan, cycle), TRUE)
     \/ /\ CanDefer(sub[s], plan, cycle)
        /\ Hold(q, s, DowngradeScheduled(sub[s], plan, cycle), FALSE)
  /\ ReadOnly

ReadRenew(q, s) ==
  /\ Accepts(q, "renew")
  /\ CanRenew(sub[s], now, Overdue(s))
  /\ Hold(q, s, Renewed(sub[s], now, Overdue(s)), TRUE)
  /\ ReadOnly

(* The transaction of every request but create(); an edit's, and that of a *)
(* scheduled downgrade, has no more than the row to write.                 *)
Write(q) ==
  LET s == request[q].id
  IN  /\ request[q].stage = "write" /\ s # 0
      /\ \/ /\ request[q].sync
            /\ Store(q, s, Saved(sub[s], request[q].read, request[q].new))
         \/ /\ ~request[q].sync /\ RowFree(q, s)
            /\ sub' = [sub EXCEPT ![s] = Saved(@, request[q].read, request[q].new)]
            /\ UNCHANGED <<schoolState, open, skewed>>
      /\ request' = [request EXCEPT ![q] = IdleRequest]
      /\ UNCHANGED <<now, invoices, sweep, dunning, crashes>>

RequestRolledBack(q) ==
  /\ RolledBack(q)
  /\ request' = [request EXCEPT ![q] = IdleRequest]
  /\ UNCHANGED <<now, invoices, sweep, dunning, crashes>>

(* Mutant: a payment that does not ask whether its invoice is still owed. *)
PayAnyInvoice(q, s) ==
  /\ Accepts(q, "pay") /\ Exists(s)
  /\ flagged' = [flagged EXCEPT ![s] = @ - 1]
  /\ request' = [request EXCEPT ![q] = [IdleRequest EXCEPT !.stage = "settle", !.id = s]]
  /\ UNCHANGED <<now, tables, unflagged, sweep, dunning, crashes>>

(* An approved payment settles one invoice: an overdue one, or one that is *)
(* not due yet.  The transaction commits before the subscription follows.  *)
Pay(q, s) ==
  /\ Accepts(q, "pay") /\ Exists(s)
  /\ \/ unflagged[s] > 0 /\ unflagged' = [unflagged EXCEPT ![s] = @ - 1]
                         /\ UNCHANGED flagged
     \/ flagged[s] > 0 /\ flagged' = [flagged EXCEPT ![s] = @ - 1]
                       /\ UNCHANGED unflagged
     \/ UNCHANGED invoices
  /\ request' = [request EXCEPT ![q] = [IdleRequest EXCEPT !.stage = "settle", !.id = s]]
  /\ UNCHANGED <<now, tables, sweep, dunning, crashes>>

(* transitionAfterSettlement() up to its write, or its early return. *)
FollowSettlement(q) ==
  LET s == request[q].id
      r == sub[s]
      action == IF r.state \in {"pending", "trial"} THEN "activate" ELSE "reactivate"
  IN  /\ request[q].stage = "settle"
      /\ IF CanSettle(r, now, Overdue(s)) THEN Hold(q, s, Settled(r), TRUE)
         ELSE IF r.state \in {"pending", "trial", "expired"}
         THEN Hold(q, s, Transitioned(r, action, now), TRUE)
         ELSE request' = [request EXCEPT ![q] = IdleRequest]
      /\ ReadOnly

-----------------------------------------------------------------------------
(* The subscription-lifecycle job. *)

First(s, S) == s \in S /\ \A t \in S : s <= t

ReadPass(job, pass, at, selected) ==
  [pass |-> pass, at |-> at, todo |-> selected, grace |-> 0, renewal |-> AbsentRow,
   rows |-> [s \in Subs |-> IF s \in selected THEN sub[s] ELSE AbsentRow]]

Handled(job, s) ==
  [job EXCEPT !.todo = @ \ {s}, !.rows[s] = AbsentRow, !.grace = 0, !.renewal = AbsentRow]

(* The first write of a row that is about to enter its grace period. *)
EnteringGrace(job, s, new) == [job EXCEPT !.rows[s] = new, !.grace = s]

JobStep == UNCHANGED <<now, invoices, request, crashes>>

SweepRead ==
  /\ IF sweep.pass = 0 THEN MayStart /\ "sweep" \in Operations
     ELSE sweep.pass < 5 /\ sweep.todo = {}
  /\ LET at == IF sweep.pass = 0 THEN now ELSE sweep.at
         pass == sweep.pass + 1
     IN  sweep' = ReadPass(sweep, pass, at,
                           {s \in Subs : SelectedBy(pass, sub[s], at)})
  /\ JobStep
  /\ UNCHANGED <<tables, dunning>>

SweepEnd ==
  /\ sweep.pass = 5 /\ sweep.todo = {}
  /\ sweep' = IdleJob
  /\ JobStep
  /\ UNCHANGED <<tables, dunning>>

(* What the sweep writes next to the row it is at. *)
SweepRow(s) ==
  LET r == sweep.rows[s]
  IN  IF sweep.grace = s THEN GraceStarted(r)
      ELSE CASE sweep.pass = 1 -> TrialEnded(r, sweep.at)
             [] sweep.pass = 2 -> sweep.renewal
             [] sweep.pass = 3 -> PastDue(r, sweep.at)
             [] sweep.pass = 4 -> Expired(r)
             [] OTHER -> [r EXCEPT !.state = "expiring"]

SweepStore(s) ==
  Store("sweep", s, Saved(sub[s], sweep.rows[s], SweepRow(s))) /\ UNCHANGED dunning

SweepBegins(s) ==
  /\ First(s, sweep.todo)
  /\ sweep.pass = 2 => sweep.renewal # AbsentRow
  /\ Begin("sweep", s, Saved(sub[s], sweep.rows[s], SweepRow(s)))
  /\ JobStep
  /\ UNCHANGED <<sweep, dunning>>

(* Passes 1 and 3: Past Due, and the grace period as a second transaction  *)
(* when one is configured.                                                 *)
SweepPastDue(s) ==
  /\ sweep.pass \in {1, 3} /\ sweep.grace = 0
  /\ First(s, sweep.todo)
  /\ SweepStore(s)
  /\ sweep' = IF sweep.rows[s].grace_period_days > 0
               THEN EnteringGrace(sweep, s, SweepRow(s)) ELSE Handled(sweep, s)
  /\ JobStep

SweepGrace(s) ==
  /\ sweep.grace = s
  /\ SweepStore(s)
  /\ sweep' = Handled(sweep, s)
  /\ JobStep

(* Pass 2 hands the id to renew(), which reads the row again; a refusal is *)
(* logged and the row skipped.                                             *)
SweepReadRenewal(s) ==
  /\ sweep.pass = 2 /\ sweep.renewal = AbsentRow
  /\ First(s, sweep.todo)
  /\ sweep' = IF CanRenew(sub[s], sweep.at, Overdue(s))
               THEN [sweep EXCEPT !.rows[s] = sub[s],
                                  !.renewal = Renewed(sub[s], sweep.at, Overdue(s))]
               ELSE Handled(sweep, s)
  /\ JobStep
  /\ UNCHANGED <<tables, dunning>>

SweepRenew(s) ==
  /\ sweep.pass = 2 /\ sweep.renewal # AbsentRow
  /\ First(s, sweep.todo)
  /\ SweepStore(s)
  /\ sweep' = Handled(sweep, s)
  /\ JobStep

(* Pass 4 expires, pass 5 gives notice. *)
SweepMark(s) ==
  /\ sweep.pass \in {4, 5}
  /\ First(s, sweep.todo)
  /\ SweepStore(s)
  /\ sweep' = Handled(sweep, s)
  /\ JobStep

(* Each row of a pass has its own try: what fails is reported and skipped. *)
SweepRolledBack(s) ==
  /\ First(s, sweep.todo)
  /\ RolledBack("sweep")
  /\ sweep' = Handled(sweep, s)
  /\ JobStep
  /\ UNCHANGED dunning

-----------------------------------------------------------------------------
(* The invoice-overdue job: markOverdue() flags every invoice past its due *)
(* date and returns the subscriptions of those it has just flagged; they   *)
(* are all that pastDueForOverdueInvoices() then looks at.                 *)

DunningFlag ==
  /\ dunning.pass = 0 /\ MayStart /\ "dunning" \in Operations
  /\ flagged' = [s \in Subs |-> Overdue(s)]
  /\ unflagged' = [s \in Subs |-> 0]
  /\ dunning' = [IdleJob EXCEPT !.pass = 1, !.at = now,
                                !.todo = {s \in Subs : unflagged[s] > 0}]
  /\ UNCHANGED <<now, tables, request, sweep, crashes>>

DunningRead ==
  /\ dunning.pass = 1
  /\ dunning' = ReadPass(dunning, 2, dunning.at,
                         {s \in dunning.todo : sub[s].state \in {"active", "expiring"}})
  /\ JobStep
  /\ UNCHANGED <<tables, sweep>>

DunningRow(s) ==
  IF dunning.grace = s THEN GraceStarted(dunning.rows[s])
  ELSE PastDue(dunning.rows[s], dunning.at)

DunningStore(s) ==
  Store("dunning", s, Saved(sub[s], dunning.rows[s], DunningRow(s))) /\ UNCHANGED sweep

DunningBegins(s) ==
  /\ dunning.pass = 2
  /\ First(s, dunning.todo)
  /\ Begin("dunning", s, Saved(sub[s], dunning.rows[s], DunningRow(s)))
  /\ JobStep
  /\ UNCHANGED <<sweep, dunning>>

DunningPastDue(s) ==
  /\ dunning.pass = 2 /\ dunning.grace = 0
  /\ First(s, dunning.todo)
  /\ DunningStore(s)
  /\ dunning' = IF dunning.rows[s].grace_period_days > 0
                 THEN EnteringGrace(dunning, s, DunningRow(s)) ELSE Handled(dunning, s)
  /\ JobStep

DunningGrace(s) ==
  /\ dunning.grace = s
  /\ DunningStore(s)
  /\ dunning' = Handled(dunning, s)
  /\ JobStep

DunningRolledBack(s) ==
  /\ First(s, dunning.todo)
  /\ RolledBack("dunning")
  /\ dunning' = Handled(dunning, s)
  /\ JobStep
  /\ UNCHANGED sweep

DunningEnd ==
  /\ dunning.pass = 2 /\ dunning.todo = {}
  /\ dunning' = IdleJob
  /\ JobStep
  /\ UNCHANGED <<tables, sweep>>

-----------------------------------------------------------------------------
(* The world: the clock, invoices passing their due date, and the loss of  *)
(* whatever the API process or the worker process held in memory; the      *)
(* transactions of a lost process are rolled back.                         *)

Tick ==
  /\ MayStart /\ now < MaxNow
  /\ now' = now + 1
  /\ UNCHANGED <<tables, invoices, request, sweep, dunning, crashes>>

InvoiceFallsDue(s) ==
  /\ MayStart /\ Exists(s) /\ Overdue(s) < MaxOverdue
  /\ unflagged' = [unflagged EXCEPT ![s] = @ + 1]
  /\ UNCHANGED <<now, tables, flagged, request, sweep, dunning, crashes>>

ApiCrash ==
  /\ crashes < MaxCrashes
  /\ \E q \in Requests : request[q].stage # "idle"
  /\ request' = [q \in Requests |-> IdleRequest]
  /\ open' = [a \in Actors |-> IF a \in Requests THEN NoTransaction ELSE open[a]]
  /\ crashes' = crashes + 1
  /\ UNCHANGED <<now, sub, schoolState, skewed, invoices, sweep, dunning>>

WorkerCrash ==
  /\ crashes < MaxCrashes
  /\ sweep.pass # 0 \/ dunning.pass # 0
  /\ sweep' = IdleJob
  /\ dunning' = IdleJob
  /\ open' = [a \in Actors |-> IF a \in Requests THEN open[a] ELSE NoTransaction]
  /\ crashes' = crashes + 1
  /\ UNCHANGED <<now, sub, schoolState, skewed, invoices, request>>

-----------------------------------------------------------------------------
Serve(q) ==
  \/ ReadCreate(q) \/ Insert(q) \/ Write(q) \/ FollowSettlement(q)
  \/ WriteBegins(q) \/ RequestRolledBack(q)
  \/ \E s \in Subs :
       \/ ReadUpdate(q, s) \/ ReadRenew(q, s) \/ Pay(q, s)
       \/ \E action \in Actions : ReadTransition(q, s, action)
       \/ \E plan \in Plans, cycle \in Cycles : ReadChangePlan(q, s, plan, cycle)

LifecycleJob ==
  \/ SweepRead \/ SweepEnd
  \/ \E s \in Subs :
       \/ SweepPastDue(s) \/ SweepGrace(s) \/ SweepReadRenewal(s) \/ SweepRenew(s)
       \/ SweepMark(s) \/ SweepBegins(s) \/ SweepRolledBack(s)

OverdueJob ==
  \/ DunningFlag \/ DunningRead \/ DunningEnd
  \/ \E s \in Subs :
       DunningPastDue(s) \/ DunningGrace(s) \/ DunningBegins(s) \/ DunningRolledBack(s)

World == Tick \/ (\E s \in Subs : InvoiceFallsDue(s)) \/ ApiCrash \/ WorkerCrash

Next == (\E q \in Requests : Serve(q)) \/ LifecycleJob \/ OverdueJob \/ World

Spec == Init /\ [][Next]_vars

(* The schedule fires whatever the requests do, and a handler that has     *)
(* begun goes on unless its process is lost.                               *)
Proceeds(q) == Insert(q) \/ Write(q) \/ FollowSettlement(q)

Fairness ==
  /\ SF_vars(LifecycleJob)
  /\ SF_vars(OverdueJob)
  /\ \A q \in Requests : WF_vars(Proceeds(q))

FairSpec == Spec /\ Fairness

-----------------------------------------------------------------------------
(* Properties. *)

(* A subscription in Grace has a deadline: pass 4 of the sweep looks for   *)
(* one, and a Grace row without it would be served for ever.               *)
GraceHasDeadline ==
  \A s \in Subs :
    sub[s].state = "grace_period" => sub[s].grace_period_ends_at # NoDate

(* While a downgrade waits for the next billing cycle, the current period  *)
(* is one that began before the scheduled date: no period that starts on   *)
(* or after it is billed on the old plan.                                  *)
ScheduledChangeAhead ==
  \A s \in Subs :
    sub[s].state \in UsableStates /\ sub[s].scheduled_plan_id # NoPlan
      => sub[s].current_period_start < sub[s].scheduled_change_at

(* schools.subscription_state is the state of the subscription that        *)
(* governs the school, whichever rows are written in whatever order, and   *)
(* though edits and scheduled downgrades do not refresh it, unless the     *)
(* last transaction to refresh it could not see one that committed beside  *)
(* it: the next to commit alone puts it right.  A school that has had only *)
(* one subscription is never shown wrongly.                                *)
SchoolStateAgrees ==
  ~skewed \/ (\A s, t \in Subs : Exists(s) /\ Exists(t) => s = t)
    => schoolState = Governing(sub)

(* A school never holds two open subscriptions at once: create() refuses   *)
(* the second, so that entitlement cannot depend on insert order.          *)
OneOpenSubscription ==
  \A s, t \in Subs :
    sub[s].state \in OpenStates /\ sub[t].state \in OpenStates => s = t

(* The scheduled jobs only ever take access away or leave it: a row that   *)
(* an operator or a deadline has stopped is not handed back by a job.      *)
JobsNeverRevive ==
  [][(sweep' # sweep \/ dunning' # dunning) =>
       \A s \in Subs : sub'[s].state \in UsableStates
                         => sub[s].state \in UsableStates]_vars

(* A grace period, once entered, ends when it was said to: a renewal in    *)
(* arrears, an edited grace length or a second lapse neither extends nor   *)
(* shortens it.                                                            *)
GraceDeadlineStands ==
  [][\A s \in Subs :
       sub[s].state = "grace_period" /\ sub'[s].state = "grace_period"
         => sub'[s].grace_period_ends_at = sub[s].grace_period_ends_at]_vars

(* The date up to which a usable subscription may be used. *)
Deadline(r) ==
  CASE r.state = "trial" -> r.trial_ends_at
    [] r.state \in {"active", "expiring"} -> r.current_period_end
    [] OTHER -> r.grace_period_ends_at

(* Two kinds of subscription have no such date by intent or by an edit: a  *)
(* one-time period, and a trial whose length update() set to 0 days, which *)
(* nulls the end that pass 1 looks for.                                    *)
Endless(r) ==
  \/ r.state \in {"active", "expiring"} /\ r.billing_cycle = OneTime
  \/ r.state = "trial" /\ r.trial_ends_at = NoDate

Overstays(s) ==
  LET r == sub[s]
  IN  /\ r.state \in UsableStates /\ ~Endless(r)
      /\ Deadline(r) = NoDate \/ Deadline(r) <= now

(* Access that has run out is noticed: a trial, a period or a grace period *)
(* that is over does not stay in use for ever, through edits of the length *)
(* of a trial or a grace, invoices going overdue and crashes of the worker *)
(* in the middle of a sweep.  Only a trial edited to 0 days escapes.       *)
NoOverstay == \A s \in Subs : []<>~Overstays(s)

(* Every step keeps to the state machine the service documents. *)
Machine ==
  INSTANCE SubscriptionMachine
    WITH Ids <- Subs,
         state <- [s \in Subs |-> sub[s].state],
         owed <- [s \in Subs |-> Overdue(s)]

KeepsToMachine == Machine!Spec
=============================================================================

# School-cms, specified and checked

School-cms is a multi-tenant school administration system: an Express and Sequelize API over MySQL
(`src/backend`), a Next.js front end (`src/frontend`), and a scheduler that runs the sweeps of
`src/backend/src/jobs`. A school is usable while it holds a usable subscription. What makes the
system hard to get right is the machinery around that sentence: a subscription moves by the clock,
by the operator and by money; invoices and payments decide which; limits decide what a usable
school may do; caches decide when anybody notices; and inside the school the same patterns return in
loans, fees, marks and sessions. Nearly every one of these is a handler that reads rows, waits, and
writes them, beside others that do the same.

This directory holds TLA+ models of that machinery, the TLC configurations that check them on
small instances, and proofs checked by TLAPS of what holds on instances of any size.

Contents: [1 Inventory](#1-inventory) · [2 Modules](#2-modules) · [3 Subscriptions](#3-subscriptions) ·
[4 Billing](#4-billing) · [5 Usage limits](#5-usage-limits) ·
[6 Around the core: caches, scheduler, queue, notifications, sessions](#6-around-the-core) ·
[7 In the office and the school: numbers, quotations, fees, library, exams](#7-in-the-office-and-the-school) ·
[8 Runs](#8-runs) · [9 Proofs](#9-proofs) ·
[10 Where the code and its text disagree](#10-where-the-code-and-its-text-disagree) ·
[11 What is left out](#11-what-is-left-out) · [12 Plan](#12-plan)

## 1 Inventory

`PROJECT.json` lists every part of the system, with its sources and whether it is modelled. The
parts that carry logic of their own are these.

| Part (under `src/backend/src`) | State it keeps | Operations | What is hard | What makes it correct |
|---|---|---|---|---|
| **Subscription lifecycle** `modules/subscriptions`, `jobs/tasks/subscriptionLifecycle` | `subscriptions` rows: state, plan, period, trial, grace, pause and scheduled change; `schools.subscription_state` | `create`, `update`, six transitions, `changePlan`, `renew`, `settleArrears`, the sweep's five passes | rows are judged before the transaction that writes them; a lapse is two transactions; the sweep works from copies; transactions on two rows of one school read snapshots that lack each other's write | one open subscription; jobs never revive; a grace period ends when it was said to; access that ran out is noticed; the school's cached state is the governing row's |
| **Dunning** `jobs/tasks/invoiceOverdue` | invoices' `overdue` flag | flag, then lapse the subscriptions of what was just flagged | acted on once, in the state of that moment | as above |
| **Invoices** `modules/invoices` | `invoices`, their figures and status; `subscriptions.credit_balance` | issue, finalise, cancel, coupon on and off, mark overdue | read outside the transaction; credit drawn at issue has to come back | figures agree with the money; credit is conserved; one live invoice per period |
| **Payments and refunds** `modules/payments` | `payments`, `refunds`; `subscriptions.wallet_balance` | submit, record, approve, reject, refund | row locks, and sums read in a snapshot older than the lock | the wallet is conserved; no more goes back than came in; a cancelled invoice takes no money |
| **Coupons** `modules/coupons` | `used_count`, `coupon_usages` | redeem, release, expire | the last use, taken twice | uses counted and bounded |
| **Usage limits** `services/usageService` | counts of people; `usage_records` counters and overage | reserve a head, reserve a unit, release, record | check and write apart; a refund racing a reservation | limits hold under concurrency; a failure costs nothing |
| **Entitlement and tenant caches** `services/entitlementService`, `tenantService`, `config/cache` | snapshots with a time to live, per process or in Redis | read through, invalidate | a stale value stored after its invalidation; processes that do not share a cache | an answer is at most so old, and a stale entry has a reason |
| **Scheduler** `jobs/cron`, `jobs/worker` | the set of running tasks, per process | tick, run, time out, `--once` | a timeout that does not cancel | no tick runs beside a copy that is waited for; a task that hangs comes around again |
| **Queue** `config/queue`, `jobs/handlers` | pending jobs and slots, in memory | push, drain, run, retry | a wake-up lost; all of it lost with the process | every job ends, or is lost with its process |
| **Notifications** `modules/notifications`, `services/mailService` | rows, e-mails and markers on what was announced | passes over what is to be told, delivery, retry | stopping between the message and the marker; a limit spent on the wrong rows | nobody is forgotten, nobody is told for ever |
| **Document numbers** `utils/documentNumber` | none: the highest number of the month in its own table | `nextNumber`, `withRetry` | two transactions that read the same maximum | a series has no gap and no repetition |
| **Sessions** `modules/auth`, `middlewares/csrf`, `lib/apiClient` | one refresh-token hash per user; cookies; what each tab remembers | login, refresh, logout, change and reset of the password | two handlers acting on one read hash; tabs that share cookies and nothing else; two calls of a tab that fetch a CSRF token each | a lone tab is not signed out by its own refreshes; an ended session stays ended |
| **Quotations** `modules/quotations` | status, converted invoice | edit, send, reject, accept, expire | accept decides again under a lock, the others do not | one invoice per quotation |
| **Library** `modules/library` | copies on the shelf, loans, fines | issue, return, settle, edit | one counter contended for, a loan read before the lock | shelf, loans and losses make up the quantity |
| **Fees** `modules/fees`, `jobs/tasks/feeFines` | assigned fees, receipts, fines | assign, pay, fine | check then insert, with no index; fines from copies | the ledger adds up; a month is charged once |
| **Exams** `modules/exams` | marks, results, publication | enter, submit, generate, publish; pupils move in and out of the class (`modules/students`) | every submission rewrites every result; marks stay when their pupil goes, and are there when he comes back | no paper is missing from a result; what is published stands |
| **Dates** `utils/dates` | none | `addMonths`, `addBillingCycle` | months of different lengths | periods are contiguous and keep their day |

They meet in a few places, and that is where the models put their weight:

- **One row, many writers.** `subscriptions` rows are written by requests, by the hourly sweep, by
  the daily dunning job and by the settlement after a payment; credit by invoices and plan changes;
  the wallet by payments and refunds; a fee by payments and by the fines task; a user's row by every refresh.
- **Money moves the lifecycle.** `payments` commits an approved payment and then, in a second
  transaction, asks `subscriptions` to activate, reactivate or settle. `markOverdue()` returns the
  subscriptions it has just made late, and `pastDueForOverdueInvoices()` lapses those and no others.
- **The lifecycle starts money.** A started period is billed by the invoice job or by the operator,
  through the same function; a plan change leaves credit behind or bills the difference itself; an accepted
  quotation becomes an invoice.
- **Caches follow.** Every lifecycle write refreshes `schools.subscription_state` inside its
  transaction and drops the entitlement and tenant snapshots after it.
- **Work that outlives its timeout.** The scheduler stops waiting and goes on; so a task such as the
  notification dispatch or the fines may run beside an earlier copy of itself. `NotificationSweep` has
  several sweeps for that reason, and `CronRunner` shows how the second one comes to be.

The rest of the back end (plans, taxes, add-ons, people, classes, attendance, homework, finance,
reports, settings, uploads, PDF) stores rows one request at a time; `PROJECT.json` says of each why it
is not modelled. Most of the repository's lines are the screens of the front end, the verification scripts
under `src/backend/scripts` and these services.

## 2 Modules

| Module | What it is | Lines it stands for |
|---|---|---|
| `SubscriptionRules` | the columns the lifecycle uses, and the guard and effect of every operation, as functions of the row that was read and of the moment | `subscriptions.service.js`, `models/subscription.js` |
| `SubscriptionLifecycle` | the rows of one school under requests, settlement, both jobs, the clock and crashes; the properties | `subscriptions.service.js`, `payments.service.js`, `invoices.service.js` (`markOverdue`), `jobs/tasks` |
| `SubscriptionMachine` | what the lifecycle promises: ten states, their edges, and the edges money closes | the transition table and the sweep's own documentation |
| `BillingRules` | figures of an invoice, its status, its guards, what is left of a payment | `invoices.service.js`, `payments.service.js` |
| `Billing` | invoices, payments and refunds of one subscription, its credit, its wallet and one coupon, under concurrent handlers and the overdue job; the properties | the same, and `changePlan` |
| `UsageLimits` | head counts and metered counters of one school under concurrent handlers; the properties | `usageService.js` and its callers |
| `StaleRegister` | what the caches promise: an answer is the row as it was at most `Bound` ago | `config/cache.js` (the meaning of a time to live) |
| `EntitlementCache` | read-through caches of several processes, under either driver, with fills, commits and flushes in steps; the properties, and the mapping to `StaleRegister` | `config/cache.js`, `entitlementService.js`, the flushes of `subscriptions.service.js` |
| `CronRunner` | runs of `runOrdered()` in the resident process and in `--once` processes; the properties | `jobs/cron.js` |
| `JobQueue` | the in-process queue; the properties | `config/queue.js` |
| `NotificationSweep` | the dispatch task's passes, in-app rows, e-mails and markers; the properties | `notifications.service.js` |
| `Sessions` | tabs, cookies and the user's row; the properties | `auth.service.js`, `auth.controller.js`, `csrf.js`, `apiClient.ts`, `auth.tsx` |
| `DocumentNumbers` | several series, concurrent units of work; the properties | `documentNumber.js` and its callers |
| `Quotations` | one quotation and its invoice; the property | `quotations.service.js` |
| `Fees` | the fees of one student for one component; the properties | `fees.service.js`, `feeFines.js` |
| `Library` | one title and its loans; the property | `library.service.js` |
| `Exams` | one exam; the properties | `exams.service.js`, and of `students.service.js` what moves a pupil |
| `MCSubscription`, `MCBilling`, `MCUsage` | the instances for TLC: symmetry, and the sets a configuration cannot write down | |
| `MCOffice`, `MCRuntime`, `MCSchool`, `MCTerm` | hosts: one of the above and, beside it, other parts (see below) | |
| `SubscriptionLifecycle_proofs`, `Billing_proofs` | theorems about the two largest modules | |
| `CacheSweep_proofs` | theorems about `EntitlementCache` and `NotificationSweep`, which two hosts share | |
| `Office_proofs` | about `DocumentNumbers`, `Quotations`, `Fees`, and about all parts of `MCOffice` together | |
| `Runtime_proofs` | about `CronRunner`, `JobQueue`, and about all parts of `MCRuntime` | |
| `School_proofs` | about `Sessions`, `Library`, and about both parts of `MCSchool` | |
| `Term_proofs` | about `UsageLimits`, `Exams`, and about both parts of `MCTerm` | |
| `Sums` | lemmas about sums over finite sets, for `Billing_proofs` and `Term_proofs` | |

`SubscriptionLifecycle` extends `SubscriptionRules` and instantiates `SubscriptionMachine` under a
refinement mapping; `EntitlementCache` does the same with `StaleRegister`; `Billing` extends `BillingRules`.
Rules are pure, so that a proof of an action cites a lemma about the rule and never expands it. No module
declares a recursive operator.

Definitions whose comment begins with *Mutant* are the same rule with a plausible mistake in it; each
sits in front of the rule it varies and shows that the property named with it in `PROJECT.json` would notice.

**Hosts.** A host extends several components and a variable `part` says which of them a behaviour is
about; the others keep their initial state. The parts of a host share no state in these models, so nothing is
lost by taking them one at a time, and a run can ask one kind of question (what a schedule must bring
about, what happens in the office, ...) of all of them. Where a sleeping part has several initial states,
the host keeps one: that changes nothing for the part that is awake.

### How a handler is modelled

None of these services locks a row before judging it, unless the text below says so. A handler
therefore has a **read** action (it checks its guards against the database, computes the new
columns, and keeps both in `request[q]`, `desk[w]`, `editor[e]`, ...) and a **write** action (the transaction).
Between the two any other actor may step. In the subscription and billing modules that is so when the constant
`Overlap` is TRUE; when it is FALSE an operation runs to its end before another begins, which is what the
code's comments assume.

The write is Sequelize's: `instance.update()` and `save()` send the columns whose new value differs
from the copy that was read, and leave every other as the database has it. `Saved(row, read, new)` (and
`SavedColumn`, `Written`) is that, column by column. This is what decides which concurrent edits survive, and
replacing it by "write the whole row" would hide most of the races below and invent others.

Variables called *history* in their comment are no state of the program: they remember that a write landed on
something its handler had not seen, so that a property can say what holds otherwise. Each names one race the
code leaves open, and section 10 lists them.
## 3 Subscriptions

| In the model | In the code |
|---|---|
| `sub[s]`, a `Row` of 14 columns | a `subscriptions` row; ids are given in order, `AbsentRow` is an id not yet used |
| `schoolState` | `schools.subscription_state`, written by `syncSchoolState()` |
| `open[a]` | the transaction of a handler or a job between its row's UPDATE and its end: the row it has locked, what it will leave there, and the state it read for the school |
| `skewed` | history: the last transaction to refresh `schoolState` could not see one that had committed since it looked |
| `unflagged[s]`, `flagged[s]` | invoices past their due date and unpaid, before and after `markOverdue()` saw them; `overdueInvoiceCount()` is their sum |
| `request[q]` | a request handler: idle, about to write, or about to follow a committed payment (`transitionAfterSettlement()`) |
| `sweep`, `dunning` | a job: the pass it is in, the moment it evaluates, the rows of the pass still to handle *as they were read*, the row whose second write is still to come, and the row `renew()` has computed and not yet written |
| `ReadCreate`/`Insert` | `create()`: the open-subscription check, and the transaction |
| `ReadTransition`, `ReadUpdate`, `ReadChangePlan`, `ReadRenew` then `Write` | `transition()`, `update()`, `changePlan()`, `renew()` |
| `WriteBegins`, `SweepBegins`, `DunningBegins`, before the write of each | the first half of a transaction, when others may step inside it: the row is updated, and `governingStateFor()` reads the school's rows in a snapshot |
| `RequestRolledBack`, `SweepRolledBack`, `DunningRolledBack` | InnoDB ends a deadlock by rolling one transaction back: a request fails, a row of a job is reported and skipped |
| `Pay` then `FollowSettlement` then `Write` | an approved payment commits; then `settleArrears()` or a transition, or nothing |
| `SweepRead`, `SweepPastDue`, `SweepGrace`, `SweepReadRenewal`, `SweepRenew`, `SweepMark`, `SweepEnd` | `runLifecycleSweep()`: one read per pass, then row by row; Past Due and Grace are separate transactions; pass 2 calls `renew()`, which reads again, may refuse, and writes in a transaction of its own |
| `DunningFlag`, `DunningRead`, `DunningPastDue`, `DunningGrace`, `DunningEnd` | `markOverdue()` and `pastDueForOverdueInvoices()` |
| `ApiCrash`, `WorkerCrash` | a process lost: what its handlers or jobs held is forgotten, what they committed stays |

Time is counted in whole units. A billing cycle is its length in them, 0 for the one-time cycle; a
plan's id is its tier rank, so "lower" is a downgrade. Edits and scheduled downgrades do not end in
`syncSchoolState()`; the field `sync` of a request says so.

**A transaction** that does call it updates its row, reads which of the school's rows governs, and writes the
answer to the school when it differs. No isolation level is set, so that InnoDB's default holds: the reading is of
a snapshot, in which another transaction's uncommitted row is still the old one. `Begin` is the UPDATE with the
reading, `FinishTransaction` the rest with the commit, and `Store` either the rest of one that has begun or the whole of it.
What they wait for are locks. A row that was updated is its transaction's until the end (`RowFree`). The school's row is shared by
every transaction under way, through the foreign key of the history line (or of the subscription inserted), and
must be had alone to be written: a transaction that would change `schoolState` waits until no other is open,
and of two that would, InnoDB rolls one back (`RolledBack`). A transaction that found the school right already waits
for nobody, and that is the gap: one that began before it and finishes after it writes what it read before
(`skewed`; section 10 has the trace). `SchoolStateAgrees` says that nothing else can go wrong, and that a
school with only one subscription is never shown wrongly.

`SubscriptionMachine` has no dates, no copies and no jobs: for each subscription a state and a number
of overdue invoices. Its edges come from the transition table, from the sweep's documentation and from
the arrears rules (D23) of `renew()`, and some are open only while nothing is owed. The mapping
takes `state[s]` from `sub[s].state` and `owed[s]` from the two invoice counters; `KeepsToMachine` says
every step of the detailed module is a step, or a stutter, of it.

## 4 Billing

| In the model | In the code |
|---|---|
| `invoice[i]`, `payment[p]` | rows of `invoices` and `payments`; refunds are kept as the sums a payment carries, `to_wallet` being the part whose destination was the wallet |
| `credit`, `wallet`, `usedCount` | `credit_balance`, `wallet_balance`, `coupons.used_count`; an invoice's `uses` are its `coupon_usages`. The wallet opens with `OpeningWallet`, from refunds of before |
| `granted` | no column: how much credit plan changes have given, so that conservation can be stated |
| `ReadIssue`/`Issue` | `generateForSubscription()`, its check for a live invoice, and the transaction of `issue()`; the invoice job is one more handler |
| `ReadChangePlan`/`ChangePlan` | what an immediate plan change does to credit and what it bills |
| `ReadInvoice` then `Finalise`, `Cancel`, `ApplyCoupon`, `RemoveCoupon` | the operations that judge an invoice before their transaction |
| `Submit`, `Record`, `Approve`, `Reject` | each one transaction under the locks of the rows it judges: one step |
| `StartRefund`/`FinishRefund` | `requestRefund()` |
| `ReadOverdue`, `MarkOverdue` | `markOverdue()`, flagging one by one the rows it read |

Money under locks is one step, because what it sums is read after the lock is held. A refund is not:
its first plain sum opens the transaction's snapshot (InnoDB, REPEATABLE READ) before it waits for the
invoice's lock, so what it later sums over the invoice's payments is that snapshot. The range of
refund numbers it locks lets one refund run at a time, and a refund to the wallet keeps the
subscription's row locked, which makes wallet payments and credit writes wait (`SubscriptionUnlocked`). An approval looks at the wallet's balance again
under that lock (`StillCovered`), as what was submitted against it may be more than it holds.

Amounts are whole units, tax is part of the subtotal, and there is one coupon of a fixed discount.

## 5 Usage limits

| In the model | In the code |
|---|---|
| `person[p]` | rows of `students` and of `staff`, to which `teachers` are the same |
| `lock` | the lock of the school's row that `reserveHeadcount()` takes |
| `used[l][t]`, `overage[l][t]` | `usage_records` of a limit in a billing period |
| `served[l][t]` | no column: units taken for work that was delivered or is under way |
| `ReserveHeadcount`, `Admit` | an admission: lock, count, insert, commit |
| `ReadReactivation`, `Reactivate` | bringing back a member of staff: counted without a lock, outside the transaction |
| `AdmitInactive`, `Leave` | what a head count does not ask about |
| `Take`, `Reserve`, `Recheck` | `reserveUsage()`: one conditional UPDATE; when it changed no row, `assertWithinLimit()` reads again and its answer is the caller's; when it did, the row is read again and its overage saved (`Reload`, `Save`), before the caller goes on |
| `Deliver`, `Fail` | the work succeeds, or fails and `releaseUsage()` runs, which asks for the period once more |
| `Increment`, `Reload`, `Save` | `recordUsage()`: three statements without a transaction around them; `Floored`: only this one puts a negative counter back to 0 |
| `Renew` | the subscription's period moves on |

## 6 Around the core

### Caches: `EntitlementCache`

| In the model | In the code |
|---|---|
| `source[k]`, a version | the rows behind a key: a school's subscription and plan, a tenant, the grants of a role |
| `entry[c][k]` | an entry and what is left of its time; under `memory` every process has a cache, under `redis` all use `Shared` |
| `fill[r]` | a `remember()` that missed and is resolving: what it read, and for how long it has held it |
| `flush[w]` | what a request that has committed has still to invalidate |
| `since[k][v]` | no variable: how long ago version `v` was superseded |
| `ServeHit`, `Produce`, `StoreProduced` | `remember()`: a hit; a miss (or a Redis that does not answer), which reads the rows; the store, which may fail under Redis, and the answer |
| `Commit`, `Invalidate` | a transaction, and the deletions after it, one key at a time; under Redis a deletion may fail and is logged |
| `Restart`, `Elapse` | a process lost with its memory and the invalidations it owed; time |

The driver is fixed for a behaviour. `Lag` bounds how long a fill may take: without one nothing bounds how
old an answer may be, because a value is stored with its whole time to live however long ago it was read.
`AnswersWithinBound` is the refinement of `StaleRegister` with `Bound = Ttl + Lag`; `StaleForCause` says that
every entry that is stale anywhere, beyond the flush that is just being made, is one of four cases:
filled across the write, in a process the writer cannot reach, left by a failed deletion, left by a lost process.

### Scheduler: `CronRunner`

`running[h]` is the module's `Set` of a process, `run[r]` a call of `runOrdered()` with the tasks still to run.
`ScheduleFires` and `RunOnce` begin one; `Skip`, `Start`, `Settle`, `Return` are its loop; `Abandon` is
`withTimeout()` rejecting while the work goes on (`adrift[h]`, until `EndsUnnoticed`); `Kill` loses a process.
A `--once` process is alive only during its run. Overlap of two copies of a task is possible and allowed for:
after a timeout, and between two processes. The properties say what the set does guarantee.

### Queue: `JobQueue`

`pending` is the FIFO, `slots` is `this.running`, `drains` are calls to `drain()` that `setImmediate` has
scheduled, `job[j]` is where a job is. `Drain` starts jobs while there is room; `Complete`, `HandlerThrows` and
`Refuse` (a name without a handler) end in the same `finally`; `Retry` is the timer of the backoff, which
pushes and drains at once; `LoseProcess` forgets everything. A job that has come to its end stands for the next one like it.

### Notifications: `NotificationSweep`

Rows are of two kinds, as the code has two ways of knowing that people were told: a column that is stamped
(*marked*), or a notification that points at the row (*referenced*). `Selected` is the query of a pass with its LIMIT, which for a referenced row
asks for somebody to tell; the query for payments does not ask, and its pass is not modelled;
`TakeRow`, `Persist`, `CreateMail`, `DeliverMail`, `Stamp` are one row's steps, none of which share a transaction;
`RowFails` is the `catch` of a pass, `Crash` loses some of the sweeps under way, `RetryMail` is the administrator's
retry. `Publish` and `Link` are the school: rows appear and logins are linked to pupils.

### Sessions: `Sessions`

| In the model | In the code |
|---|---|
| `row` | `users.refresh_token_hash`; `login` says which login the token descends from |
| `jar[b]`, `tab[t]` | the refresh and CSRF cookies of a browser; `accessToken` and `csrfToken` of a tab's `apiClient` |
| `call[t][k]` | a call of a tab: denied, waiting for the tab's refresh, fetching a CSRF token, at the server, answered, arrived, ... |
| `Deny`, `Refresh`, `SendRefresh` | a 401, `refreshAccessToken()` with `refreshInFlight`, and the CSRF guard, which compares the header with the cookie as it is when the request arrives |
| `FetchCsrf`, `MintCsrf`, `UseFetched` | `ensureCsrfToken()`, of a refresh or of any POST: no cached token is seen, the server mints one and the answer sets the cookie, the body is read and its token cached and sent. Two calls of a tab may be at it at once (`fetchedTwice`) |
| `ReadUserRow`, then `Rotate` or `EndReused` | `refresh()`: the row is read; the token is rotated, or taken for a reuse, which ends the session |
| `SetCookies` then `AdoptSession`; `LoseSession`, `LoseAnswer`, `ReloadPage` | an answer's headers set the cookies, its body the tab's tokens; it is a refusal, or lost; the page is loaded again |
| `Login`, `Logout` then `ClearCookies` and `LeaveApp`, `ChangePassword` then `SessionAfterChange`, `ResetPassword` | the operations that begin and end sessions |

An access token may run out at any moment, so any call may be denied. Tokens are numbered in the order they are
minted; a hash is its token.

## 7 In the office and the school

**`DocumentNumbers`.** A unit of work begins, reads the latest number of its series (`NextNumber`), inserts
(`InsertDocument`, which waits for an uncommitted row of the same number), and commits; a number that
was taken meanwhile rolls everything back and begins again, `Attempts` times (`RetryNumber`). Whether the locking read
makes a second reader wait is the engine's affair and is left open: the model lets readers compute the same number.

**`Quotations`.** `ReadQuotation` begins every operation; `MoveStatus` is `send()` and `reject()`, `EditQuotation`
is `update()`, both from the row as it was read; `LockQuotation` then `Accept` is `accept()`, which decides again
under the lock and converts unless an invoice is already set; `ExpireLapsed` is the task's conditional UPDATE. Writes wait for the lock.

**`Fees`.** `CheckAssignment` then `InsertFee` is `assign()`; `LockFee` then `PayFee` is `pay()` under the fee's
row lock, recomputing the fee from its receipts; `ReadCandidates` then `Fine` is `applyFines()`, row by row from the
copies of one query; `StopFining` cuts it. `raced` are the fees fined over a payment the task had not seen, `doubled`
those inserted while an equal assignment was between its check and its insert.

**`Library`.** `LockForIssue` then `IssueLoan` is `issue()`; `ReadLoan`, `LockForReturn`, `Receive` is `returnLoan()`,
whose loan is read before the book is locked; `ReadFine` then `Settle` is `settleFine()`; `UpdateBook` is one
locking transaction. `twice` are loans whose return was recorded more than once.

**`Exams`.** `CheckMutable`/`AddPaper`, `ReadPaper`/`WriteMark`/`StampMarksEntry`, `ReadSubmission`/`LockExam`/`RecordSubmission`,
`CheckGenerate`/`ReadForGeneration`/`CommitGeneration` and `CheckPublish`/`CommitPublish` are the steps of
`addExamSubject()`, `enterMarks()`, `submitMarks()`, `generateResults()` and `publishResults()`; only a submission
locks the exam. An exam read as a draft is stamped as one whose marks are entered, whatever it has become (stages `first` and `stamp`).
`recalculate()` reads the papers, the class and the marks in its transaction's snapshot, which a submission takes under its
lock and a generation with its first query: a handler keeps it in `sheets` until it commits. `Enrol` and `LeaveClass` change the class
between any two steps: an admission, a promotion, a transfer, or an edit of `class_id` or `section_id`, which is allowed in either direction. Marks
stay, so who comes back has those from before. A result counts the papers it was computed over, and is ranked when
it counts as many as the exam has. `late` are marks written after their paper was submitted; `arrived` are pupils who came into the class
and have been in no recalculation since; `astray` is set by any other write that landed on an exam it had not seen, and by
a generation beside another that read a different class or other marks.

## 8 Runs

Passing runs explore every state of their instance. All numbers are distinct states.

| Run | Instance | Checks | Shows |
|---|---|---|---|
| `serial` (1 202 000) | `MCOffice`. One subscription, every request but edits and plan changes, both jobs, one crash, times 0..3, one overdue invoice, `Overlap` off. Caches: two keys, an API process and a worker, both drivers, a reader, a writer, one restart, `Ttl` and `Lag` 1. Numbers: a series of at most four, three callers, three attempts. Quotations: three handlers, totals 1 and 2. Fees: two rows, two clerks, a run of the fines that grow by the day, three days, a discount or none. Notifications: two rows, two sweeps, one death or one failing statement | `OfficeTypes`, `GraceHasDeadline`, `JobsNeverRevive`, `GraceDeadlineStands`, `KeepsToMachine`; `StaleForCause`, `AnswersWithinBound`; `SeriesGapless`, `OvertakenEachTime`; `OneInvoicePerQuotation`; `LedgerAgrees`, `ChargedOnce`; `RepeatsBounded`, `MailAccounted` | one operation at a time, the lifecycle is the documented machine, a grace period has a deadline that stands, no job hands access back - also when a process is lost between the two writes of a lapse. Caches: a stale entry has a cause, no answer is older than the bound. Numbers rise without a gap, and a caller gives up only when overtaken at each attempt; a quotation becomes one invoice; a fee's figures follow from its receipts; people are told a bounded number of times, and every message is accounted for |
| `progress` (291 000) | `MCRuntime`, fair. One subscription, requests to create, edit, activate, change the plan, pause and resume, two plans, a trial or none, automatic and manual renewal, grace or none, times 0..2, one overdue invoice, one crash, `Overlap` off. Caches with one key. Cron: two tasks, a resident and a `--once` process, two runs, timeout 2, one kill. Queue: three jobs, one of them without a handler, one slot, three attempts, one loss. Notifications: three rows (one marked), one person, `Limit` 1, one death, one failing statement | `RuntimeTypes`, `RunningIsWaitedFor`, `NoJobStranded`; `NoOverstay`, `CachesConverge`, `TaskComesAround`, `EveryJobSettles`, `NoRowLeftBehind` | a trial, period or grace that is over does not stay in use for ever, edits and dunning included, except a trial edited to 0 days; once nothing is written, every cache agrees with the database; a task that hangs comes around again; a job that was queued ends; no row is kept for ever from being announced by the rows in front of it |
| `overlap` (1 238 000) | `MCSchool`. Two subscriptions, two handlers that create and activate, both jobs, all interleaved, inside their transactions too. Sessions: two tabs of one browser or of two, two calls each, three tokens, one lost answer. Library: two librarians, two loans, up to two copies, a fine of 0 or 1 | `SchoolTypes`, `SchoolStateAgrees`, `AloneNeverRefused`, `EndedStaysEnded`, `ShelfAgrees` | the school's cached state is the governing row's, although edits do not refresh it, unless the last transaction to refresh it missed another's commit (which the run reaches, and in which the state is wrong); a lone tab is never signed out by its own refreshes, and refused for its CSRF token only after it fetched two at once; what was ended stays ended; no copy of a book vanishes from the count |
| `two_usable` | cancel, create, reactivate | `OneOpenSubscription` is violated | section 10 |
| `early_renewal` | a scheduled downgrade, and a renewal before its date | `ScheduledChangeAhead` is violated | section 10 |
| `stale_sweep` | a suspension inside a sweep | `JobsNeverRevive` is violated | section 10 |
| `billing_serial` (925 000) | `MCBilling`. Two invoices, two payments, two periods, credit, coupon, wallet, refunds, the due date; one operation at a time | `TypeOK`, `AmountsAgree`, `CreditConserved`, `PaidUntilRefunded` | the figures and the status of every invoice agree with its payments and refunds in whatever order they came; credit is neither lost nor made; paid stays paid until money goes back |
| `billing_money` (1 859 000) | `MCBilling`. The same tables, two interleaved handlers, amounts 1 and 2, a wallet that opens with 1 | `WalletConserved`, `RefundsWithinPayments`, `CouponUsesCounted` | what row locks protect stays right although invoices are judged outside them: of two payments submitted against a balance for one, one is refused at its approval |
| `billing_covered` | credit that covers an invoice | `OutstandingIsOwed` is violated | section 10 |
| `billing_cancelled` | a payment pending on a cancelled invoice | `CancelledTakesNoMoney` is violated | section 10 |
| `usage_limits` (2 463 000) | `MCTerm`. Two handlers, two students and a place for one, a fixed and a soft limit, a renewal. Exam: two papers, two pupils who come and go, two teachers, marks 0 and 1 | `TermTypes`, `StudentLimitHolds`, `FixedNeverExceeded`, `FailureCostsNothing`; `NoPaperLost`, `MeritListStands` | limits hold under concurrency, and failed work is not charged to the period it is found in; papers submitted at once are in every result that was calculated since its pupil came, and a merit list ranks those who sat everything and stands once published |
| `usage_uncounted` | two requests for the last unit | `ServedWithinAllowance` is violated | section 10 |

**Bounds, and why they are enough.** `MaxNow = 3` (in `serial`) with cycles of 2 and grace and trial of 1 lets a trial
end, a first period end and be renewed, and a grace period run out, each before, at and after its
date; in `progress`, times up to 2 let a trial, its grace, a first period and a grace after an overdue invoice run out. The window of the Expiring notice is 1. One overdue invoice is enough for every comparison
the code makes (none or some); a second would matter only to a partial settlement, which `CanSettle`
compares with none too. One crash cuts any operation once; what a second could add begins from a state
a first has already reached. Two rows are what "governing", "open" and insert order need, and two transactions are what one needs to miss another. Two invoices
and two payments are what a second payment of one invoice, a second invoice of one period and a
re-issue after a cancellation need; a price of 2 and a discount of 1, beside the 1 a plan change
may bill, give partial, exact and excess amounts and a total of nothing. With a wallet of 1 both payments
may be submitted against it and one approved, and a refund may fill it again. `MaxGranted` bounds how much credit plan
changes may give, in the guard of `ChangePlan`. `MaxPeriod = 2` is one renewal, `MaxServed` bounds how
many units of a limit are begun in one period (it is a guard of `Take`, so the state space is finite
and the second handler still meets an exhausted allowance).

Of the other parts: two keys let a flush be cut between two deletions; one superseded version per key is all
`StaleForCause` compares with; with `Ttl` and `Lag` 1 a value may age both in a
fill and in an entry, and `progress` has `Ttl` 2. Two runs and two tasks give every skip, and
an order of two tasks lets a run go on after a timeout. One slot and two jobs with a handler fill the queue. With `Limit` 1,
any row in front of another takes the whole limit. Three tokens are a login, a rotation and a third session or
rotation; two calls are one that refreshes and one that waits. Three callers collide twice; a counter of four is
reached, and refused past. Three handlers of a quotation are an acceptance, a late write and a second acceptance. Two fees
and two clerks race an assignment and a payment with the fines. Two papers and two pupils give every order on a merit list, ties
included. `usage_limits` does not go beyond a state that is `astray` (its CONSTRAINT): both exam properties say nothing
from there on, whatever follows. `ExamBounds` lets one handler at a time have a mark or a paper to write, one mark be late, and one pupil be the
one it concerns or who has come in since the results were calculated. `OneCallEach` lets one tab alone use both its calls, and two tabs one each: what a busy tab
does to itself and what tabs do to each other are both there, and each has its property. `serial` uses the rows of fees in order, as their names mean nothing, and has one mishap befall the
sweeps, of either kind (`SmallOffice`).

Runs with `Overlap` off lack the races by intent: they ask what the logic guarantees, and the interleaved
runs ask what locks and transactions add. Parts without that constant interleave in every run.
Deadlock is checked in every run: the clock, edits or a job can always step; an exam that is over may
rest (`ExamRests` of `MCTerm`).

**Symmetry.** Handlers, librarians, students, papers, browsers and calls of a tab are interchangeable, and no
liveness property is checked where symmetry is used. Hosts share names between parts (a librarian
and a request are both `q1`) so that one symmetry set serves.

**Fairness.** `progress` is the run with liveness; `RuntimeFairness` is the fairness of whichever part is awake, and each piece
is one thing the runtime does by itself.

| Assumed | Why the code justifies it |
|---|---|
| strong fairness of each subscription job | the scheduler fires by the clock, whatever requests do; weak fairness would let requests that come and go disable a job for ever under `Overlap = FALSE`, where one may only start when nothing else is under way |
| weak fairness of a handler's write (`Proceeds`) | a handler that has begun goes on unless its process is lost |
| weak fairness of `Elapse` and of `StoreProduced` | entries expire by the clock; the database answers a producer |
| weak fairness of `PassTime` and `Abandon` | timers fire. No task is assumed ever to settle |
| weak fairness of `Drain`, of a job's end and of its `Retry` | `setImmediate` and `setTimeout` fire; a handler returns or throws. Which of the two is left open |
| weak fairness of a sweep's work | the schedule fires and a sweep goes on, one row after the other |

Nothing is assumed of requests, payments, publications, invalidations or crashes; crashes are bounded, as a
worker that dies in every sweep finishes none, and writes are, as a cache that is written for ever need not agree.

## 9 Proofs

TLAPS checks some 12 800 obligations, for every value of the constants that satisfies the assumptions
each module states (dates are integers and NULL is not one, bounds are natural numbers, "nobody" and "none" are not
members of the sets they stand beside, sets that are counted are finite). TLC evaluates the same
assumptions in each run that extends the module.

| Theorem | Says | Inductive invariant, and why it is needed |
|---|---|---|
| `SubscriptionLifecycle_proofs!TypeCorrect` | `Spec => []TypeOK`, with or without overlap | `Typed` is `TypeOK` and what an action needs to know of a copy it holds: a pass's rows are rows, the row entering grace is still to handle, a request that follows a payment names a row. One lemma per rule says that it maps rows to rows; `NewestIsHeld` shows that the newest of some rows is one of them |
| `...!SchoolStateCorrect`, `...!SchoolStateExact` | `Spec => []SchoolStateAgrees`, with or without overlap; and `~Overlap => (Spec => [](schoolState = Governing(sub)))` | `Synced`: a transaction that has missed nothing has found the state the school is to have once its row is saved (`Foreseen`), one that has missed something has another row beside it (`Present`), and a write that does not end in `syncSchoolState()` keeps the state it finds, so which row governs does not change either (`GoverningByState`). One operation at a time leaves no transaction open for another to miss |
| `...!GraceCorrect` | `~Overlap => (Spec => []GraceHasDeadline)` | the invariant alone is not inductive: a write may store a copy that no longer is the row. `Serial` adds that at most one actor is under way (`OneAtATime`) and that what it holds is what the table holds (`RequestsCurrent`, `JobsCurrent`) |
| `...!JobsOnlyTakeAway`, `...!GraceDeadlineFixed` | `~Overlap => (Spec => JobsNeverRevive)`, and `GraceDeadlineStands` | `Heeded` is `Serial` and what a held write may do: a pass selects usable rows only (`UsableCopies`), and no request holds a row in Grace with another deadline (`RequestsKeep`) |
| `...!ImplementsMachine` | `~Overlap => (Spec => KeepsToMachine)` | `Following` is `Serial` and, for each write that is still to come, that it is an edge of the machine from the state the row has now (`RequestsFollow`, `JobsFollow`); every step of the detailed module is then a move, a bill or a rest of the machine |
| `Billing_proofs!BillingTyped`, `...!RefundsStayWithinPayments`, `...!WalletHolds`, `...!CouponUsesBounded` | `Spec => []TypeOK`, `[]RefundsWithinPayments`, `[]WalletConserved`, `[]CouponUsesCounted`, with or without overlap | `Books`: what a payment's row says agrees with its status (`PaymentsSound`), what operations and the overdue job hold exists (`HoldersSound`), and the refund under way, which sums an old snapshot, is of a payment still as it was locked (`RefundsSound`). The wallet may open with anything. A step that changes one payment changes a sum by the difference (`Sums`) |
| `...!FiguresAgreeWithMoney`, `...!CreditIsConserved`, `...!PaidStaysPaid` | `~Overlap => (Spec => []AmountsAgree)`, `[]CreditConserved`, `PaidUntilRefunded` | `Figures` is `Books`, both invariants, and `Serial`: one operation at a time (`Alone`), which holds the row as it is (`Current`), and no invoice is paid for nothing (`PaidForSomething`) |
| `Term_proofs!TypeCorrect` | `Spec => []TypeOK` | `Inductive`: types, who holds the lock (`LockHeld`), and that only soft limits and give-backs reach the three statements of `recordUsage()` (`SoftRecorded`) |
| `...!StudentsWithinLimit` | `Spec => []StudentLimitHolds` | `RoomKept`: while a handler holds the lock for a student there is a place for one more; only the holder inserts, and leaving only lowers the count |
| `...!FixedWithinAllowance` | `Spec => []FixedNeverExceeded` | inductive with `SoftRecorded`: a fixed limit is only raised by the conditional UPDATE, and `recordUsage()` lowers it or puts a negative back to 0 |
| `...!FailureIsFree` | `Spec => []FailureCostsNothing` | `Charged` is an account: units that handlers hold are among those served, units used and not served are being given back, and no period to come has been charged |
| `...!ExamTyped`, `...!NoSubmissionLost`, `...!PublishedListStands` | `ExamSpec => []ExamTypeOK`, `[]NoPaperLost`, `[]MeritListStands` | `ExamInv`: who records holds the exam's row and has read all that is submitted, and who generates has seen every paper, unless one was added behind his back (`HandlersSound`); what either read of the class in its snapshot is still what the marks say of whoever is neither late nor new (`SheetsSound`); once there are results all papers are submitted and nothing is recorded any more (`ResultsSettled`) |
| `...!TermHolds` | `Spec` of `MCTerm` implies `TermTypes` and the five invariants of its run | see below |
| `CacheSweep_proofs!AnswersAreBounded` | `CacheSpec => AnswersWithinBound`, a refinement | `Fresh`: an entry with `left` to live was superseded at most `Ttl + Lag - left` ago, a fill at most its age ago; each action maps to a write, an answer or a tick of `StaleRegister` |
| `...!StaleHasCause` | `CacheSpec => []StaleForCause` | `Causes` says the same of fills, which become entries |
| `...!NotificationsTyped`, `...!NobodyToldForEver`, `...!EveryTellingMailed` | `SweepSpec => []SweepTypeOK`, `[]RepeatsBounded`, `[]MailAccounted` | `SweepInv`: tellings done and sweeps that will still tell are bounded together, and until a marked row has its marker, whoever told of it is still at it, or died, or failed (`TellingsBounded`); the pending e-mails are those some sweep is sending (`MailKept`) |
| `Runtime_proofs!SetSaysWhatIsWaitedFor` | `CronSpec => []RunningIsWaitedFor` | `CronInv`: what is waited for is in the set (`Noted`), what is in the set is waited for (`Attended`), by one run (`Alone`) |
| `...!QueueTyped`, `...!NoWakeUpLost` | `QueueSpec => []QueueTypeOK`, `[]NoJobStranded` | `QueueInv`: the jobs at `pending` are those in the list, each once (`ListedIn`), and who waits has attempts left (`AttemptsIn`), with `NoJobStranded` itself |
| `...!RuntimeHolds` | `Spec` of `MCRuntime` implies `RuntimeTypes`, `RunningIsWaitedFor` and `NoJobStranded` | see below |
| `School_proofs!NoSessionComesBack` | `SessionsSpec => []EndedStaysEnded` | `GrantsKnown`: while the token a granted refresh presented is the one stored, the login it goes back to is the one stored |
| `...!AloneNeverSignedOut` | `SessionsSpec => []AloneNeverRefused` | `SettledAlone`: while one tab is all there is, at most one of its calls refreshes or signs in or out, what it presents or brings is the row's token, and so is the refresh cookie unless a session is on its way to it. `CsrfAlone`: until two calls fetch at once, the CSRF token the tab knows, or the one fetched or arriving, is the cookie's |
| `...!ShelfAgreesWithLoans`, `...!LibraryTyped` | `LibrarySpec => []ShelfAgrees`, `[]LibraryTypeOK` | `CountingAlone`: who counts holds the lock and counts from what the row says; `InHand`: a loan about to be issued is no row yet and takes a copy that is there |
| `...!SchoolHolds` | `Spec` of `MCSchool` implies `SchoolTypes` and the three invariants of its run | see below |
| `Office_proofs!SeriesHaveNoGap`, `...!RetriesAreOvertaken` | `NumbersSpec => []SeriesGapless`, `[]OvertakenEachTime` | `InsertedIsNext`: what is inserted and not committed is one past the series, and alone there; `NumberInReach`: each attempt was lost to a document |
| `...!OneInvoice` | `QuotationSpec => []OneInvoicePerQuotation` | `IssuingAlone`: who issues holds the lock and the total he read is the row's; `ConvertedIsDecided`: what was converted is no draft again |
| `...!FeesTyped`, `...!LedgerFollowsReceipts`, `...!StudentChargedOnce` | `FeesSpec => []FeesTypeOK`, `[]LedgerAgrees`, `[]ChargedOnce` | `FeesInv`: a fee says what was received, and follows it unless a fine raced with a payment (`FeesSound`); a payment under way holds its fee, and the row is as it read it (`PaymentsSound`); a copy the fines task has still to write from differs from its row by what was paid since, or by another round's fines (`CopiesSound`); whoever will insert beside a charge of the same kind is remembered (`ChargesSeen`) |
| `...!OfficeHolds` | `Spec` of `MCOffice` implies `OfficeTypes` and the eight invariants of its run | see below |
| `...!OfficeKeepsToMachine` | with `~Overlap`, `Spec` of `MCOffice` implies both refinements and the lifecycle's action properties | see below |

The hypothesis `~Overlap` is needed: a settlement that commits between the Past Due and the Grace transaction
of a lapse clears the deadline the second one relies on, and the run `stale_sweep` shows a job reviving a row.

**Sums.** An account such as `WalletConserved` is a sum over a set of payments of any size. The lemmas in `Sums`
say what such a sum does when one summand changes, when an element joins, when a set is cut in two, and
that it is never below one of its summands. They need no recursion: a sum of natural numbers is the number of units
it is made of (`SumIsCardinality`), and cardinalities have theorems. That one equation follows from a smallest
counterexample: of the subsets for which it fails one contains no other (`SmallestSubset`), and without one of its
elements it is a subset for which the equation holds.

**Hosts.** A step of a host is a step of the part that is awake, and leaves the variables of the others; so a host's
behaviour is, for each of its parts, a behaviour of that part's own specification (`OfficeIsItsParts`,
`RuntimeIsItsParts`, `SchoolIsItsParts`, `TermIsItsParts`). The host's theorem then combines what is proved of the
parts. This is also why the proofs are arranged by host. It makes the theorems speak of exactly
the specification that the run checks, and it needs what the constants of a host make of the parts' assumptions.

With these, every invariant and every action property of the passing runs is a theorem. Model-checked only are:

- liveness, as the prover has neither fairness nor ENABLED: `NoOverstay`, `CachesConverge`, `TaskComesAround`,
  `EveryJobSettles`, `NoRowLeftBehind`. What safety asks of the same parts is proved: `StaleForCause`, `RunningIsWaitedFor`,
  `NoJobStranded`, `MailAccounted`;
- the properties that the code violates (section 10), which TLC refutes by a behaviour.

## 10 Where the code and its text disagree

Each of these is a run that TLC finds violated; `PROJECT.json` quotes the text.

- **Two open subscriptions** (`two_usable`). `reactivate` takes a Cancelled or Expired row back to Active
  and does not ask, as `create()` does, whether the school has been subscribed again.
- **A downgrade that comes late** (`early_renewal`). `renew()` applies a scheduled change when its date
  has arrived, and not, as its comment has it, also when the period it leaves is the one it was
  scheduled at the end of.
- **A job that revives** (`stale_sweep`). The sweep saves a row from the copy its pass read. An operator
  who suspends the subscription in between sees it Past Due, which is usable, a moment later.
- **Nothing due, and outstanding** (`billing_covered`). An invoice whose credit covers it in full is issued
  as unpaid; nothing can settle it, and it goes overdue.
- **A cancelled invoice that is paid** (`billing_cancelled`). Approving a payment does not ask for the
  state of its invoice.
- **A unit nobody counted** (`usage_uncounted`). When the conditional UPDATE finds no room, the reservation's
  answer is that of a second reading; if a unit came back in between, the caller goes on uncounted.

Others were met while reading and are not runs of their own. They are behaviours of the modules (of
`SubscriptionLifecycle` and `Billing` mostly when `Overlap` is TRUE), and several are what a *history* variable excuses:

- *Subscriptions.* Two concurrent creates both insert, one after the other (of two whose transactions overlap, InnoDB rolls one back).
  Of two rows of one school, one is reactivated while the sweep expires the other: each transaction reads the other's row as it was, the reactivation finds
  the school Active already and waits for nobody, and the sweep then writes the school Expired beside an Active row. It stays
  so until some transaction of the school ends alone (`skewed`). A settlement between the two writes of a lapse leaves
  a Grace row without a deadline. An invoice that falls overdue while its subscription is paused is flagged
  once and not revisited: `resume` leaves it Active. A payment that settles after the period has ended
  changes nothing until the operator renews. Paying one of two overdue invoices reactivates an Expired
  subscription. Setting the length of a trial to 0 removes its end, no pass selects the row, and it is used until an operator looks (`Endless`, which `NoOverstay` leaves out).
  A reactivated trial keeps a trial end in the future, and a pause and resume turn it back into one.
- *Billing.* The check for a live invoice is outside the transaction: the job and the operator bill one period
  twice. `markOverdue()` flags a row that was paid after it was read. A refund's snapshot misses a payment
  approved while it waited. Two cancellations of one invoice return its credit twice. Credit is drawn at
  issue from a stale balance, and a plan change writes an absolute one. These are why `CreditConserved`,
  `AmountsAgree` and `PaidUntilRefunded` are checked one operation at a time.
- *Usage.* Two reactivations of staff pass one free place. An older overage figure may overwrite a newer
  one, and overage is what the invoice bills. A unit given back after a renewal comes off the new period.
- *Caches.* The headers of `entitlementService.js` and `tenantService.js` say that a suspension has to take effect on the next request, not when a time to live
  lapses. A fill that read before the commit and stores after the flush, and a process of its own under the `memory`
  driver, serve the old row for as long as an entry lives: that is what `excused` marks and `AnswersWithinBound` bounds.
- *Scheduler.* A timeout ends the waiting and not the work, so the tick after it runs a second copy beside the first.
- *Queue.* Its header has lost work found again because unsent notifications are re-picked from their table. The sweeps
  look for rows nobody was told about; an e-mail row left pending by a crash has a notification beside it and is picked by
  nothing. `MailAccounted` therefore holds until the first death.
- *Notifications.* The passes for payments and for expiring subscriptions notify the school and then, in a second call, the
  platform; what stops between the two leaves the platform untold, as the row counts as told. The query for payments does not ask, as
  those for results and fees do, whether there is anybody to tell: a payment with no active administrator, of the school or of the platform, is
  selected again by every sweep and spends its limit. Neither the second call nor the pass over payments is modelled.
- *Sessions.* One hash per user means that a login on a second device turns the first one's next refresh into a reuse, which
  ends both sessions. Two tabs share the CSRF cookie and not the copy of it, so the other tab's refresh is refused. A refresh whose
  answer is lost presents the old token next time. A refresh that read the row before a logout and writes after it revives the session (`revived`). `ensureCsrfToken()` looks for a
  cached token before it awaits one, and shares no fetch: a refresh and a POST of one fresh tab fetch one each, the cookie of the
  second meets the header of the first, and the refresh is refused with 403 (`fetchedTwice`).
- *Library.* The header's `quantity - available_quantity` is the copies on loan and also the lost ones. Two librarians who return
  one loan put two copies on the shelf (`twice`).
- *Fees.* A payment made after the fines task read its candidates leaves a fee whose pending amount and status forget it (`raced`).
  Two assignments that check before either inserts charge a month twice (`doubled`), which the comment there admits.
- *Quotations.* A send or a reject that read the row earlier opens an accepted or expired quotation again or closes an accepted one, and a late edit rewrites
  the figures of one that was sent (`rewritten`).
- *Exams.* `enterMarks()` may write into a paper submitted meanwhile (`late`); a late stamp or a second generation takes a published
  exam back to an earlier status, and of two generations that read different classes the later ranks rows the other wrote and it has not seen (`astray`). A pupil who was
  marked on a paper, out of the class when it was submitted and back afterwards, is in no result of it until something recalculates (`arrived`); a pupil who joins after every paper was submitted reaches the branch of
  generation that a comment calls unreachable.

## 11 What is left out

- *Of subscriptions*: limit snapshots, overrides, add-ons, proration amounts, `next_renewal_at`, notices and
  audit rows; month arithmetic (whole units instead); more than one school, between which there is no shared row.
- *Of billing*: lines, tax, currencies, overage, gateway transactions, reminder marks, the validity
  and the restrictions of coupons; what the subscription does after a payment is in the lifecycle module.
- *Of usage*: the mirror rows of head counts, the limit per request, changing allowances, and principals,
  who count as administrators and are asked about by nobody.
- *Of the caches*: what `resolve()` computes from the rows it reads. It reads six tables in turn; the version is that of the oldest.
- *Of the notifications*: texts, channels switched off, reading and deleting, the pass over payments and the second call of that over expiring subscriptions.
- *Of sessions*: lock-out after failed logins, e-mail verification, the reset token, more than one account.
- *Of quotations, fees, library and exams*: lines, structures and receipts as documents, borrowers and due dates,
  grades, question banks and online exams, who may see what.
- *Parts not modelled*: calendar dates and decimal money are pure calculations, whose faults are ones of rounding and of month ends and not of
  order; catalogue, people, classes, attendance, homework, finance, settings and reports are rows written one request at
  a time; backup, PDF, uploads and the API's wiring are input and output.
- *Everywhere*: validation, permissions, tenancy filters, formatting, logging. A transaction is durable,
  and one step unless sections 3 and 4 and the modules' comments split it; elsewhere, that a deadlock makes MySQL abort one of two
  transactions is a handler that stops, which loses nothing a crash would not.

## 12 Plan

Done: subscriptions, billing, usage, caches, scheduler, queue, notifications, document numbers, sessions, quotations, fees, library
and exams, and the theorems of section 9. What is left, in this order:

1. **Overlap**: what of `AmountsAgree`, `CreditConserved` and `GraceHasDeadline` holds when operations overlap, stated with a
   history variable for the race that breaks each (as `LedgerAgrees` and `NoPaperLost` are), and proved.
2. **`BillingDates`**: calendar arithmetic as functions over a small calendar, against a reference definition:
   contiguous periods, and the day of the month they keep.
3. **Composition**: the settlement of `Billing` driving `SubscriptionLifecycle`, so that `owed` is what the
   invoices say; the issue job following a renewal; `NotificationSweep` inside a run of `CronRunner`.
4. **Sessions**: lock-out after failed logins, and the reset token.

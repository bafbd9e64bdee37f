------------------------------ MODULE Billing ------------------------------
(***************************************************************************)
(* The invoices, payments and refunds of one subscription, its credit and  *)
(* its wallet.  The subscription itself appears as the billing periods it  *)
(* may be billed for, and as plan changes that leave credit behind.        *)
(*                                                                         *)
(* Two disciplines meet here.  An operation on an invoice (issue,          *)
(* finalise, cancel, coupon) and a plan change read without a lock, check, *)
(* and open their transaction afterwards: a read step and a write step.    *)
(* Money (submit, record, review) is one transaction under row locks whose *)
(* sums are read once the locks are held: one step.  A refund locks its    *)
(* payment, sums the refunds, and only then waits for the invoice's lock:  *)
(* what it sums over the invoice's payments is the snapshot its first sum  *)
(* opened (InnoDB, REPEATABLE READ), so it is two steps.                   *)
(***************************************************************************)
EXTENDS BillingRules

CONSTANTS
  Requests,        \* concurrent request handlers
  Operations,      \* the operations this instance receives
  Price,           \* what a billing period costs
  Periods,         \* the billing periods an invoice may be issued for
  Amounts,         \* amounts a payment or a refund may be of
  Prorations,      \* <<unused credit, prorated due>> a plan change may compute
  MaxUses,         \* max_uses of the coupon
  OpeningWallet,   \* what refunds of older payments have left in the wallet
  Overlap,         \* may actors interleave inside one another's operations
  MaxInvoices, MaxPayments, MaxDay,     \* bounds, and
  MaxGranted                            \* of the credit granted

AllOperations ==
  {"issue", "finalise", "cancel", "applyCoupon", "removeCoupon", "changePlan",
   "submit", "record", "review", "refund"}

ASSUME BillingAssumption ==
  /\ Operations \subseteq AllOperations
  /\ Price \in Nat \ {0}
  /\ Periods \subseteq Nat \ {0}
  /\ Amounts \subseteq Nat \ {0}
  /\ Prorations \subseteq Nat \X Nat
  /\ MaxUses \in Nat /\ OpeningWallet \in Nat
  /\ Overlap \in BOOLEAN
  /\ MaxInvoices \in Nat /\ MaxPayments \in Nat
  /\ MaxDay \in Nat /\ MaxGranted \in Nat

Invoices == 1 .. MaxInvoices
Payments == 1 .. MaxPayments

VARIABLES
  day,           \* today
  invoice,       \* [Invoices -> Invoice], in id order
  payment,       \* [Payments -> Payment], in id order
  credit,        \* subscriptions.credit_balance
  wallet,        \* subscriptions.wallet_balance
  usedCount,     \* coupons.used_count
  granted,       \* history: the credit plan changes have given, net
  request,       \* what each handler holds between its read and its write
  dunning        \* the invoices invoice-overdue has read and still has to flag

vars == <<day, invoice, payment, credit, wallet, usedCount, granted,
          request, dunning>>

money == <<payment, wallet>>
ledger == <<credit, usedCount, granted>>

(* id is an invoice or, for a refund, a payment; amount the credit or the  *)
(* refund amount read; payments a refund's snapshot of the payments table. *)
Request ==
  [stage: {"idle", "issue", "finalise", "cancel", "applyCoupon", "removeCoupon",
           "changePlan", "refund"},
   id: Nat, read: Invoice, amount: Int, flag: BOOLEAN,
   payments: [Payments -> Payment]]

NoPayments == [p \in Payments |-> AbsentPayment]

Idle == [stage |-> "idle", id |-> 0, read |-> AbsentInvoice, amount |-> 0,
         flag |-> FALSE, payments |-> NoPayments]

TypeOK ==
  /\ day \in 0 .. MaxDay
  /\ invoice \in [Invoices -> Invoice]
  /\ payment \in [Payments -> Payment]
  /\ credit \in Int /\ wallet \in Nat /\ usedCount \in 0 .. MaxUses
  /\ granted \in Int
  /\ request \in [Requests -> Request]
  /\ dunning \subseteq Invoices

Init ==
  /\ day = 0
  /\ invoice = [i \in Invoices |-> AbsentInvoice]
  /\ payment = NoPayments
  /\ credit = 0 /\ wallet = OpeningWallet /\ usedCount = 0 /\ granted = 0
  /\ request = [q \in Requests |-> Idle]
  /\ dunning = {}

-----------------------------------------------------------------------------
MayStart == Overlap \/ (dunning = {} /\ \A q \in Requests : request[q].stage = "idle")

Accepts(q, op) == op \in Operations /\ MayStart /\ request[q].stage = "idle"

Hold(q, held) == request' = [request EXCEPT ![q] = held]
Done(q) == request' = [request EXCEPT ![q] = Idle]

FreeId(rows, i) ==
  /\ rows[i].status = "absent"
  /\ \A j \in DOMAIN rows : j < i => rows[j].status # "absent"

(* Sequelize saves the columns that differ from the copy that was read. *)
Saved(current, read, new) ==
  [f \in DOMAIN current |-> IF new[f] = read[f] THEN current[f] ELSE new[f]]

(* A refund to the wallet holds the lock of the subscription's row. *)
SubscriptionUnlocked ==
  \A q \in Requests : ~(request[q].stage = "refund" /\ request[q].flag)

-----------------------------------------------------------------------------
(* generateForSubscription() and issue().  The invoice-issue job calls the *)
(* same function for the same period, so it is one more handler.           *)

(* Bound: an instance has MaxInvoices ids. *)
RoomForInvoice == \E i \in Invoices : invoice[i].status = "absent"

(* redeem(): the uses are counted under the lock of the coupon's row. *)
CouponLeft == usedCount < MaxUses

Billed(p) == \E i \in Invoices : invoice[i].period = p /\ invoice[i].status \in Live

ReadIssue(q, p, coupon, available) ==
  /\ Accepts(q, "issue")
  /\ ~Billed(p) /\ RoomForInvoice
  /\ Hold(q, [Idle EXCEPT !.stage = "issue", !.id = p, !.amount = available,
                          !.flag = coupon])
  /\ UNCHANGED <<day, invoice, money, ledger, dunning>>

Issue(q) ==
  LET r == request[q]
  IN  /\ r.stage = "issue"
      /\ IF r.flag /\ ~CouponLeft
         THEN UNCHANGED <<invoice, credit, usedCount>>
         ELSE \E i \in Invoices, status \in {"draft", "unpaid"} :
                LET new == NewInvoice(r.id, Price, r.flag, r.amount, status, day)
                IN  /\ FreeId(invoice, i)
                    /\ new.credit_applied > 0 => SubscriptionUnlocked
                    /\ invoice' = [invoice EXCEPT ![i] = new]
                    /\ credit' = credit - new.credit_applied
                    /\ usedCount' = usedCount + new.uses
      /\ Done(q)
      /\ UNCHANGED <<day, money, granted, dunning>>

(* An immediate plan change: what is left of the old plan becomes credit,  *)
(* the rest of the period on the new one is taken from it, and what it     *)
(* does not cover is invoiced in the same transaction.                     *)
ReadChangePlan(q) ==
  /\ Accepts(q, "changePlan") /\ RoomForInvoice
  /\ Hold(q, [Idle EXCEPT !.stage = "changePlan", !.amount = credit])
  /\ UNCHANGED <<day, invoice, money, ledger, dunning>>

ChangePlan(q, unused, due) ==
  LET available == request[q].amount + unused
      applied == Least(available, due)
      balance == available - applied
  IN  /\ request[q].stage = "changePlan"
      /\ SubscriptionUnlocked
      /\ credit' = IF balance = request[q].amount THEN credit ELSE balance
      /\ granted' = granted + unused - applied /\ granted' <= MaxGranted
      /\ IF due = applied
         THEN UNCHANGED invoice
         ELSE \E i \in Invoices :
                /\ FreeId(invoice, i)
                /\ invoice' = [invoice EXCEPT
                     ![i] = NewInvoice(0, due - applied, FALSE, 0, "unpaid", day)]
      /\ Done(q)
      /\ UNCHANGED <<day, money, usedCount, dunning>>

-----------------------------------------------------------------------------
(* Operations on one invoice: the row is read and judged without a lock. *)

ReadInvoice(q, op, i) ==
  /\ Accepts(q, op)
  /\ CASE op = "finalise" -> invoice[i].status = "draft"
       [] op = "cancel" -> CanCancel(invoice[i])
       [] op = "applyCoupon" -> CanApplyCoupon(invoice[i])
       [] op = "removeCoupon" -> CanRemoveCoupon(invoice[i])
  /\ Hold(q, [Idle EXCEPT !.stage = op, !.id = i, !.read = invoice[i]])
  /\ UNCHANGED <<day, invoice, money, ledger, dunning>>

Finalise(q) ==
  LET r == request[q]
  IN  /\ r.stage = "finalise"
      /\ invoice' = [invoice EXCEPT
           ![r.id] = Saved(@, r.read, [r.read EXCEPT !.status = "unpaid"])]
      /\ Done(q)
      /\ UNCHANGED <<day, money, ledger, dunning>>

(* The row with its coupon uses deleted, and what is left of used_count. *)
UsesReleased(inv) == [inv EXCEPT !.uses = 0]

(* Mutant: one use comes off the counter, whatever was deleted. *)
CountReleasedBlindly(inv) == Minus(usedCount, 1)

CountReleased(inv) == IF usedCount >= inv.uses THEN usedCount - inv.uses ELSE usedCount

Cancel(q) ==
  LET r == request[q]
      row == invoice[r.id]
      saved == Saved(row, r.read, CancelledInvoice(r.read))
  IN  /\ r.stage = "cancel"
      /\ r.read.credit_applied > 0 => SubscriptionUnlocked
      /\ credit' = credit + r.read.credit_applied
      /\ IF r.read.coupon
         THEN /\ invoice' = [invoice EXCEPT ![r.id] = UsesReleased(saved)]
              /\ usedCount' = CountReleased(row)
         ELSE /\ invoice' = [invoice EXCEPT ![r.id] = saved]
              /\ UNCHANGED usedCount
      /\ Done(q)
      /\ UNCHANGED <<day, money, granted, dunning>>

(* Mutant: the credit stays with the invoice. *)
ReleasedNothing(read, new) == 0

(* Credit the recomputed invoice no longer needs goes back. *)
Released(read, new) == Minus(read.credit_applied, new.credit_applied)

ApplyCoupon(q) ==
  LET r == request[q]
      new == WithCoupon(r.read, TRUE)
      saved == Saved(invoice[r.id], r.read, new)
  IN  /\ r.stage = "applyCoupon"
      /\ IF ~CouponLeft
         THEN UNCHANGED <<invoice, credit, usedCount>>
         ELSE /\ Released(r.read, new) > 0 => SubscriptionUnlocked
              /\ invoice' = [invoice EXCEPT ![r.id] = [saved EXCEPT !.uses = @ + 1]]
              /\ credit' = credit + Released(r.read, new)
              /\ usedCount' = usedCount + 1
      /\ Done(q)
      /\ UNCHANGED <<day, money, granted, dunning>>

RemoveCoupon(q) ==
  LET r == request[q]
      row == invoice[r.id]
      new == WithCoupon(r.read, FALSE)
  IN  /\ r.stage = "removeCoupon"
      /\ Released(r.read, new) > 0 => SubscriptionUnlocked
      /\ invoice' = [invoice EXCEPT ![r.id] = UsesReleased(Saved(row, r.read, new))]
      /\ credit' = credit + Released(r.read, new)
      /\ usedCount' = CountReleased(row)
      /\ Done(q)
      /\ UNCHANGED <<day, money, granted, dunning>>

-----------------------------------------------------------------------------
(* Money.  Each of these is a transaction that holds the locks of the rows *)
(* it judges. *)

WalletCovers(fromWallet, amount) ==
  fromWallet => SubscriptionUnlocked /\ amount <= wallet

(* Mutant: that was looked at when the payment was submitted. *)
CoveredOnce(row) == row.wallet => SubscriptionUnlocked

(* debitWallet() looks at the balance again, under the lock of its row. *)
StillCovered(row) == WalletCovers(row.wallet, row.amount)

Debited(fromWallet, amount) == IF fromWallet THEN wallet - amount ELSE wallet

NewPayment(i, amount, fromWallet) ==
  [AbsentPayment EXCEPT !.status = "pending", !.invoice = i, !.amount = amount,
                        !.wallet = fromWallet]

(* applyApproved(): the payment, its wallet and its invoice. *)
Approved(p, row) ==
  LET i == row.invoice
  IN  /\ StillCovered(row)
      /\ wallet' = Debited(row.wallet, row.amount)
      /\ payment' = [payment EXCEPT ![p] = [row EXCEPT !.status = "approved"]]
      /\ invoice' = [invoice EXCEPT ![i] = AfterPayment(@, i, payment', day)]

NewPaymentFor(i, p, amount) ==
  invoice[i].status \in Payable /\ FreeId(payment, p) /\ amount \in Amounts

Submit(i, p, amount, fromWallet) ==
  /\ "submit" \in Operations /\ MayStart
  /\ NewPaymentFor(i, p, amount)
  /\ WalletCovers(fromWallet, amount)
  /\ payment' = [payment EXCEPT ![p] = NewPayment(i, amount, fromWallet)]
  /\ UNCHANGED <<day, invoice, wallet, ledger, request, dunning>>

Record(i, p, amount, fromWallet) ==
  /\ "record" \in Operations /\ MayStart
  /\ NewPaymentFor(i, p, amount)
  /\ Approved(p, NewPayment(i, amount, fromWallet))
  /\ UNCHANGED <<day, ledger, request, dunning>>

Approve(p) ==
  /\ "review" \in Operations /\ MayStart
  /\ payment[p].status = "pending"
  /\ Approved(p, payment[p])
  /\ UNCHANGED <<day, ledger, request, dunning>>

Reject(p) ==
  /\ "review" \in Operations /\ MayStart
  /\ payment[p].status = "pending"
  /\ payment' = [payment EXCEPT ![p].status = "rejected"]
  /\ UNCHANGED <<day, invoice, wallet, ledger, request, dunning>>

(* requestRefund() up to the first plain sum: the payment, the refund      *)
(* numbers and, for a refund to the wallet, the subscription are locked.   *)
StartRefund(q, p, amount, toWallet) ==
  /\ Accepts(q, "refund")
  /\ \A r \in Requests : request[r].stage # "refund"
  /\ payment[p].status \in Received
  /\ amount <= Refundable(payment[p])
  /\ payment[p].wallet => toWallet
  /\ Hold(q, [Idle EXCEPT !.stage = "refund", !.id = p, !.amount = amount,
                          !.flag = toWallet,
                          !.payments = [payment EXCEPT
                             ![p] = Refunded(@, amount, toWallet)]])
  /\ UNCHANGED <<day, invoice, money, ledger, dunning>>

(* ... and from the invoice's lock to the commit. *)
FinishRefund(q) ==
  LET r == request[q]
      i == payment[r.id].invoice
  IN  /\ r.stage = "refund"
      /\ payment' = [payment EXCEPT ![r.id] = r.payments[r.id]]
      /\ wallet' = IF r.flag THEN wallet + r.amount ELSE wallet
      /\ invoice' = [invoice EXCEPT ![i] = AfterRefund(@, i, r.payments, day)]
      /\ Done(q)
      /\ UNCHANGED <<day, ledger, dunning>>

-----------------------------------------------------------------------------
(* The invoice-overdue job: markOverdue() reads the candidates and flags   *)
(* them one by one.                                                        *)

ReadOverdue ==
  /\ MayStart /\ dunning = {}
  /\ dunning' = {i \in Invoices : /\ invoice[i].status \in {"unpaid", "partially_paid"}
                                  /\ PastDue(invoice[i], day)}
  /\ UNCHANGED <<day, invoice, money, ledger, request>>

MarkOverdue(i) ==
  /\ i \in dunning /\ \A j \in dunning : i <= j
  /\ invoice' = [invoice EXCEPT ![i].status = "overdue"]
  /\ dunning' = dunning \ {i}
  /\ UNCHANGED <<day, money, ledger, request>>

-----------------------------------------------------------------------------
NextDay ==
  /\ MayStart /\ day < MaxDay
  /\ day' = day + 1
  /\ UNCHANGED <<invoice, money, ledger, request, dunning>>

Handler(q) ==
  \/ \E p \in Periods, coupon \in BOOLEAN, available \in {0, credit} :
       ReadIssue(q, p, coupon, available)       \* apply_credit or not
  \/ ReadChangePlan(q)
  \/ \E op \in {"finalise", "cancel", "applyCoupon", "removeCoupon"}, i \in Invoices :
       ReadInvoice(q, op, i)
  \/ \E p \in Payments, amount \in Amounts, toWallet \in BOOLEAN :
       StartRefund(q, p, amount, toWallet)
  \/ Issue(q) \/ Finalise(q) \/ Cancel(q) \/ ApplyCoupon(q) \/ RemoveCoupon(q)
  \/ \E proration \in Prorations : ChangePlan(q, proration[1], proration[2])
  \/ FinishRefund(q)

Money ==
  \/ \E i \in Invoices, p \in Payments, amount \in Amounts, fromWallet \in BOOLEAN :
       Submit(i, p, amount, fromWallet) \/ Record(i, p, amount, fromWallet)
  \/ \E p \in Payments : Approve(p) \/ Reject(p)

OverdueJob == ReadOverdue \/ \E i \in Invoices : MarkOverdue(i)

Next == (\E q \in Requests : Handler(q)) \/ Money \/ OverdueJob \/ NextDay

Spec == Init /\ [][Next]_vars

-----------------------------------------------------------------------------
(* Properties. *)

(* The figures of every issued invoice agree with the money: amount_paid   *)
(* is the sum of what its payments brought and refunds took back, what is  *)
(* due is the rest after credit, and the status says the same.  Whatever   *)
(* order payments, refunds, coupons and the overdue job come in.           *)
AmountsAgree ==
  \A i \in Invoices :
    LET inv == invoice[i]
        brought == [p \in PaymentsOf(payment, i) |-> Refundable(payment[p])]
    IN  /\ inv.amount_paid = SumFunction(brought)
        /\ inv.status \notin {"absent", "cancelled"} =>
             inv.amount_due = Minus(inv.total, inv.amount_paid + inv.credit_applied)
        /\ inv.status = "paid" => inv.amount_due = 0
        /\ inv.status = "partially_paid" => inv.amount_paid > 0
        /\ inv.status \in {"draft", "unpaid", "refunded"} => inv.amount_paid = 0

(* Credit is neither lost nor made: what plan changes have given is in the *)
(* balance or on an invoice, through cancellations and coupons.            *)
CreditConserved ==
  /\ credit >= 0
  /\ credit + Total(invoice, "credit_applied", Invoices) = granted

(* The wallet is never overdrawn, though several payments that it covered  *)
(* when they were submitted are approved against one balance; and it holds *)
(* what refunds put in it less what wallet payments took.                  *)
WalletConserved ==
  LET fromWallet == {p \in Payments : payment[p].wallet /\ payment[p].status \in Received}
  IN  /\ wallet >= 0
      /\ wallet + Total(payment, "amount", fromWallet) =
           OpeningWallet + Total(payment, "to_wallet", Payments)

(* No more goes back on a payment than came in on it, and its label says   *)
(* how much did.                                                           *)
RefundsWithinPayments ==
  \A p \in Payments :
    LET pay == payment[p]
    IN  /\ pay.refunded_amount <= pay.amount
        /\ pay.status = "refunded" <=> pay.amount > 0 /\ pay.refunded_amount = pay.amount
        /\ pay.status = "partially_refunded" => pay.refunded_amount > 0

(* used_count counts the recorded uses, and Maximum Uses bounds them,      *)
(* though invoices are judged unlocked before a coupon is put on or taken  *)
(* off, or an invoice that carries one is cancelled.                       *)
CouponUsesCounted ==
  /\ usedCount = Total(invoice, "uses", Invoices)
  /\ usedCount <= MaxUses

(* A paid invoice stays paid until money goes back. *)
PaidUntilRefunded ==
  [][\A i \in Invoices :
       invoice[i].status = "paid" /\ invoice'[i].status # "paid"
         => GivenBack(payment', i) > GivenBack(payment, i)]_vars

(* An outstanding invoice is money the school owes. *)
OutstandingIsOwed ==
  \A i \in Invoices : invoice[i].status \in Outstanding => invoice[i].amount_due > 0

(* A cancelled invoice takes no payment: one that was pending when it was  *)
(* cancelled cannot be approved any more.                                  *)
CancelledTakesNoMoney ==
  [][\A i \in Invoices :
       invoice[i].status = "cancelled" => invoice'[i].amount_paid = invoice[i].amount_paid]_vars
=============================================================================

---------------------------- MODULE BillingRules ----------------------------
(***************************************************************************)
(* What invoices.service and payments.service compute: the figures of an   *)
(* invoice, its status after money has arrived or gone back, and the       *)
(* guards of the operations on it.  Pure functions of the rows that were   *)
(* read; Billing decides which copy of a row that is.                      *)
(*                                                                         *)
(* Amounts are whole units.  Tax is part of the subtotal, and the one      *)
(* coupon takes Discount off it.                                           *)
(***************************************************************************)
EXTENDS Integers, FiniteSetsExt

CONSTANTS
  Discount,        \* what the coupon takes off, at most
  DueDays          \* grace_period_days: days from issue to the due date

ASSUME RulesAssumption == Discount \in Nat \ {0} /\ DueDays \in Nat

Statuses ==
  {"draft", "unpaid", "partially_paid", "paid", "overdue", "cancelled", "refunded"}

Outstanding == {"unpaid", "partially_paid", "overdue"}
Payable == Outstanding
Mutable == {"draft", "unpaid"}
Live == Statuses \ {"cancelled"}

Received == {"approved", "partially_refunded", "refunded"}

(* period 0 is the remainder a plan change bills; uses counts the          *)
(* coupon_usages rows that name the invoice.                               *)
Invoice ==
  [status: Statuses \cup {"absent"}, period: Nat, subtotal: Nat, coupon: BOOLEAN,
   total: Nat, credit_applied: Nat, amount_paid: Nat, amount_due: Nat,
   due_date: Nat, uses: Nat]

AbsentInvoice ==
  [status |-> "absent", period |-> 0, subtotal |-> 0, coupon |-> FALSE,
   total |-> 0, credit_applied |-> 0, amount_paid |-> 0, amount_due |-> 0,
   due_date |-> 0, uses |-> 0]

(* to_wallet: the part of refunded_amount whose destination was the wallet *)
Payment ==
  [status: Received \cup {"pending", "rejected", "absent"}, invoice: Nat,
   amount: Nat, refunded_amount: Nat, to_wallet: Nat, wallet: BOOLEAN]

AbsentPayment ==
  [status |-> "absent", invoice |-> 0, amount |-> 0, refunded_amount |-> 0,
   to_wallet |-> 0, wallet |-> FALSE]

(* Mutant: a plain subtraction. *)
Unclamped(a, b) == a - b

Minus(a, b) == IF a > b THEN a - b ELSE 0       \* clampNonNegative(subtract)
Least(a, b) == IF a < b THEN a ELSE b

-----------------------------------------------------------------------------
(* Subtotal, discount, total, credit, due: in this order. *)

Discounted(subtotal, coupon) == IF coupon THEN Minus(subtotal, Discount) ELSE subtotal

WithTotals(inv, credit) ==
  LET total == Discounted(inv.subtotal, inv.coupon)
      outstanding == Minus(total, inv.amount_paid)
      applied == Least(Minus(credit, 0), outstanding)
  IN  [inv EXCEPT !.total = total,
                  !.credit_applied = applied,
                  !.amount_due = outstanding - applied]

NewInvoice(period, subtotal, coupon, credit, status, today) ==
  WithTotals([AbsentInvoice EXCEPT
                !.status = status, !.period = period, !.subtotal = subtotal,
                !.coupon = coupon, !.uses = IF coupon THEN 1 ELSE 0,
                !.due_date = today + DueDays],
             credit)

(* The credit already drawn is all a recompute may use. *)
WithCoupon(inv, coupon) ==
  WithTotals([inv EXCEPT !.coupon = coupon], inv.credit_applied)

CancelledInvoice(inv) ==
  [inv EXCEPT !.status = "cancelled", !.credit_applied = 0, !.amount_due = 0]

(* Mutant: nobody asks whether the invoice was paid. *)
CanCancelPaid(inv) == inv.status \notin {"absent", "cancelled", "refunded"}

CanCancel(inv) == inv.status \notin {"absent", "cancelled", "paid", "refunded"}
                  /\ inv.amount_paid = 0

CanApplyCoupon(inv) == inv.status \in Mutable /\ inv.amount_paid = 0 /\ ~inv.coupon

CanRemoveCoupon(inv) == inv.status \in Mutable /\ inv.amount_paid = 0 /\ inv.coupon

-----------------------------------------------------------------------------
(* Money.  `payments` is the payments table as the transaction sees it.    *)

PaymentsOf(payments, i) ==
  {p \in DOMAIN payments : payments[p].invoice = i /\ payments[p].status \in Received}

(* What a column adds up to over some of the rows of a table. *)
Total(rows, column, ids) == SumFunctionOnSet([r \in ids |-> rows[r][column]], ids)

Arrived(payments, i) == Total(payments, "amount", PaymentsOf(payments, i))

GivenBack(payments, i) == Total(payments, "refunded_amount", PaymentsOf(payments, i))

(* Mutant: the sum leaves out what has been given back. *)
NetReceivedGross(payments, i) == Arrived(payments, i)

NetReceived(payments, i) == Minus(Arrived(payments, i), GivenBack(payments, i))

PastDue(inv, today) == inv.due_date < today

SettledStatus(inv, paid, today) ==
  LET status ==
        IF paid + inv.credit_applied >= inv.total /\ inv.total > 0 THEN "paid"
        ELSE IF paid > 0 THEN "partially_paid"
        ELSE IF inv.status \in {"partially_paid", "paid"} THEN "unpaid"
        ELSE inv.status
  IN  IF status = "unpaid" /\ PastDue(inv, today) THEN "overdue" ELSE status

AfterPayment(inv, i, payments, today) ==
  LET paid == NetReceived(payments, i)
  IN  [inv EXCEPT !.amount_paid = paid,
                  !.amount_due = Minus(inv.total, paid + inv.credit_applied),
                  !.status = SettledStatus(inv, paid, today)]

AfterRefund(inv, i, payments, today) ==
  LET settled == AfterPayment(inv, i, payments, today)
  IN  IF GivenBack(payments, i) > 0 /\ settled.amount_paid = 0
      THEN [settled EXCEPT !.status = "refunded"]
      ELSE settled

(* Mutant: what went back already is not taken off. *)
RefundableInFull(pay) == pay.amount

Refundable(pay) == pay.amount - pay.refunded_amount

Refunded(pay, amount, toWallet) ==
  LET back == pay.refunded_amount + amount
  IN  [pay EXCEPT !.refunded_amount = back,
                  !.to_wallet = IF toWallet THEN @ + amount ELSE @,
                  !.status = IF back >= pay.amount THEN "refunded"
                             ELSE "partially_refunded"]

=============================================================================

--------------------------- MODULE Billing_proofs ---------------------------
(***************************************************************************)
(* What Billing guarantees for any number of invoices, payments, handlers, *)
(* amounts and plan changes.  Books is the inductive invariant that holds  *)
(* however operations overlap: types, the wallet, the refunds of a payment *)
(* and the uses of the coupon rest on it.  Serial adds what holds when one *)
(* operation is under way at a time, and the figures of an invoice and the *)
(* credit rest on both.                                                    *)
(***************************************************************************)
EXTENDS Billing, Sums

-----------------------------------------------------------------------------
InvoiceOperations == {"finalise", "cancel", "applyCoupon", "removeCoupon"}

(* A row that is not there yet is blank. *)
InvoicesSound ==
  \A i \in Invoices : invoice[i].status = "absent" => invoice[i] = AbsentInvoice

(* A payment is for an invoice that exists; what went back on it agrees    *)
(* with its status.                                                        *)
PaymentsSound ==
  \A p \in Payments :
    LET pay == payment[p]
    IN  /\ pay.status = "absent" => pay = AbsentPayment
        /\ pay.status # "absent" =>
             /\ pay.amount > 0 /\ pay.invoice \in Invoices
             /\ invoice[pay.invoice].status # "absent"
        /\ pay.status \in {"pending", "approved", "rejected"} => pay.refunded_amount = 0
        /\ pay.status = "partially_refunded" =>
             0 < pay.refunded_amount /\ pay.refunded_amount < pay.amount
        /\ pay.status = "refunded" => pay.refunded_amount = pay.amount

(* An operation holds an invoice that exists. *)
HoldersSound ==
  /\ \A q \in Requests :
       request[q].stage \in InvoiceOperations =>
         /\ request[q].id \in Invoices
         /\ invoice[request[q].id].status # "absent"
         /\ request[q].read.status # "absent"
  /\ \A i \in dunning : invoice[i].status # "absent"

(* The one refund under way is of a payment that stays as it was locked. *)
RefundsSound ==
  /\ \A q, r \in Requests : request[q].stage = "refund" /\ request[r].stage = "refund" => q = r
  /\ \A q \in Requests :
       LET r == request[q]
       IN  r.stage = "refund" =>
             /\ r.id \in Payments /\ r.amount \in Amounts
             /\ payment[r.id].status \in Received
             /\ r.amount <= Refundable(payment[r.id])
             /\ r.payments[r.id] = Refunded(payment[r.id], r.amount, r.flag)

Books == TypeOK /\ InvoicesSound /\ PaymentsSound /\ HoldersSound /\ RefundsSound

(* One operation at a time, and nothing moves under it. *)
Alone ==
  /\ \A q, r \in Requests : request[q].stage # "idle" /\ request[r].stage # "idle" => q = r
  /\ \A q \in Requests : request[q].stage # "idle" => dunning = {}
  /\ \A i \in dunning : invoice[i].status \in {"unpaid", "partially_paid"}

(* What an operation has read is what there is, and was judged. *)
Current ==
  \A q \in Requests :
    LET r == request[q]
    IN  /\ r.stage \in InvoiceOperations => r.read = invoice[r.id]
        /\ r.stage = "finalise" => r.read.status = "draft"
        /\ r.stage = "cancel" => CanCancel(r.read)
        /\ r.stage = "applyCoupon" => CanApplyCoupon(r.read)
        /\ r.stage = "removeCoupon" => CanRemoveCoupon(r.read)
        /\ r.stage = "issue" => r.amount \in {0, credit}
        /\ r.stage = "changePlan" => r.amount = credit
        /\ r.stage = "refund" =>
             r.payments = [payment EXCEPT ![r.id] = Refunded(@, r.amount, r.flag)]

PaidForSomething == \A i \in Invoices : invoice[i].status = "paid" => invoice[i].total > 0

Serial == Alone /\ Current /\ PaidForSomething

-----------------------------------------------------------------------------
(* Rows. *)

(* What is left of a subtraction is never negative. *)
LEMMA MinusNat ==
  ASSUME NEW a \in Int, NEW b \in Int
  PROVE  /\ Minus(a, b) \in Nat
         /\ a >= b => Minus(a, b) = a - b
         /\ a <= b => Minus(a, b) = 0
BY DEF Minus

(* computeTotals() leaves the other columns alone, and applies no more     *)
(* credit than there is and than the invoice needs.                        *)
LEMMA TotalsComputed ==
  ASSUME NEW inv \in Invoice, NEW available \in Int
  PROVE  LET new == WithTotals(inv, available)
         IN  /\ new \in Invoice
             /\ new = [inv EXCEPT !.total = new.total,
                                  !.credit_applied = new.credit_applied,
                                  !.amount_due = new.amount_due]
             /\ new.status = inv.status /\ new.uses = inv.uses
             /\ new.amount_paid = inv.amount_paid
             /\ new.credit_applied <= Minus(available, 0)
             /\ new.amount_due =
                  Minus(new.total, new.amount_paid + new.credit_applied)
<1> DEFINE total == Discounted(inv.subtotal, inv.coupon)
           outstanding == Minus(total, inv.amount_paid)
           applied == Least(Minus(available, 0), outstanding)
<1>1. inv.subtotal \in Nat /\ inv.amount_paid \in Nat /\ inv.coupon \in BOOLEAN
  BY DEF Invoice
<1>2. total \in Nat
  BY <1>1, RulesAssumption DEF Discounted, Minus
<1>3. outstanding \in Nat /\ Minus(available, 0) \in Nat
  <2> HIDE DEF total
  <2> QED BY <1>1, <1>2 DEF Minus
<1>4. applied \in Nat /\ applied <= Minus(available, 0) /\ applied <= outstanding
  BY <1>3 DEF Least
<1>5. WithTotals(inv, available) =
        [inv EXCEPT !.total = total, !.credit_applied = applied,
                    !.amount_due = outstanding - applied]
  BY DEF WithTotals
<1>6. outstanding - applied = Minus(total, inv.amount_paid + applied)
  BY <1>1, <1>2, <1>4 DEF Minus
<1>7. outstanding - applied \in Nat
  BY <1>3, <1>4
<1> HIDE DEF total, outstanding, applied
<1>8. QED BY <1>2, <1>4, <1>5, <1>6, <1>7 DEF Invoice

(* A blank row and a new invoice are rows. *)
LEMMA NewRows ==
  /\ AbsentInvoice \in Invoice /\ AbsentPayment \in Payment
  /\ NoPayments \in [Payments -> Payment] /\ Idle \in Request
<1>1. AbsentInvoice \in Invoice
  BY DEF AbsentInvoice, Invoice, Statuses
<1>2. AbsentPayment \in Payment
  BY DEF AbsentPayment, Payment, Received
<1>3. NoPayments \in [Payments -> Payment]
  BY <1>2 DEF NoPayments
<1>4. QED BY <1>1, <1>2, <1>3 DEF Idle, Request

(* What issue() gives: nothing paid yet, and no more credit than there is. *)
Issued(new, available) ==
  /\ new \in Invoice /\ new.status \in {"draft", "unpaid"} /\ new.amount_paid = 0
  /\ new.credit_applied <= Minus(available, 0)
  /\ new.amount_due = Minus(new.total, new.credit_applied)

(* issue() *)
LEMMA InvoiceIssued ==
  ASSUME NEW p \in Nat, NEW subtotal \in Nat, NEW coupon \in BOOLEAN,
         NEW available \in Int, NEW status \in {"draft", "unpaid"}, NEW today \in Nat
  PROVE  LET new == NewInvoice(p, subtotal, coupon, available, status, today)
         IN  new \in Invoice /\ Issued(new, available)
<1> DEFINE uses == IF coupon THEN 1 ELSE 0
           due == today + DueDays
           blank == [AbsentInvoice EXCEPT
                      !.status = status, !.period = p, !.subtotal = subtotal,
                      !.coupon = coupon, !.uses = uses, !.due_date = due]
<1>0. uses \in Nat /\ due \in Nat
  BY RulesAssumption
<1>2. NewInvoice(p, subtotal, coupon, available, status, today) = WithTotals(blank, available)
  BY DEF NewInvoice
<1>1. /\ blank \in Invoice /\ blank.status = status /\ blank.amount_paid = 0
      /\ blank.uses = uses
  <2> HIDE DEF uses, due
  <2> QED BY <1>0 DEF AbsentInvoice, Invoice, Statuses
<1> DEFINE new == WithTotals(blank, available)
<1>3. /\ new \in Invoice /\ new.status = blank.status /\ new.uses = blank.uses
      /\ new.amount_paid = blank.amount_paid
      /\ new.credit_applied <= Minus(available, 0)
      /\ new.amount_due = Minus(new.total, new.amount_paid + new.credit_applied)
  <2> HIDE DEF blank
  <2> QED BY <1>1, TotalsComputed
<1> HIDE DEF new, blank
<1>4. new.credit_applied \in Nat
  BY <1>3 DEF Invoice
<1>5. Issued(new, available)
  BY <1>1, <1>3, <1>4 DEF Issued
<1>6. QED BY <1>2, <1>3, <1>5 DEF new

(* A save writes the columns that changed, and leaves the others as they   *)
(* have become since.                                                      *)
LEMMA SavedRow ==
  ASSUME NEW current \in Invoice, NEW read \in Invoice, NEW new \in Invoice
  PROVE  LET row == Saved(current, read, new)
         IN  /\ row \in Invoice
             /\ row.status = IF new.status = read.status THEN current.status ELSE new.status
             /\ row.uses = IF new.uses = read.uses THEN current.uses ELSE new.uses
             /\ current = read => row = new
<1>1. DOMAIN current = DOMAIN new
  BY DEF Invoice
<1>2. Saved(current, read, new) \in Invoice
  BY DEF Saved, Invoice
<1>3. current = read => Saved(current, read, new) = new
  <2> SUFFICES ASSUME current = read PROVE Saved(current, read, new) = new
    OBVIOUS
  <2>1. \A f \in DOMAIN new : Saved(current, read, new)[f] = new[f]
    BY <1>1 DEF Saved
  <2>2. DOMAIN Saved(current, read, new) = DOMAIN new
    BY <1>1 DEF Saved
  <2>3. Saved(current, read, new) = [f \in DOMAIN current |-> Saved(current, read, new)[f]]
    BY Zenon DEF Saved
  <2>4. new = [f \in DOMAIN new |-> new[f]]
    BY DEF Invoice
  <2>5. QED BY <1>1, <2>1, <2>3, <2>4
<1>4. QED BY <1>2, <1>3 DEF Saved, Invoice

-----------------------------------------------------------------------------
(* Columns and what they add up to. *)

(* Ids are finitely many. *)
LEMMA IdsFinite ==
  /\ IsFiniteSet(Invoices) /\ IsFiniteSet(Payments)
  /\ \A S \in SUBSET Payments : IsFiniteSet(S)
<1>1. IsFiniteSet(Invoices) /\ IsFiniteSet(Payments)
  BY BillingAssumption, FS_Interval DEF Invoices, Payments
<1>2. QED BY <1>1, FS_Subset

(* A column of natural numbers adds up to one, and to no less than any row *)
(* has in it.                                                              *)
LEMMA TotalInNat ==
  ASSUME NEW rows, NEW column, NEW ids, IsFiniteSet(ids),
         \A r \in ids : rows[r][column] \in Nat
  PROVE  /\ Total(rows, column, ids) \in Nat
         /\ \A r \in ids : rows[r][column] <= Total(rows, column, ids)
<1> DEFINE f == [r \in ids |-> rows[r][column]]
<1>1. \A r \in ids : f[r] \in Nat
  OBVIOUS
<1>2. Total(rows, column, ids) = SumFunctionOnSet(f, ids)
  BY DEF Total
<1>3. SumFunctionOnSet(f, ids) \in Nat
  <2> HIDE DEF f
  <2> QED BY <1>1, SumInNat
<1>4. ASSUME NEW r \in ids PROVE f[r] <= SumFunctionOnSet(f, ids)
  <2> HIDE DEF f
  <2> QED BY <1>1, SumAtLeastOne
<1>5. QED BY <1>2, <1>3, <1>4

(* A column of zeros. *)
LEMMA TotalOfZeros ==
  ASSUME NEW rows, NEW column, NEW ids, IsFiniteSet(ids),
         \A r \in ids : rows[r][column] = 0
  PROVE  Total(rows, column, ids) = 0
<1> DEFINE f == [r \in ids |-> rows[r][column]]
<1>1. \A r \in ids : f[r] = 0
  OBVIOUS
<1> HIDE DEF f
<1>2. SumFunctionOnSet(f, ids) = 0
  BY <1>1, SumOfZeros
<1>3. QED BY <1>2 DEF f, Total

(* Two tables with the same column have the same total. *)
LEMMA TotalOfSame ==
  ASSUME NEW rows, NEW others, NEW column, NEW ids, IsFiniteSet(ids),
         \A r \in ids : rows[r][column] \in Nat /\ others[r][column] = rows[r][column]
  PROVE  Total(others, column, ids) = Total(rows, column, ids)
<1>1. [r \in ids |-> others[r][column]] = [r \in ids |-> rows[r][column]]
  OBVIOUS
<1>2. QED BY <1>1, Zenon DEF Total

(* A row that changes changes the total by as much. *)
LEMMA TotalOfChanged ==
  ASSUME NEW rows, NEW others, NEW column, NEW ids, IsFiniteSet(ids), NEW x \in ids,
         \A r \in ids : rows[r][column] \in Nat /\ others[r][column] \in Nat,
         \A r \in ids \ {x} : others[r][column] = rows[r][column]
  PROVE  Total(others, column, ids) =
           Total(rows, column, ids) - rows[x][column] + others[x][column]
<1> DEFINE f == [r \in ids |-> rows[r][column]]
           g == [r \in ids |-> others[r][column]]
<1>1. /\ \A r \in ids : f[r] \in Nat /\ g[r] \in Nat
      /\ \A r \in ids \ {x} : g[r] = f[r]
      /\ f[x] = rows[x][column] /\ g[x] = others[x][column]
  OBVIOUS
<1>2. SumFunctionOnSet(g, ids) = SumFunctionOnSet(f, ids) - f[x] + g[x]
  <2> HIDE DEF f, g
  <2> QED BY <1>1, SumOfChanged
<1>3. QED BY <1>1, <1>2 DEF Total

(* A row more adds what it has in the column. *)
LEMMA TotalOfOneMore ==
  ASSUME NEW rows, NEW others, NEW column, NEW ids, IsFiniteSet(ids), NEW x, x \notin ids,
         \A r \in ids : rows[r][column] \in Nat /\ others[r][column] = rows[r][column],
         others[x][column] \in Nat
  PROVE  Total(others, column, ids \cup {x}) =
           Total(rows, column, ids) + others[x][column]
<1> DEFINE f == [r \in ids |-> rows[r][column]]
           g == [r \in ids \cup {x} |-> others[r][column]]
<1>1. /\ \A r \in ids : f[r] \in Nat /\ g[r] = f[r]
      /\ \A r \in ids : g[r] \in Nat
      /\ g[x] = others[x][column] /\ g[x] \in Nat
  OBVIOUS
<1>2. SumFunctionOnSet(g, ids \cup {x}) = SumFunctionOnSet(g, ids) + g[x]
  <2> HIDE DEF g
  <2> QED BY <1>1, SumOfOneMore
<1>3. SumFunctionOnSet(g, ids) = SumFunctionOnSet(f, ids)
  <2> HIDE DEF f, g
  <2> QED BY <1>1, SumOfSame
<1>4. QED BY <1>1, <1>2, <1>3 DEF Total

(* What arrived on an invoice and what went back are natural numbers; so   *)
(* is what is left of it.                                                  *)
LEMMA NetReceivedNat ==
  ASSUME NEW rows \in [Payments -> Payment], NEW i
  PROVE  /\ PaymentsOf(rows, i) \subseteq Payments
         /\ IsFiniteSet(PaymentsOf(rows, i))
         /\ \A p \in PaymentsOf(rows, i) :
              rows[p]["amount"] \in Nat /\ rows[p]["refunded_amount"] \in Nat
         /\ Arrived(rows, i) \in Nat /\ GivenBack(rows, i) \in Nat
         /\ NetReceived(rows, i) \in Nat
<1>1. PaymentsOf(rows, i) \subseteq Payments
  BY DEF PaymentsOf
<1>2. IsFiniteSet(PaymentsOf(rows, i))
  BY <1>1, IdsFinite
<1>3. \A p \in PaymentsOf(rows, i) :
        rows[p]["amount"] \in Nat /\ rows[p]["refunded_amount"] \in Nat
  BY <1>1 DEF Payment
<1>4. Arrived(rows, i) \in Nat
  BY <1>2, <1>3, TotalInNat DEF Arrived
<1>5. GivenBack(rows, i) \in Nat
  BY <1>2, <1>3, TotalInNat DEF GivenBack
<1>6. QED BY <1>1, <1>2, <1>3, <1>4, <1>5 DEF NetReceived, Minus

(* applyPayment() and applyRefund() give an invoice that exists figures    *)
(* and a status; they leave its coupon and its credit alone.               *)
LEMMA MoneyApplied ==
  ASSUME NEW rows \in [Payments -> Payment], NEW i, NEW inv \in Invoice,
         NEW today \in Nat
  PROVE  \A new \in {AfterPayment(inv, i, rows, today), AfterRefund(inv, i, rows, today)} :
           /\ new \in Invoice
           /\ inv.status # "absent" => new.status # "absent"
           /\ new.uses = inv.uses /\ new.credit_applied = inv.credit_applied
<1> DEFINE paid == NetReceived(rows, i)
           new == AfterPayment(inv, i, rows, today)
<1>1. paid \in Nat
  BY NetReceivedNat
<1>2. Minus(inv.total, paid + inv.credit_applied) \in Nat
  BY <1>1 DEF Invoice, Minus
<1>3. /\ SettledStatus(inv, paid, today) \in Statuses \cup {"absent"}
      /\ inv.status # "absent" => SettledStatus(inv, paid, today) # "absent"
  BY DEF SettledStatus, Invoice, Statuses
<1>4. new = [inv EXCEPT !.amount_paid = paid,
                        !.amount_due = Minus(inv.total, paid + inv.credit_applied),
                        !.status = SettledStatus(inv, paid, today)]
  BY DEF AfterPayment
<1> HIDE DEF paid, new
<1>5. /\ new \in Invoice
      /\ inv.status # "absent" => new.status # "absent"
      /\ new.uses = inv.uses /\ new.credit_applied = inv.credit_applied
  BY <1>1, <1>2, <1>3, <1>4 DEF Invoice
<1> DEFINE back == AfterRefund(inv, i, rows, today)
<1>6. back = new \/ back = [new EXCEPT !.status = "refunded"]
  BY DEF AfterRefund, new
<1>7. /\ back \in Invoice
      /\ inv.status # "absent" => back.status # "absent"
      /\ back.uses = inv.uses /\ back.credit_applied = inv.credit_applied
  <2> HIDE DEF back
  <2> QED BY <1>5, <1>6 DEF Invoice, Statuses
<1>8. QED BY <1>5, <1>7 DEF new

-----------------------------------------------------------------------------
(* Books is inductive. *)

(* Nothing exists at first. *)
LEMMA BooksInit ==
  ASSUME Init
  PROVE  Books
<1>1. TypeOK
  BY BillingAssumption, NewRows DEF Init, TypeOK
<1>2. InvoicesSound
  BY DEF Init, InvoicesSound
<1>3. PaymentsSound
  BY DEF Init, PaymentsSound, NoPayments, AbsentPayment
<1>4. HoldersSound /\ RefundsSound
  BY DEF Init, HoldersSound, RefundsSound, Idle, InvoiceOperations
<1>5. QED BY <1>1, <1>2, <1>3, <1>4 DEF Books

(* What a step may do to the rows and the handlers without touching a      *)
(* payment: write one invoice that is there afterwards, and set down what  *)
(* handlers hold.                                                          *)
InvoiceStep ==
  /\ invoice' \in [Invoices -> Invoice]
  /\ \A i \in Invoices : invoice'[i] = invoice[i] \/ invoice'[i].status # "absent"
  /\ \A q \in Requests : request'[q] \in {request[q], Idle}
  /\ dunning' \subseteq dunning
  /\ UNCHANGED payment

(* Such a step leaves everything but the types to see to. *)
LEMMA InvoiceStepSound ==
  ASSUME Books, InvoiceStep
  PROVE  InvoicesSound' /\ PaymentsSound' /\ HoldersSound' /\ RefundsSound'
<1>0. /\ \A i \in Invoices : invoice[i].status # "absent" => invoice'[i].status # "absent"
      /\ dunning \subseteq Invoices /\ dunning' \subseteq dunning
      /\ payment' = payment /\ payment \in [Payments -> Payment]
      /\ \A q \in Requests : request'[q] \in {request[q], Idle}
  BY DEF Books, TypeOK, InvoiceStep
<1>1. InvoicesSound'
  BY DEF Books, InvoicesSound, InvoiceStep
<1>2. PaymentsSound'
  BY <1>0 DEF Books, PaymentsSound
<1>3. HoldersSound'
  BY <1>0 DEF Books, HoldersSound, Idle, InvoiceOperations
<1>4. RefundsSound'
  BY <1>0 DEF Books, RefundsSound, Idle
<1>5. QED BY <1>1, <1>2, <1>3, <1>4

(* A handler that is done holds nothing. *)
LEMMA DoneHolds ==
  ASSUME Books, NEW q \in Requests, Done(q)
  PROVE  /\ request' \in [Requests -> Request]
         /\ \A r \in Requests : request'[r] \in {request[r], Idle}
BY NewRows DEF Books, TypeOK, Done

(* An operation on an invoice holds an invoice that exists. *)
LEMMA HeldInvoice ==
  ASSUME Books, NEW q \in Requests, request[q].stage \in InvoiceOperations
  PROVE  /\ request[q].id \in Invoices /\ request[q].read \in Invoice
         /\ invoice[request[q].id] \in Invoice
         /\ invoice[request[q].id].status # "absent"
         /\ request[q].read.status # "absent"
BY DEF Books, TypeOK, HoldersSound, Request

(* A handler that reads sets nothing but what it holds. *)
LEMMA ReadsBooks ==
  ASSUME Books, NEW q \in Requests,
         \/ \E p \in Periods, coupon \in BOOLEAN, available \in {0, credit} :
              ReadIssue(q, p, coupon, available)
         \/ ReadChangePlan(q)
         \/ \E op \in InvoiceOperations, i \in Invoices : ReadInvoice(q, op, i)
  PROVE  Books'
<1>1. UNCHANGED <<day, invoice, payment, wallet, credit, usedCount, granted, dunning>>
  BY DEF ReadIssue, ReadChangePlan, ReadInvoice, money, ledger
<1>2. PICK held \in Request :
        /\ request' = [request EXCEPT ![q] = held]
        /\ held.stage # "refund"
        /\ held.stage \in InvoiceOperations =>
             /\ held.id \in Invoices /\ held.read = invoice[held.id]
             /\ invoice[held.id].status # "absent"
  <2>1. CASE \E p \in Periods, coupon \in BOOLEAN, available \in {0, credit} :
               ReadIssue(q, p, coupon, available)
    <3>1. PICK p \in Periods, coupon \in BOOLEAN, available \in {0, credit} :
            ReadIssue(q, p, coupon, available)
      BY <2>1
    <3>2. p \in Nat /\ available \in Int
      BY BillingAssumption DEF Books, TypeOK
    <3> DEFINE held == [Idle EXCEPT !.stage = "issue", !.id = p, !.amount = available,
                                    !.flag = coupon]
    <3>3. request' = [request EXCEPT ![q] = held]
      BY <3>1 DEF ReadIssue, Hold
    <3>4. held \in Request /\ held.stage = "issue"
      BY <3>2, NewRows DEF Idle, Request
    <3>5. QED BY <3>3, <3>4 DEF InvoiceOperations
  <2>2. CASE ReadChangePlan(q)
    <3>1. credit \in Int
      BY DEF Books, TypeOK
    <3> DEFINE held == [Idle EXCEPT !.stage = "changePlan", !.amount = credit]
    <3>2. request' = [request EXCEPT ![q] = held]
      BY <2>2 DEF ReadChangePlan, Hold
    <3>3. held \in Request /\ held.stage = "changePlan"
      BY <3>1, NewRows DEF Idle, Request
    <3>4. QED BY <3>2, <3>3 DEF InvoiceOperations
  <2>3. CASE \E op \in InvoiceOperations, i \in Invoices : ReadInvoice(q, op, i)
    <3>1. PICK op \in InvoiceOperations, i \in Invoices : ReadInvoice(q, op, i)
      BY <2>3
    <3>2. invoice[i] \in Invoice /\ i \in Nat
      BY DEF Books, TypeOK, Invoices
    <3>3. invoice[i].status # "absent"
      BY <3>1 DEF ReadInvoice, InvoiceOperations, CanCancel, CanApplyCoupon,
                  CanRemoveCoupon, Mutable
    <3> DEFINE held == [Idle EXCEPT !.stage = op, !.id = i, !.read = invoice[i]]
    <3>4. request' = [request EXCEPT ![q] = held]
      BY <3>1 DEF ReadInvoice, Hold
    <3>5. held \in Request /\ held.stage = op /\ held.id = i /\ held.read = invoice[i]
      BY <3>2, NewRows DEF Idle, Request, InvoiceOperations
    <3>6. QED BY <3>3, <3>4, <3>5 DEF InvoiceOperations
  <2>4. QED BY <2>1, <2>2, <2>3
<1>3. TypeOK'
  BY <1>1, <1>2 DEF Books, TypeOK
<1>4. InvoicesSound' /\ PaymentsSound'
  BY <1>1 DEF Books, InvoicesSound, PaymentsSound
<1>5. HoldersSound'
  BY <1>1, <1>2 DEF Books, TypeOK, HoldersSound
<1>6. RefundsSound'
  <2>1. \A r \in Requests : request'[r].stage = "refund" => request'[r] = request[r]
    BY <1>2 DEF Books, TypeOK
  <2>2. QED BY <1>1, <2>1 DEF Books, RefundsSound
<1>7. QED BY <1>3, <1>4, <1>5, <1>6 DEF Books

(* issue() *)
LEMMA IssueBooks ==
  ASSUME Books, NEW q \in Requests, Issue(q)
  PROVE  Books'
<1> DEFINE r == request[q]
<1>1. Done(q) /\ UNCHANGED <<day, payment, wallet, granted, dunning>>
  BY DEF Issue, money
<1>2. /\ r \in Request /\ day \in Nat /\ credit \in Int /\ usedCount \in 0 .. MaxUses
      /\ Price \in Nat /\ MaxUses \in Nat /\ invoice \in [Invoices -> Invoice]
  BY BillingAssumption DEF Books, TypeOK
<1>3. /\ invoice' \in [Invoices -> Invoice]
      /\ \A i \in Invoices : invoice'[i] = invoice[i] \/ invoice'[i].status # "absent"
      /\ credit' \in Int /\ usedCount' \in 0 .. MaxUses
  <2>1. CASE UNCHANGED <<invoice, credit, usedCount>>
    BY <1>2, <2>1
  <2>2. CASE ~ (r.flag /\ ~CouponLeft)
    <3>1. PICK i \in Invoices, status \in {"draft", "unpaid"} :
            LET new == NewInvoice(r.id, Price, r.flag, r.amount, status, day)
            IN  /\ invoice' = [invoice EXCEPT ![i] = new]
                /\ credit' = credit - new.credit_applied
                /\ usedCount' = usedCount + new.uses
      BY <2>2 DEF Issue
    <3> DEFINE new == NewInvoice(r.id, Price, r.flag, r.amount, status, day)
    <3>2. r.id \in Nat /\ r.flag \in BOOLEAN /\ r.amount \in Int
      BY <1>2 DEF Request
    <3>3. /\ new \in Invoice /\ new.status = status
          /\ new.uses = IF r.flag THEN 1 ELSE 0
      <4> HIDE DEF r
      <4>1. new \in Invoice
        BY <1>2, <3>2, InvoiceIssued
      <4>2. new.status = status /\ new.uses = IF r.flag THEN 1 ELSE 0
        BY <3>2 DEF NewInvoice, WithTotals, AbsentInvoice
      <4>3. QED BY <4>1, <4>2
    <3> HIDE DEF new, r
    <3>4. new.credit_applied \in Nat /\ new.status # "absent"
      BY <3>3 DEF Invoice
    <3>5. usedCount + new.uses \in 0 .. MaxUses
      BY <1>2, <2>2, <3>2, <3>3 DEF CouponLeft
    <3>6. QED BY <1>2, <3>1, <3>3, <3>4, <3>5 DEF new
  <2>3. QED BY <2>1, <2>2 DEF Issue
<1>4. InvoiceStep
  BY <1>1, <1>3, DoneHolds DEF InvoiceStep
<1>5. TypeOK'
  BY <1>1, <1>3, DoneHolds DEF Books, TypeOK
<1>6. QED BY <1>4, <1>5, InvoiceStepSound DEF Books

(* finalise() *)
LEMMA FinaliseBooks ==
  ASSUME Books, NEW q \in Requests, Finalise(q)
  PROVE  Books'
<1> DEFINE r == request[q]
           new == [r.read EXCEPT !.status = "unpaid"]
           saved == Saved(invoice[r.id], r.read, new)
<1>1. /\ Done(q) /\ UNCHANGED <<day, payment, wallet, credit, usedCount, granted, dunning>>
      /\ r.stage \in InvoiceOperations /\ invoice' = [invoice EXCEPT ![r.id] = saved]
  BY DEF Finalise, money, ledger, InvoiceOperations
<1>2. /\ r.id \in Invoices /\ r.read \in Invoice /\ invoice[r.id] \in Invoice
      /\ invoice[r.id].status # "absent"
  BY <1>1, HeldInvoice
<1>3. new \in Invoice /\ new.status = "unpaid"
  BY <1>2 DEF Invoice, Statuses
<1>4. saved \in Invoice /\ saved.status # "absent"
  <2> HIDE DEF r, new
  <2> QED BY <1>2, <1>3, SavedRow
<1> HIDE DEF r, new, saved
<1>5. InvoiceStep
  BY <1>1, <1>2, <1>4, DoneHolds DEF InvoiceStep, Books, TypeOK
<1>6. TypeOK'
  BY <1>1, <1>2, <1>4, DoneHolds DEF Books, TypeOK
<1>7. QED BY <1>5, <1>6, InvoiceStepSound DEF Books

(* A coupon's counter never goes below zero. *)
LEMMA CountReleasedInRange ==
  ASSUME Books, NEW inv \in Invoice
  PROVE  CountReleased(inv) \in 0 .. MaxUses
BY BillingAssumption DEF Books, TypeOK, CountReleased, Invoice

(* cancel() *)
LEMMA CancelBooks ==
  ASSUME Books, NEW q \in Requests, Cancel(q)
  PROVE  Books'
<1> DEFINE r == request[q]
           new == CancelledInvoice(r.read)
           saved == Saved(invoice[r.id], r.read, new)
<1>1. /\ Done(q) /\ UNCHANGED <<day, payment, wallet, granted, dunning>>
      /\ r.stage \in InvoiceOperations
      /\ credit' = credit + r.read.credit_applied
      /\ \/ /\ invoice' = [invoice EXCEPT ![r.id] = UsesReleased(saved)]
            /\ usedCount' = CountReleased(invoice[r.id])
         \/ /\ invoice' = [invoice EXCEPT ![r.id] = saved]
            /\ usedCount' = usedCount
  BY DEF Cancel, money, InvoiceOperations
<1>2. /\ r.id \in Invoices /\ r.read \in Invoice /\ invoice[r.id] \in Invoice
      /\ invoice[r.id].status # "absent"
  BY <1>1, HeldInvoice
<1>3. new \in Invoice /\ new.status = "cancelled"
  BY <1>2 DEF Invoice, Statuses, CancelledInvoice
<1>4. saved \in Invoice /\ saved.status # "absent"
  <2> HIDE DEF r, new
  <2> QED BY <1>2, <1>3, SavedRow
<1>5. credit + r.read.credit_applied \in Int
  BY <1>2 DEF Books, TypeOK, Invoice
<1> HIDE DEF r, new, saved
<1>6. UsesReleased(saved) \in Invoice /\ UsesReleased(saved).status # "absent"
  BY <1>4 DEF UsesReleased, Invoice
<1>7. usedCount' \in 0 .. MaxUses
  BY <1>1, <1>2, CountReleasedInRange DEF Books, TypeOK
<1>8. InvoiceStep
  BY <1>1, <1>2, <1>4, <1>6, DoneHolds DEF InvoiceStep, Books, TypeOK
<1>9. TypeOK'
  BY <1>1, <1>2, <1>4, <1>5, <1>6, <1>7, DoneHolds DEF Books, TypeOK
<1>10. QED BY <1>8, <1>9, InvoiceStepSound DEF Books

(* recompute() gives a row, with the status and the uses it had. *)
LEMMA Recomputed ==
  ASSUME NEW read \in Invoice, NEW coupon \in BOOLEAN
  PROVE  LET new == WithCoupon(read, coupon)
         IN  /\ new \in Invoice
             /\ new.status = read.status /\ new.uses = read.uses
             /\ new.amount_paid = read.amount_paid
             /\ new.credit_applied <= read.credit_applied
             /\ new.amount_due = Minus(new.total, new.amount_paid + new.credit_applied)
             /\ Released(read, new) = read.credit_applied - new.credit_applied
             /\ Released(read, new) \in Nat
<1> DEFINE priced == [read EXCEPT !.coupon = coupon]
           new == WithTotals(priced, read.credit_applied)
<1>1. /\ priced \in Invoice /\ priced.status = read.status /\ priced.uses = read.uses
      /\ priced.amount_paid = read.amount_paid /\ read.credit_applied \in Nat
  BY DEF Invoice
<1>2. WithCoupon(read, coupon) = new
  BY DEF WithCoupon
<1>3. /\ new \in Invoice
      /\ new.status = priced.status /\ new.uses = priced.uses
      /\ new.amount_paid = priced.amount_paid
      /\ new.credit_applied <= Minus(read.credit_applied, 0)
      /\ new.amount_due = Minus(new.total, new.amount_paid + new.credit_applied)
  <2> DEFINE available == read.credit_applied
  <2>1. available \in Int
    BY <1>1
  <2> HIDE DEF priced, available
  <2>2. /\ WithTotals(priced, available) \in Invoice
        /\ WithTotals(priced, available).status = priced.status
        /\ WithTotals(priced, available).uses = priced.uses
        /\ WithTotals(priced, available).amount_paid = priced.amount_paid
        /\ WithTotals(priced, available).credit_applied <= Minus(available, 0)
        /\ WithTotals(priced, available).amount_due =
             Minus(WithTotals(priced, available).total,
                   WithTotals(priced, available).amount_paid
                     + WithTotals(priced, available).credit_applied)
    BY <1>1, <2>1, TotalsComputed
  <2>3. QED BY <2>2 DEF available
<1> HIDE DEF new, priced
<1>4. new.credit_applied \in Nat
  BY <1>3 DEF Invoice
<1>5. QED BY <1>1, <1>2, <1>3, <1>4 DEF Released, Minus

(* applyCoupon() *)
LEMMA ApplyCouponBooks ==
  ASSUME Books, NEW q \in Requests, ApplyCoupon(q)
  PROVE  Books'
<1> DEFINE r == request[q]
           new == WithCoupon(r.read, TRUE)
           saved == Saved(invoice[r.id], r.read, new)
<1>1. /\ Done(q) /\ UNCHANGED <<day, payment, wallet, granted, dunning>>
      /\ r.stage \in InvoiceOperations
      /\ \/ UNCHANGED <<invoice, credit, usedCount>>
         \/ /\ CouponLeft
            /\ invoice' = [invoice EXCEPT ![r.id] = [saved EXCEPT !.uses = @ + 1]]
            /\ credit' = credit + Released(r.read, new)
            /\ usedCount' = usedCount + 1
  BY DEF ApplyCoupon, money, InvoiceOperations
<1>2. /\ r.id \in Invoices /\ r.read \in Invoice /\ invoice[r.id] \in Invoice
      /\ invoice[r.id].status # "absent" /\ r.read.status # "absent"
  BY <1>1, HeldInvoice
<1>3. new \in Invoice /\ new.status = r.read.status /\ Released(r.read, new) \in Nat
  <2> HIDE DEF r
  <2> QED BY <1>2, Recomputed
<1>4. saved \in Invoice /\ saved.status # "absent"
  <2> HIDE DEF r, new
  <2> QED BY <1>2, <1>3, SavedRow
<1> HIDE DEF r, new, saved
<1>5. /\ [saved EXCEPT !.uses = @ + 1] \in Invoice
      /\ [saved EXCEPT !.uses = @ + 1].status # "absent"
  BY <1>4 DEF Invoice
<1>6. credit' \in Int /\ usedCount' \in 0 .. MaxUses
  BY <1>1, <1>3, BillingAssumption DEF Books, TypeOK, CouponLeft
<1>7. InvoiceStep
  BY <1>1, <1>2, <1>5, DoneHolds DEF InvoiceStep, Books, TypeOK
<1>8. TypeOK'
  BY <1>1, <1>2, <1>5, <1>6, DoneHolds DEF Books, TypeOK
<1>9. QED BY <1>7, <1>8, InvoiceStepSound DEF Books

(* removeCoupon() *)
LEMMA RemoveCouponBooks ==
  ASSUME Books, NEW q \in Requests, RemoveCoupon(q)
  PROVE  Books'
<1> DEFINE r == request[q]
           new == WithCoupon(r.read, FALSE)
           saved == Saved(invoice[r.id], r.read, new)
<1>1. /\ Done(q) /\ UNCHANGED <<day, payment, wallet, granted, dunning>>
      /\ r.stage \in InvoiceOperations
      /\ invoice' = [invoice EXCEPT ![r.id] = UsesReleased(saved)]
      /\ credit' = credit + Released(r.read, new)
      /\ usedCount' = CountReleased(invoice[r.id])
  BY DEF RemoveCoupon, money, InvoiceOperations
<1>2. /\ r.id \in Invoices /\ r.read \in Invoice /\ invoice[r.id] \in Invoice
      /\ invoice[r.id].status # "absent" /\ r.read.status # "absent"
  BY <1>1, HeldInvoice
<1>3. new \in Invoice /\ new.status = r.read.status /\ Released(r.read, new) \in Nat
  <2> HIDE DEF r
  <2> QED BY <1>2, Recomputed
<1>4. saved \in Invoice /\ saved.status # "absent"
  <2> HIDE DEF r, new
  <2> QED BY <1>2, <1>3, SavedRow
<1> HIDE DEF r, new, saved
<1>5. UsesReleased(saved) \in Invoice /\ UsesReleased(saved).status # "absent"
  BY <1>4 DEF UsesReleased, Invoice
<1>6. credit' \in Int /\ usedCount' \in 0 .. MaxUses
  BY <1>1, <1>2, <1>3, CountReleasedInRange DEF Books, TypeOK
<1>7. InvoiceStep
  BY <1>1, <1>2, <1>5, DoneHolds DEF InvoiceStep, Books, TypeOK
<1>8. TypeOK'
  BY <1>1, <1>2, <1>5, <1>6, DoneHolds DEF Books, TypeOK
<1>9. QED BY <1>7, <1>8, InvoiceStepSound DEF Books

(* changePlan() *)
LEMMA ChangePlanBooks ==
  ASSUME Books, NEW q \in Requests, NEW proration \in Prorations,
         ChangePlan(q, proration[1], proration[2])
  PROVE  Books'
<1> DEFINE unused == proration[1]
           due == proration[2]
           available == request[q].amount + unused
           applied == Least(available, due)
           balance == available - applied
<1>1. unused \in Nat /\ due \in Nat
  BY BillingAssumption
<1>2. request[q].amount \in Int
  BY DEF Books, TypeOK, Request
<1>3. available \in Int /\ applied \in Int /\ balance \in Int /\ applied <= due
  BY <1>1, <1>2 DEF Least
<1>4. /\ Done(q) /\ UNCHANGED <<day, payment, wallet, usedCount, dunning>>
      /\ credit' \in {credit, balance} /\ granted' = granted + unused - applied
      /\ \/ invoice' = invoice
         \/ \E i \in Invoices :
              invoice' = [invoice EXCEPT
                ![i] = NewInvoice(0, due - applied, FALSE, 0, "unpaid", day)]
  BY DEF ChangePlan, money
<1> DEFINE new == NewInvoice(0, due - applied, FALSE, 0, "unpaid", day)
<1>5. new \in Invoice /\ new.status = "unpaid"
  <2>1. due - applied \in Nat /\ day \in Nat
    BY <1>1, <1>3 DEF Books, TypeOK
  <2>2. new \in Invoice
    <3> DEFINE rest == due - applied
    <3>1. /\ rest \in Nat /\ FALSE \in BOOLEAN /\ "unpaid" \in {"draft", "unpaid"}
          /\ 0 \in Nat /\ 0 \in Int
      BY <2>1
    <3> HIDE DEF rest
    <3>2. NewInvoice(0, rest, FALSE, 0, "unpaid", day) \in Invoice
      BY <2>1, <3>1, InvoiceIssued, Zenon
    <3>3. QED BY <3>2 DEF rest
  <2>3. new.status = "unpaid"
    <3> HIDE DEF applied, due
    <3> QED BY DEF NewInvoice, WithTotals, AbsentInvoice
  <2>4. QED BY <2>2, <2>3
<1> HIDE DEF new, balance, applied, available, unused
<1>6. /\ invoice' \in [Invoices -> Invoice]
      /\ \A i \in Invoices : invoice'[i] = invoice[i] \/ invoice'[i].status # "absent"
  BY <1>4, <1>5 DEF Books, TypeOK, new
<1>7. credit' \in Int /\ granted' \in Int
  BY <1>1, <1>3, <1>4 DEF Books, TypeOK
<1>8. InvoiceStep
  BY <1>4, <1>6, DoneHolds DEF InvoiceStep
<1>9. TypeOK'
  BY <1>4, <1>6, <1>7, DoneHolds DEF Books, TypeOK
<1>10. QED BY <1>8, <1>9, InvoiceStepSound DEF Books

(* What a step that writes a payment does: one payment that no refund is   *)
(* of, and the figures of invoices that exist.                             *)
PaymentStep(p, row) ==
  /\ payment[p].status \notin Received
  /\ row \in Payment /\ payment' = [payment EXCEPT ![p] = row]
  /\ row.status # "absent" /\ row.refunded_amount = 0
  /\ row.status \in {"pending", "approved", "rejected"}
  /\ row.amount > 0 /\ row.invoice \in Invoices /\ invoice[row.invoice].status # "absent"
  /\ invoice' \in [Invoices -> Invoice]
  /\ \A i \in Invoices :
       invoice'[i] # invoice[i] =>
         invoice[i].status # "absent" /\ invoice'[i].status # "absent"
  /\ wallet' \in Nat
  /\ UNCHANGED <<day, ledger, request, dunning>>

(* Such a step keeps Books. *)
LEMMA PaymentStepSound ==
  ASSUME Books, NEW p \in Payments, NEW row, PaymentStep(p, row)
  PROVE  Books'
<1>0. /\ \A i \in Invoices : invoice[i].status # "absent" => invoice'[i].status # "absent"
      /\ dunning \subseteq Invoices
      /\ payment \in [Payments -> Payment] /\ payment' \in [Payments -> Payment]
      /\ request' = request /\ dunning' = dunning
      /\ request \in [Requests -> Request]
      /\ \A r \in Payments : payment'[r] = IF r = p THEN row ELSE payment[r]
  BY DEF Books, TypeOK, PaymentStep
<1>1. TypeOK'
  BY <1>0 DEF Books, TypeOK, PaymentStep, ledger
<1>2. InvoicesSound'
  BY DEF Books, InvoicesSound, PaymentStep
<1>3. PaymentsSound'
  BY <1>0 DEF Books, PaymentsSound, PaymentStep
<1>4. HoldersSound'
  BY <1>0 DEF Books, HoldersSound, InvoiceOperations
<1>5. RefundsSound'
  <2>1. \A q \in Requests :
          request[q].stage = "refund" =>
            request[q].id \in Payments /\ payment'[request[q].id] = payment[request[q].id]
    BY <1>0 DEF Books, RefundsSound, PaymentStep
  <2>2. QED BY <1>0, <2>1 DEF Books, RefundsSound
<1>6. QED BY <1>1, <1>2, <1>3, <1>4, <1>5 DEF Books

(* A payment that does not exist yet can be made out for an invoice that   *)
(* exists.                                                                 *)
LEMMA MadeOut ==
  ASSUME Books, NEW i \in Invoices, NEW p \in Payments, NEW amount \in Amounts,
         NEW fromWallet \in BOOLEAN, NewPaymentFor(i, p, amount)
  PROVE  LET row == NewPayment(i, amount, fromWallet)
         IN  /\ row \in Payment /\ row.status = "pending" /\ row.invoice = i
             /\ row.amount = amount /\ row.wallet = fromWallet
             /\ row.refunded_amount = 0 /\ row.to_wallet = 0
             /\ amount \in Nat \ {0} /\ invoice[i].status # "absent"
             /\ payment[p].status = "absent"
<1>1. amount \in Nat \ {0} /\ i \in Nat
  BY BillingAssumption DEF Invoices
<1>2. invoice[i].status # "absent" /\ payment[p].status = "absent"
  BY DEF NewPaymentFor, Payable, Outstanding, FreeId
<1>3. QED BY <1>1, <1>2 DEF NewPayment, AbsentPayment, Payment

(* applyApproved(), of a payment nothing went back on, that is pending or  *)
(* has just been made out. *)
LEMMA ApprovedBooks ==
  ASSUME Books, NEW p \in Payments, NEW row \in Payment, row.status = "pending",
         row.amount > 0, row.refunded_amount = 0,
         row.invoice \in Invoices, invoice[row.invoice].status # "absent",
         payment[p].status \notin Received,
         Approved(p, row), UNCHANGED <<day, ledger, request, dunning>>
  PROVE  Books'
<1> DEFINE i == row.invoice
           approved == [row EXCEPT !.status = "approved"]
<1>1. /\ approved \in Payment /\ approved.status = "approved"
      /\ approved.amount = row.amount /\ approved.refunded_amount = 0
      /\ approved.invoice = i
  BY DEF Payment, Received
<1>2. payment' = [payment EXCEPT ![p] = approved]
  BY DEF Approved
<1>3. payment' \in [Payments -> Payment]
  BY <1>1, <1>2 DEF Books, TypeOK
<1>4. /\ invoice' = [invoice EXCEPT ![i] = AfterPayment(invoice[i], i, payment', day)]
      /\ invoice[i] \in Invoice /\ day \in Nat
  BY DEF Approved, Books, TypeOK
<1>5. /\ AfterPayment(invoice[i], i, payment', day) \in Invoice
      /\ AfterPayment(invoice[i], i, payment', day).status # "absent"
  <2> HIDE DEF i
  <2> QED BY <1>3, <1>4, MoneyApplied DEF i
<1>6. wallet' \in Nat
  BY DEF Approved, Debited, StillCovered, WalletCovers, Books, TypeOK, Payment
<1>7. PaymentStep(p, approved)
  <2> HIDE DEF i, approved
  <2>1. i \in Invoices /\ invoice[i].status # "absent"
    BY DEF i
  <2>2. /\ invoice' \in [Invoices -> Invoice]
        /\ \A j \in Invoices :
             invoice'[j] # invoice[j] =>
               invoice[j].status # "absent" /\ invoice'[j].status # "absent"
    BY <1>4, <1>5, <2>1 DEF Books, TypeOK
  <2>3. QED BY <1>1, <1>2, <1>6, <2>1, <2>2 DEF PaymentStep
<1>8. QED BY <1>7, PaymentStepSound

(* submit() *)
LEMMA SubmitBooks ==
  ASSUME Books, NEW i \in Invoices, NEW p \in Payments, NEW amount \in Amounts,
         NEW fromWallet \in BOOLEAN, Submit(i, p, amount, fromWallet)
  PROVE  Books'
<1> DEFINE row == NewPayment(i, amount, fromWallet)
<1>1. /\ row \in Payment /\ row.status = "pending" /\ row.invoice = i
      /\ row.amount > 0 /\ row.refunded_amount = 0
      /\ invoice[i].status # "absent" /\ payment[p].status = "absent"
  BY MadeOut DEF Submit
<1>2. /\ payment' = [payment EXCEPT ![p] = row]
      /\ UNCHANGED <<day, invoice, wallet, ledger, request, dunning>>
  BY DEF Submit
<1> HIDE DEF row
<1>3. PaymentStep(p, row)
  BY <1>1, <1>2 DEF PaymentStep, Books, TypeOK, Received
<1>4. QED BY <1>3, PaymentStepSound

(* record() *)
LEMMA RecordBooks ==
  ASSUME Books, NEW i \in Invoices, NEW p \in Payments, NEW amount \in Amounts,
         NEW fromWallet \in BOOLEAN, Record(i, p, amount, fromWallet)
  PROVE  Books'
<1> DEFINE row == NewPayment(i, amount, fromWallet)
<1>1. /\ row \in Payment /\ row.status = "pending" /\ row.invoice = i
      /\ row.amount > 0 /\ row.refunded_amount = 0
      /\ invoice[i].status # "absent" /\ payment[p].status = "absent"
  BY MadeOut DEF Record
<1>2. Approved(p, row) /\ UNCHANGED <<day, ledger, request, dunning>>
  BY DEF Record
<1> HIDE DEF row
<1>3. row.invoice \in Invoices /\ invoice[row.invoice].status # "absent"
      /\ payment[p].status \notin Received
  BY <1>1 DEF Received
<1>4. QED BY <1>1, <1>2, <1>3, ApprovedBooks

(* review() *)
LEMMA ReviewBooks ==
  ASSUME Books, NEW p \in Payments, Approve(p) \/ Reject(p)
  PROVE  Books'
<1>1. /\ payment[p] \in Payment /\ payment[p].status = "pending"
      /\ payment[p].amount > 0 /\ payment[p].refunded_amount = 0
      /\ payment[p].invoice \in Invoices
      /\ invoice[payment[p].invoice].status # "absent"
  BY DEF Approve, Reject, Books, TypeOK, PaymentsSound
<1>2. payment[p].status \notin Received
  BY <1>1 DEF Received
<1>3. CASE Approve(p)
  BY <1>1, <1>2, <1>3, ApprovedBooks DEF Approve
<1>4. CASE Reject(p)
  <2> DEFINE row == [payment[p] EXCEPT !.status = "rejected"]
  <2>1. /\ row \in Payment /\ row.status = "rejected" /\ row.invoice = payment[p].invoice
        /\ row.amount = payment[p].amount /\ row.refunded_amount = 0
    BY <1>1 DEF Payment
  <2>2. /\ payment' = [payment EXCEPT ![p] = row]
        /\ UNCHANGED <<day, invoice, wallet, ledger, request, dunning>>
    BY <1>4 DEF Reject
  <2> HIDE DEF row
  <2>3. PaymentStep(p, row)
    BY <1>1, <1>2, <2>1, <2>2 DEF PaymentStep, Books, TypeOK
  <2>4. QED BY <2>3, PaymentStepSound
<1>5. QED BY <1>3, <1>4

(* A refund within what is left of a payment keeps its columns in          *)
(* agreement.                                                              *)
LEMMA RefundedRow ==
  ASSUME NEW pay \in Payment, NEW amount \in Nat \ {0}, NEW toWallet \in BOOLEAN,
         amount <= Refundable(pay)
  PROVE  LET new == Refunded(pay, amount, toWallet)
         IN  /\ new \in Payment
             /\ new.status \in {"partially_refunded", "refunded"}
             /\ new.invoice = pay.invoice /\ new.amount = pay.amount
             /\ new.wallet = pay.wallet
             /\ new.refunded_amount = pay.refunded_amount + amount
             /\ new.to_wallet = IF toWallet THEN pay.to_wallet + amount ELSE pay.to_wallet
             /\ new.status = "refunded" => new.refunded_amount = new.amount
             /\ new.status = "partially_refunded" =>
                  0 < new.refunded_amount /\ new.refunded_amount < new.amount
<1> DEFINE back == pay.refunded_amount + amount
           status == IF back >= pay.amount THEN "refunded" ELSE "partially_refunded"
           wallets == IF toWallet THEN pay.to_wallet + amount ELSE pay.to_wallet
<1>1. /\ back \in Nat /\ 0 < back /\ back <= pay.amount
      /\ wallets \in Nat /\ pay.amount \in Nat
  BY DEF Refundable, Payment
<1>2. Refunded(pay, amount, toWallet) =
        [pay EXCEPT !.refunded_amount = back, !.to_wallet = wallets, !.status = status]
  BY DEF Refunded
<1>3. /\ status \in {"partially_refunded", "refunded"}
      /\ status = "refunded" => back = pay.amount
      /\ status = "partially_refunded" => back < pay.amount
  BY <1>1
<1> HIDE DEF status
<1>4. QED BY <1>1, <1>2, <1>3 DEF Payment, Received

(* requestRefund(), up to the snapshot. *)
LEMMA StartRefundBooks ==
  ASSUME Books, NEW q \in Requests, NEW p \in Payments, NEW amount \in Amounts,
         NEW toWallet \in BOOLEAN, StartRefund(q, p, amount, toWallet)
  PROVE  Books'
<1> DEFINE back == Refunded(payment[p], amount, toWallet)
           snapshot == [payment EXCEPT ![p] = back]
           held == [Idle EXCEPT !.stage = "refund", !.id = p, !.amount = amount,
                                !.flag = toWallet, !.payments = snapshot]
<1>1. /\ UNCHANGED <<day, invoice, payment, wallet, credit, usedCount, granted, dunning>>
      /\ \A r \in Requests : request[r].stage # "refund"
      /\ payment[p].status \in Received /\ amount <= Refundable(payment[p])
      /\ request' = [request EXCEPT ![q] = held]
  BY DEF StartRefund, Hold, money, ledger
<1>2. amount \in Nat \ {0} /\ p \in Nat /\ payment \in [Payments -> Payment]
  BY BillingAssumption DEF Payments, Books, TypeOK
<1>3. snapshot \in [Payments -> Payment] /\ snapshot[p] = back
  <2> DEFINE pay == payment[p]
  <2>1. pay \in Payment /\ amount <= Refundable(pay) /\ amount \in Nat \ {0}
    BY <1>1, <1>2
  <2> HIDE DEF pay
  <2>2. Refunded(pay, amount, toWallet) \in Payment
    BY <2>1, RefundedRow
  <2>3. QED BY <1>2, <2>2 DEF pay
<1> HIDE DEF back, snapshot
<1>4. /\ held \in Request /\ held.stage = "refund" /\ held.id = p
      /\ held.amount = amount /\ held.flag = toWallet
      /\ held.payments = snapshot
  <2>1. held \in Request
    <3>1. Idle \in Request /\ amount \in Int /\ p \in Nat /\ toWallet \in BOOLEAN
      BY <1>2, NewRows
    <3>2. QED BY <1>3, <3>1 DEF Request
  <2>2. held.flag = toWallet
    BY DEF Idle
  <2>3. QED BY <2>1 DEF Idle
<1> HIDE DEF held
<1>5. /\ request' \in [Requests -> Request]
      /\ \A r \in Requests : request'[r] = IF r = q THEN held ELSE request[r]
  BY <1>1, <1>4 DEF Books, TypeOK
<1>6. TypeOK'
  BY <1>1, <1>5 DEF Books, TypeOK
<1>7. InvoicesSound' /\ PaymentsSound'
  BY <1>1 DEF Books, InvoicesSound, PaymentsSound
<1>8. HoldersSound'
  BY <1>1, <1>4, <1>5 DEF Books, HoldersSound, InvoiceOperations
<1>9. RefundsSound'
  <2>1. held.payments[p] = back
    BY <1>3, <1>4
  <2>2. \A r \in Requests : request'[r].stage = "refund" => r = q
    BY <1>1, <1>5
  <2>3. /\ request'[q] = held /\ payment' = payment
        /\ held.payments[held.id] = Refunded(payment[held.id], held.amount, held.flag)
    BY <1>1, <1>4, <1>5, <2>1 DEF back
  <2>4. QED BY <1>1, <1>4, <2>2, <2>3 DEF RefundsSound
<1>10. QED BY <1>6, <1>7, <1>8, <1>9 DEF Books

(* requestRefund(), to the commit. *)
LEMMA FinishRefundBooks ==
  ASSUME Books, NEW q \in Requests, FinishRefund(q)
  PROVE  Books'
<1> DEFINE r == request[q]
           p == r.id
           new == r.payments[p]
           i == payment[p].invoice
<1>1. /\ r.stage = "refund" /\ Done(q)
      /\ payment' = [payment EXCEPT ![p] = new]
      /\ wallet' = IF r.flag THEN wallet + r.amount ELSE wallet
      /\ invoice' = [invoice EXCEPT ![i] = AfterRefund(invoice[i], i, r.payments, day)]
      /\ UNCHANGED <<day, credit, usedCount, granted, dunning>>
  BY DEF FinishRefund, Books, TypeOK, ledger
<1>2. /\ r \in Request /\ p \in Payments /\ r.amount \in Nat \ {0}
      /\ payment[p] \in Payment /\ payment[p].status \in Received
      /\ r.amount <= Refundable(payment[p]) /\ r.flag \in BOOLEAN
      /\ new = Refunded(payment[p], r.amount, r.flag)
      /\ r.payments \in [Payments -> Payment]
  BY <1>1, BillingAssumption DEF Books, TypeOK, RefundsSound, Request
<1>3. /\ new \in Payment
      /\ new.status \in {"partially_refunded", "refunded"}
      /\ new.invoice = i /\ new.amount = payment[p].amount
      /\ new.status = "refunded" => new.refunded_amount = new.amount
      /\ new.status = "partially_refunded" =>
           0 < new.refunded_amount /\ new.refunded_amount < new.amount
  <2> DEFINE pay == payment[p]
             amount == r.amount
             flag == r.flag
  <2>1. /\ pay \in Payment /\ amount \in Nat \ {0} /\ flag \in BOOLEAN
        /\ amount <= Refundable(pay) /\ new = Refunded(pay, amount, flag)
    BY <1>2
  <2> HIDE DEF pay, amount, flag, new, p, r
  <2>2. QED BY <2>1, RefundedRow DEF pay, i
<1>4. /\ i \in Invoices /\ invoice[i].status # "absent" /\ payment[p].amount > 0
      /\ invoice[i] \in Invoice /\ day \in Nat
  <2>1. payment[p].status # "absent"
    BY <1>2 DEF Received
  <2>2. QED BY <1>2, <2>1 DEF Books, TypeOK, PaymentsSound
<1>5. /\ AfterRefund(invoice[i], i, r.payments, day) \in Invoice
      /\ AfterRefund(invoice[i], i, r.payments, day).status # "absent"
  <2> HIDE DEF i, r
  <2> QED BY <1>2, <1>4, MoneyApplied
<1> HIDE DEF r, p, new, i
<1>6. /\ invoice' \in [Invoices -> Invoice]
      /\ \A j \in Invoices : invoice[j].status # "absent" => invoice'[j].status # "absent"
      /\ \A j \in Invoices :
           invoice'[j] # invoice[j] => invoice'[j].status # "absent"
  BY <1>1, <1>4, <1>5 DEF Books, TypeOK
<1>7. /\ payment' \in [Payments -> Payment]
      /\ \A s \in Payments : payment'[s] = IF s = p THEN new ELSE payment[s]
  BY <1>1, <1>2, <1>3 DEF Books, TypeOK
<1>8. wallet' \in Nat
  BY <1>1, <1>2 DEF Books, TypeOK
<1>9. \A s \in Requests : request'[s] = IF s = q THEN Idle ELSE request[s]
  BY <1>1 DEF Done, Books, TypeOK
<1>10. TypeOK'
  BY <1>1, <1>6, <1>7, <1>8, DoneHolds DEF Books, TypeOK
<1>11. InvoicesSound'
  BY <1>6 DEF Books, InvoicesSound
<1>12. PaymentsSound'
  <2>1. \A s \in Payments : s # p => payment'[s] = payment[s]
    BY <1>7
  <2>2. payment'[p] = new
    BY <1>2, <1>7
  <2>3. QED BY <1>3, <1>4, <1>6, <2>1, <2>2 DEF Books, PaymentsSound, i
<1>13. HoldersSound'
  BY <1>1, <1>6, <1>9 DEF Books, TypeOK, HoldersSound, Idle, InvoiceOperations
<1>14. RefundsSound'
  <2>1. \A s \in Requests : request'[s].stage # "refund"
    BY <1>1, <1>9 DEF Books, RefundsSound, r, Idle
  <2>2. QED BY <2>1 DEF RefundsSound
<1>15. QED BY <1>10, <1>11, <1>12, <1>13, <1>14 DEF Books

(* The invoice-overdue job, and the clock. *)
LEMMA JobBooks ==
  ASSUME Books, OverdueJob \/ NextDay
  PROVE  Books'
<1>1. CASE ReadOverdue
  <2>1. /\ UNCHANGED <<day, invoice, payment, wallet, credit, usedCount, granted, request>>
        /\ dunning' \subseteq Invoices /\ \A i \in dunning' : invoice[i].status # "absent"
    BY <1>1 DEF ReadOverdue, money, ledger
  <2>2. QED BY <2>1 DEF Books, TypeOK, InvoicesSound, PaymentsSound, HoldersSound,
                        RefundsSound
<1>2. CASE \E i \in Invoices : MarkOverdue(i)
  <2>1. PICK i \in Invoices : MarkOverdue(i)
    BY <1>2
  <2>2. /\ UNCHANGED <<day, payment, wallet, credit, usedCount, granted, request>>
        /\ dunning' \subseteq dunning
        /\ invoice' = [invoice EXCEPT ![i].status = "overdue"]
    BY <2>1 DEF MarkOverdue, money, ledger
  <2>3. /\ invoice' \in [Invoices -> Invoice]
        /\ \A j \in Invoices : invoice'[j] = invoice[j] \/ invoice'[j].status # "absent"
    BY <2>2 DEF Books, TypeOK, Invoice, Statuses
  <2>4. InvoiceStep
    BY <2>2, <2>3 DEF InvoiceStep
  <2>5. TypeOK'
    BY <2>2, <2>3 DEF Books, TypeOK
  <2>6. QED BY <2>4, <2>5, InvoiceStepSound DEF Books
<1>3. CASE NextDay
  <2>1. /\ UNCHANGED <<invoice, payment, wallet, credit, usedCount, granted, request, dunning>>
        /\ day' \in 0 .. MaxDay
    BY <1>3, BillingAssumption DEF NextDay, money, ledger, Books, TypeOK
  <2>2. QED BY <2>1 DEF Books, TypeOK, InvoicesSound, PaymentsSound, HoldersSound,
                        RefundsSound
<1>4. QED BY <1>1, <1>2, <1>3 DEF OverdueJob

(* Every step keeps Books. *)
LEMMA BooksNext ==
  ASSUME Books, [Next]_vars
  PROVE  Books'
<1>1. CASE UNCHANGED vars
  BY <1>1 DEF vars, Books, TypeOK, InvoicesSound, PaymentsSound, HoldersSound, RefundsSound
<1>2. ASSUME NEW q \in Requests, Handler(q) PROVE Books'
  <2>1. CASE \/ \E p \in Periods, coupon \in BOOLEAN, available \in {0, credit} :
                  ReadIssue(q, p, coupon, available)
             \/ ReadChangePlan(q)
             \/ \E op \in InvoiceOperations, i \in Invoices : ReadInvoice(q, op, i)
    BY <2>1, ReadsBooks
  <2>2. CASE \E p \in Payments, amount \in Amounts, toWallet \in BOOLEAN :
               StartRefund(q, p, amount, toWallet)
    BY <2>2, StartRefundBooks
  <2>3. CASE Issue(q)
    BY <2>3, IssueBooks
  <2>4. CASE Finalise(q)
    BY <2>4, FinaliseBooks
  <2>5. CASE Cancel(q)
    BY <2>5, CancelBooks
  <2>6. CASE ApplyCoupon(q)
    BY <2>6, ApplyCouponBooks
  <2>7. CASE RemoveCoupon(q)
    BY <2>7, RemoveCouponBooks
  <2>8. CASE \E proration \in Prorations : ChangePlan(q, proration[1], proration[2])
    BY <2>8, ChangePlanBooks
  <2>9. CASE FinishRefund(q)
    BY <2>9, FinishRefundBooks
  <2>10. QED BY <1>2, <2>1, <2>2, <2>3, <2>4, <2>5, <2>6, <2>7, <2>8, <2>9
             DEF Handler, InvoiceOperations
<1>3. CASE Money
  BY <1>3, SubmitBooks, RecordBooks, ReviewBooks DEF Money
<1>4. CASE OverdueJob \/ NextDay
  BY <1>4, JobBooks
<1>5. QED BY <1>1, <1>2, <1>3, <1>4 DEF Next

(* Every column, counter and copy a handler holds keeps its type: what is  *)
(* left of an amount is never negative, whatever order operations, money   *)
(* and jobs come in (Minus is clampNonNegative).                           *)
THEOREM BillingTyped == Spec => []TypeOK
<1>1. Books => TypeOK
  BY DEF Books
<1>2. QED BY <1>1, BooksInit, BooksNext, PTL DEF Spec

(* However many handlers ask for refunds of a payment at once, no more     *)
(* goes back than came in, and the payment's status says how much did.     *)
THEOREM RefundsStayWithinPayments == Spec => []RefundsWithinPayments
<1>1. Books => RefundsWithinPayments
  <2> SUFFICES ASSUME Books, NEW p \in Payments
               PROVE  LET pay == payment[p]
                      IN  /\ pay.refunded_amount <= pay.amount
                          /\ pay.status = "refunded" <=>
                               pay.amount > 0 /\ pay.refunded_amount = pay.amount
                          /\ pay.status = "partially_refunded" => pay.refunded_amount > 0
    BY DEF RefundsWithinPayments
  <2>1. payment[p] \in Payment
    BY DEF Books, TypeOK
  <2>2. QED BY <2>1 DEF Books, PaymentsSound, Payment, Received, AbsentPayment
<1>2. QED BY <1>1, BooksInit, BooksNext, PTL DEF Spec

-----------------------------------------------------------------------------
(* The wallet. *)

(* The payments the wallet has paid. *)
FromWallet(rows) == {p \in Payments : rows[p].wallet /\ rows[p].status \in Received}

(* Both columns can be added up. *)
LEMMA WalletColumns ==
  ASSUME NEW rows \in [Payments -> Payment]
  PROVE  /\ FromWallet(rows) \subseteq Payments
         /\ IsFiniteSet(FromWallet(rows)) /\ IsFiniteSet(Payments)
         /\ \A p \in Payments : rows[p]["amount"] \in Nat /\ rows[p]["to_wallet"] \in Nat
         /\ Total(rows, "amount", FromWallet(rows)) \in Nat
         /\ Total(rows, "to_wallet", Payments) \in Nat
<1>1. FromWallet(rows) \subseteq Payments
  BY DEF FromWallet
<1>2. IsFiniteSet(FromWallet(rows)) /\ IsFiniteSet(Payments)
  BY <1>1, IdsFinite
<1>3. \A p \in Payments : rows[p]["amount"] \in Nat /\ rows[p]["to_wallet"] \in Nat
  BY DEF Payment
<1>4. Total(rows, "amount", FromWallet(rows)) \in Nat
  BY <1>1, <1>2, <1>3, TotalInNat
<1>5. Total(rows, "to_wallet", Payments) \in Nat
  BY <1>2, <1>3, TotalInNat
<1>6. QED BY <1>1, <1>2, <1>3, <1>4, <1>5

(* The wallet's balance in terms of FromWallet. *)
WalletBalanced(rows, balance) ==
  balance + Total(rows, "amount", FromWallet(rows)) =
    OpeningWallet + Total(rows, "to_wallet", Payments)

(* One payment is written.  It is received neither before nor after, or it *)
(* is received now and the wallet pays what it owes, or it was received    *)
(* and the wallet gains what goes back to it.                              *)
LEMMA WalletStep ==
  ASSUME NEW rows \in [Payments -> Payment], NEW p \in Payments, NEW row \in Payment,
         NEW before \in Int, NEW after \in Int, WalletBalanced(rows, before),
         \/ /\ rows[p].status \notin Received /\ row.status \notin Received
            /\ row.to_wallet = rows[p].to_wallet /\ after = before
         \/ /\ rows[p].status \notin Received /\ row.status \in Received
            /\ row.to_wallet = rows[p].to_wallet
            /\ after = IF row.wallet THEN before - row.amount ELSE before
         \/ /\ rows[p].status \in Received /\ row.status \in Received
            /\ row.wallet = rows[p].wallet /\ row.amount = rows[p].amount
            /\ after = before + row.to_wallet - rows[p].to_wallet
  PROVE  WalletBalanced([rows EXCEPT ![p] = row], after)
<1> DEFINE new == [rows EXCEPT ![p] = row]
           paid == FromWallet(rows)
<1>1. new \in [Payments -> Payment]
  OBVIOUS
<1>2. \A s \in Payments : new[s] = IF s = p THEN row ELSE rows[s]
  OBVIOUS
<1>3. /\ paid \subseteq Payments /\ IsFiniteSet(paid) /\ IsFiniteSet(Payments)
      /\ \A s \in Payments : rows[s]["amount"] \in Nat /\ rows[s]["to_wallet"] \in Nat
      /\ \A s \in Payments : new[s]["amount"] \in Nat /\ new[s]["to_wallet"] \in Nat
      /\ Total(rows, "amount", paid) \in Nat /\ Total(rows, "to_wallet", Payments) \in Nat
  <2> HIDE DEF new
  <2> QED BY <1>1, WalletColumns
<1> HIDE DEF new, paid
<1>4. \A s \in Payments \ {p} : new[s]["to_wallet"] = rows[s]["to_wallet"]
  BY <1>2
<1>5. Total(new, "to_wallet", Payments) =
        Total(rows, "to_wallet", Payments) - rows[p]["to_wallet"] + new[p]["to_wallet"]
  BY <1>3, <1>4, TotalOfChanged
<1>6. /\ new[p]["to_wallet"] = row.to_wallet /\ new[p]["amount"] = row.amount
      /\ row.to_wallet \in Nat /\ row.amount \in Nat
      /\ rows[p]["to_wallet"] = rows[p].to_wallet
  BY <1>2, <1>3
<1>7. CASE FromWallet(new) = paid
  <2>1. \A s \in paid : rows[s]["amount"] \in Nat /\ new[s]["amount"] = rows[s]["amount"]
    BY <1>2, <1>3 DEF paid, FromWallet
  <2>2. Total(new, "amount", paid) = Total(rows, "amount", paid)
    BY <1>3, <2>1, TotalOfSame
  <2>3. after = before + row.to_wallet - rows[p].to_wallet
    BY <1>2, <1>6, <1>7 DEF FromWallet, paid
  <2>4. Total(new, "amount", FromWallet(new)) = Total(rows, "amount", paid)
    BY <1>7, <2>2, Zenon
  <2>5. OpeningWallet \in Nat
    BY BillingAssumption
  <2>6. before + Total(rows, "amount", paid) = OpeningWallet + Total(rows, "to_wallet", Payments)
    BY DEF WalletBalanced, paid
  <2>7. after + Total(new, "amount", FromWallet(new)) =
          OpeningWallet + Total(new, "to_wallet", Payments)
    BY <1>3, <1>5, <1>6, <2>3, <2>4, <2>5, <2>6
  <2>8. QED BY <2>7 DEF WalletBalanced, new
<1>8. CASE FromWallet(new) # paid
  <2>1. /\ rows[p].status \notin Received /\ row.status \in Received
        /\ row.wallet /\ row.to_wallet = rows[p].to_wallet /\ after = before - row.amount
    BY <1>2, <1>8 DEF FromWallet, paid
  <2>2. FromWallet(new) = paid \cup {p} /\ p \notin paid
    BY <1>2, <2>1 DEF FromWallet, paid
  <2>3. \A s \in paid : rows[s]["amount"] \in Nat /\ new[s]["amount"] = rows[s]["amount"]
    BY <1>2, <1>3, <2>2
  <2>4. Total(new, "amount", paid \cup {p}) = Total(rows, "amount", paid) + new[p]["amount"]
    BY <1>3, <1>6, <2>2, <2>3, TotalOfOneMore
  <2>5. Total(new, "amount", FromWallet(new)) = Total(rows, "amount", paid) + new[p]["amount"]
    BY <2>2, <2>4, Zenon
  <2>6. OpeningWallet \in Nat
    BY BillingAssumption
  <2>7. before + Total(rows, "amount", paid) = OpeningWallet + Total(rows, "to_wallet", Payments)
    BY DEF WalletBalanced, paid
  <2>8. after + Total(new, "amount", FromWallet(new)) =
          OpeningWallet + Total(new, "to_wallet", Payments)
    BY <1>3, <1>5, <1>6, <2>1, <2>5, <2>6, <2>7
  <2>9. QED BY <2>8 DEF WalletBalanced, new
<1>9. QED BY <1>7, <1>8

(* applyApproved() takes what the payment is of. *)
LEMMA ApprovedWallet ==
  ASSUME Books, WalletConserved, NEW p \in Payments, NEW row \in Payment,
         row.to_wallet = payment[p].to_wallet, payment[p].status \notin Received,
         Approved(p, row)
  PROVE  WalletBalanced(payment', wallet')
<1> DEFINE approved == [row EXCEPT !.status = "approved"]
<1>1. /\ approved \in Payment /\ approved.status \in Received
      /\ approved.amount = row.amount /\ approved.wallet = row.wallet
      /\ approved.to_wallet = row.to_wallet
  BY DEF Payment, Received
<1>2. /\ payment' = [payment EXCEPT ![p] = approved]
      /\ wallet' = IF row.wallet THEN wallet - row.amount ELSE wallet
  BY DEF Approved, Debited
<1> HIDE DEF approved
<1>3. /\ payment \in [Payments -> Payment] /\ wallet \in Int
      /\ wallet' \in Int /\ WalletBalanced(payment, wallet)
  BY <1>2 DEF Books, TypeOK, Payment, WalletConserved, WalletBalanced, FromWallet
<1>4. WalletBalanced([payment EXCEPT ![p] = approved], wallet')
  BY <1>1, <1>2, <1>3, WalletStep
<1>5. QED BY <1>2, <1>4

(* Every step keeps the wallet's balance. *)
LEMMA WalletNext ==
  ASSUME Books, WalletConserved, [Next]_vars
  PROVE  WalletConserved'
<1>0. wallet' \in Nat
  BY BooksNext DEF Books, TypeOK
<1> SUFFICES WalletBalanced(payment', wallet')
  BY <1>0 DEF WalletConserved, WalletBalanced, FromWallet
<1>1. /\ payment \in [Payments -> Payment] /\ wallet \in Nat /\ wallet \in Int
      /\ WalletBalanced(payment, wallet)
  BY DEF Books, TypeOK, WalletConserved, WalletBalanced, FromWallet
<1>2. CASE UNCHANGED <<payment, wallet>>
  BY <1>1, <1>2
<1>3. ASSUME NEW i \in Invoices, NEW p \in Payments, NEW amount \in Amounts,
             NEW fromWallet \in BOOLEAN,
             Submit(i, p, amount, fromWallet) \/ Record(i, p, amount, fromWallet)
      PROVE  WalletBalanced(payment', wallet')
  <2> DEFINE row == NewPayment(i, amount, fromWallet)
  <2>1. /\ row \in Payment /\ row.status = "pending" /\ row.to_wallet = 0
        /\ payment[p].status = "absent"
    BY <1>3, MadeOut DEF Submit, Record
  <2>2. payment[p].to_wallet = 0 /\ payment[p].status \notin Received
    BY <2>1 DEF Books, PaymentsSound, AbsentPayment, Received
  <2>3. CASE Submit(i, p, amount, fromWallet)
    <3>1. payment' = [payment EXCEPT ![p] = row] /\ wallet' = wallet
      BY <2>3 DEF Submit
    <3>2. row.status \notin Received /\ row.to_wallet = payment[p].to_wallet
      BY <2>1, <2>2 DEF Received
    <3> HIDE DEF row
    <3>3. WalletBalanced([payment EXCEPT ![p] = row], wallet)
      BY <1>1, <2>1, <2>2, <3>2, WalletStep
    <3>4. QED BY <3>1, <3>3
  <2>4. CASE Record(i, p, amount, fromWallet)
    <3>1. Approved(p, row) /\ row.to_wallet = payment[p].to_wallet
      BY <2>1, <2>2, <2>4 DEF Record
    <3> HIDE DEF row
    <3>2. QED BY <2>1, <2>2, <3>1, ApprovedWallet
  <2>5. QED BY <1>3, <2>3, <2>4
<1>4. ASSUME NEW p \in Payments, Approve(p) \/ Reject(p)
      PROVE  WalletBalanced(payment', wallet')
  <2>1. payment[p] \in Payment /\ payment[p].status \notin Received
    BY <1>1, <1>4 DEF Approve, Reject, Received
  <2>2. CASE Approve(p)
    BY <2>1, <2>2, ApprovedWallet DEF Approve
  <2>3. CASE Reject(p)
    <3> DEFINE row == [payment[p] EXCEPT !.status = "rejected"]
    <3>1. /\ row \in Payment /\ row.status \notin Received
          /\ row.to_wallet = payment[p].to_wallet
      BY <2>1 DEF Payment, Received
    <3>2. payment' = [payment EXCEPT ![p] = row] /\ wallet' = wallet
      BY <2>3 DEF Reject
    <3> HIDE DEF row
    <3>3. WalletBalanced([payment EXCEPT ![p] = row], wallet)
      BY <1>1, <2>1, <3>1, WalletStep
    <3>4. QED BY <3>2, <3>3
  <2>4. QED BY <1>4, <2>2, <2>3
<1>5. ASSUME NEW q \in Requests, FinishRefund(q)
      PROVE  WalletBalanced(payment', wallet')
  <2> DEFINE r == request[q]
             p == r.id
             new == r.payments[p]
             amount == r.amount
             flag == r.flag
             pay == payment[p]
  <2>1. /\ payment' = [payment EXCEPT ![p] = new]
        /\ wallet' = IF flag THEN wallet + amount ELSE wallet
        /\ r.stage = "refund" /\ r \in Request
    BY <1>5 DEF FinishRefund, Books, TypeOK
  <2>2. /\ p \in Payments /\ amount \in Nat \ {0} /\ flag \in BOOLEAN
        /\ pay \in Payment /\ pay.status \in Received
        /\ amount <= Refundable(pay) /\ new = Refunded(pay, amount, flag)
    BY <2>1, BillingAssumption DEF Books, TypeOK, RefundsSound, Request
  <2> HIDE DEF amount, flag, pay, new, p, r
  <2>3. /\ new \in Payment /\ new.status \in {"partially_refunded", "refunded"}
        /\ new.amount = pay.amount /\ new.wallet = pay.wallet
        /\ new.to_wallet = IF flag THEN pay.to_wallet + amount ELSE pay.to_wallet
    BY <2>2, RefundedRow
  <2>4. /\ wallet' \in Int /\ wallet' = wallet + new.to_wallet - pay.to_wallet
        /\ new.status \in Received
    BY <1>1, <2>1, <2>2, <2>3 DEF Payment, Received
  <2>5. WalletBalanced([payment EXCEPT ![p] = new], wallet')
    BY <1>1, <2>2, <2>3, <2>4, WalletStep DEF pay
  <2>6. QED BY <2>1, <2>5
<1>6. CASE OverdueJob \/ NextDay \/ UNCHANGED vars
  BY <1>2, <1>6 DEF OverdueJob, ReadOverdue, MarkOverdue, NextDay, vars, money
<1>7. ASSUME NEW q \in Requests, Handler(q) PROVE WalletBalanced(payment', wallet')
  BY <1>2, <1>5, <1>7 DEF Handler, ReadIssue, ReadChangePlan, ReadInvoice, StartRefund,
     Issue, Finalise, Cancel, ApplyCoupon, RemoveCoupon, ChangePlan, money
<1>8. CASE Money
  BY <1>3, <1>4, <1>8 DEF Money
<1>9. QED BY <1>6, <1>7, <1>8 DEF Next

(* With any number of approvals and refunds under way, the wallet is never *)
(* overdrawn and holds what refunds put in it less what wallet payments    *)
(* took.                                                                   *)
THEOREM WalletHolds == Spec => []WalletConserved
<1>1. Init => WalletConserved
  <2> SUFFICES ASSUME Init PROVE WalletConserved
    OBVIOUS
  <2>1. FromWallet(payment) = {} /\ payment \in [Payments -> Payment]
        /\ wallet = OpeningWallet /\ OpeningWallet \in Nat
    BY NewRows, BillingAssumption DEF Init, FromWallet, NoPayments, AbsentPayment
  <2>2. Total(payment, "amount", {}) = 0
    BY SumOfNone DEF Total
  <2>3. Total(payment, "to_wallet", Payments) = 0
    <3>1. \A p \in Payments : payment[p]["to_wallet"] = 0
      BY DEF Init, NoPayments, AbsentPayment
    <3>2. QED BY <3>1, IdsFinite, TotalOfZeros
  <2>4. WalletBalanced(payment, wallet)
    BY <2>1, <2>2, <2>3 DEF WalletBalanced
  <2>5. QED BY <2>1, <2>4 DEF WalletBalanced, WalletConserved, FromWallet
<1>2. QED BY <1>1, BooksInit, BooksNext, WalletNext, PTL DEF Spec

-----------------------------------------------------------------------------
(* The uses of the coupon. *)

(* Every invoice has a number of uses, and no more than all have together. *)
LEMMA UsesColumn ==
  ASSUME Books
  PROVE  /\ IsFiniteSet(Invoices) /\ invoice \in [Invoices -> Invoice]
         /\ \A i \in Invoices :
              invoice[i]["uses"] \in Nat /\ invoice[i]["uses"] <= Total(invoice, "uses", Invoices)
         /\ Total(invoice, "uses", Invoices) \in Nat
<1>1. IsFiniteSet(Invoices) /\ invoice \in [Invoices -> Invoice]
  BY IdsFinite DEF Books, TypeOK
<1>2. \A i \in Invoices : invoice[i]["uses"] \in Nat
  BY <1>1 DEF Invoice
<1>3. QED BY <1>1, <1>2, TotalInNat

(* One invoice is written, and the counter moves as its uses do. *)
LEMMA UsesStep ==
  ASSUME Books, CouponUsesCounted, NEW i \in Invoices, NEW row \in Invoice,
         invoice' = [invoice EXCEPT ![i] = row],
         usedCount' = usedCount + row.uses - invoice[i].uses
  PROVE  usedCount' = Total(invoice', "uses", Invoices)
<1>1. /\ IsFiniteSet(Invoices) /\ invoice \in [Invoices -> Invoice]
      /\ \A j \in Invoices : invoice[j]["uses"] \in Nat
      /\ Total(invoice, "uses", Invoices) \in Nat
  BY UsesColumn
<1>2. \A j \in Invoices : invoice'[j] = IF j = i THEN row ELSE invoice[j]
  BY <1>1
<1>3. /\ \A j \in Invoices : invoice'[j]["uses"] \in Nat
      /\ \A j \in Invoices \ {i} : invoice'[j]["uses"] = invoice[j]["uses"]
      /\ invoice'[i]["uses"] = row.uses /\ invoice[i]["uses"] = invoice[i].uses
  BY <1>1, <1>2 DEF Invoice
<1>4. Total(invoice', "uses", Invoices) =
        Total(invoice, "uses", Invoices) - invoice[i]["uses"] + invoice'[i]["uses"]
  <2> DEFINE after == invoice'
  <2>1. /\ \A j \in Invoices : invoice[j]["uses"] \in Nat /\ after[j]["uses"] \in Nat
        /\ \A j \in Invoices \ {i} : after[j]["uses"] = invoice[j]["uses"]
    BY <1>1, <1>3
  <2> HIDE DEF after
  <2>2. Total(after, "uses", Invoices) =
          Total(invoice, "uses", Invoices) - invoice[i]["uses"] + after[i]["uses"]
    BY <1>1, <2>1, TotalOfChanged
  <2>3. QED BY <2>2 DEF after
<1>5. row.uses \in Nat /\ invoice[i].uses \in Nat /\ usedCount \in Int
  BY <1>1 DEF Invoice, Books, TypeOK
<1>6. QED BY <1>1, <1>3, <1>4, <1>5 DEF CouponUsesCounted

(* What deleting an invoice's uses takes off the counter. *)
LEMMA UsesReleasedCounted ==
  ASSUME Books, CouponUsesCounted, NEW i \in Invoices, NEW row \in Invoice
  PROVE  /\ UsesReleased(row) \in Invoice
         /\ CountReleased(invoice[i]) = usedCount + UsesReleased(row).uses - invoice[i].uses
<1>1. /\ invoice[i].uses \in Nat /\ invoice[i].uses <= usedCount /\ usedCount \in Int
      /\ invoice[i]["uses"] = invoice[i].uses
  BY UsesColumn DEF CouponUsesCounted, Books, TypeOK
<1>2. UsesReleased(row) \in Invoice /\ UsesReleased(row).uses = 0
  BY DEF UsesReleased, Invoice
<1>3. QED BY <1>1, <1>2 DEF CountReleased

(* One invoice is written, its uses stay, and so does the counter.         *)
LEMMA UsesKept ==
  ASSUME Books, CouponUsesCounted, NEW i \in Invoices, NEW row \in Invoice,
         invoice' = [invoice EXCEPT ![i] = row], row.uses = invoice[i].uses,
         usedCount' = usedCount
  PROVE  usedCount' = Total(invoice', "uses", Invoices)
<1>1. usedCount' = usedCount + row.uses - invoice[i].uses
  BY DEF Invoice, Books, TypeOK
<1>2. QED BY <1>1, UsesStep

(* issue() *)
LEMMA IssueUses ==
  ASSUME Books, CouponUsesCounted, NEW q \in Requests, Issue(q)
  PROVE  usedCount' = Total(invoice', "uses", Invoices)
<1> DEFINE r == request[q]
<1>1. CASE UNCHANGED <<invoice, credit, usedCount>>
  BY <1>1 DEF CouponUsesCounted
<1>2. CASE ~ UNCHANGED <<invoice, credit, usedCount>>
  <2>1. PICK i \in Invoices, status \in {"draft", "unpaid"} :
          LET new == NewInvoice(r.id, Price, r.flag, r.amount, status, day)
          IN  /\ FreeId(invoice, i)
              /\ invoice' = [invoice EXCEPT ![i] = new]
              /\ usedCount' = usedCount + new.uses
    BY <1>2 DEF Issue
  <2> DEFINE new == NewInvoice(r.id, Price, r.flag, r.amount, status, day)
  <2>2. /\ r.id \in Nat /\ r.flag \in BOOLEAN /\ r.amount \in Int
        /\ day \in Nat /\ Price \in Nat
    BY BillingAssumption DEF Books, TypeOK, Request
  <2>3. new \in Invoice
    <3> HIDE DEF r
    <3> QED BY <2>2, InvoiceIssued
  <2>4. invoice[i].uses = 0
    BY <2>1 DEF FreeId, Books, InvoicesSound, AbsentInvoice
  <2>5. /\ invoice' = [invoice EXCEPT ![i] = new]
        /\ usedCount' = usedCount + new.uses
    BY <2>1
  <2> HIDE DEF new
  <2>6. usedCount' = usedCount + new.uses - invoice[i].uses
    BY <2>3, <2>4, <2>5 DEF Invoice, Books, TypeOK
  <2>7. QED BY <2>3, <2>5, <2>6, UsesStep
<1>3. QED BY <1>1, <1>2

(* finalise(), cancel(), applyCoupon() and removeCoupon() *)
LEMMA OperationUses ==
  ASSUME Books, CouponUsesCounted, NEW q \in Requests,
         Finalise(q) \/ Cancel(q) \/ ApplyCoupon(q) \/ RemoveCoupon(q)
  PROVE  usedCount' = Total(invoice', "uses", Invoices)
<1> DEFINE r == request[q]
           i == r.id
           current == invoice[i]
           read == r.read
<1>1. i \in Invoices /\ read \in Invoice /\ current \in Invoice
  BY HeldInvoice DEF Finalise, Cancel, ApplyCoupon, RemoveCoupon, InvoiceOperations
<1>2. usedCount \in Nat /\ current.uses \in Nat
  BY <1>1 DEF Books, TypeOK, Invoice
<1>3. CASE Finalise(q)
  <2> DEFINE new == [read EXCEPT !.status = "unpaid"]
             saved == Saved(current, read, new)
  <2>1. invoice' = [invoice EXCEPT ![i] = saved] /\ usedCount' = usedCount
    BY <1>3 DEF Finalise, ledger
  <2>2. new \in Invoice /\ new.uses = read.uses
    BY <1>1 DEF Invoice, Statuses
  <2>3. saved \in Invoice /\ saved.uses = current.uses
    <3> HIDE DEF r, i, current, read, new
    <3> QED BY <1>1, <2>2, SavedRow
  <2> HIDE DEF saved, i, read, r
  <2>4. QED BY <1>1, <2>1, <2>3, UsesKept
<1>4. CASE Cancel(q)
  <2> DEFINE new == CancelledInvoice(read)
             saved == Saved(current, read, new)
  <2>1. \/ invoice' = [invoice EXCEPT ![i] = UsesReleased(saved)]
             /\ usedCount' = CountReleased(current)
        \/ invoice' = [invoice EXCEPT ![i] = saved] /\ usedCount' = usedCount
    BY <1>4 DEF Cancel
  <2>2. new \in Invoice /\ new.uses = read.uses
    BY <1>1 DEF CancelledInvoice, Invoice, Statuses
  <2>3. saved \in Invoice /\ saved.uses = current.uses
    <3> HIDE DEF r, i, current, read, new
    <3> QED BY <1>1, <2>2, SavedRow
  <2> HIDE DEF saved, i, read, r
  <2>4. /\ UsesReleased(saved) \in Invoice
        /\ CountReleased(current) = usedCount + UsesReleased(saved).uses - current.uses
    BY <1>1, <2>3, UsesReleasedCounted
  <2>5. CASE invoice' = [invoice EXCEPT ![i] = saved] /\ usedCount' = usedCount
    BY <1>1, <2>3, <2>5, UsesKept
  <2>6. CASE invoice' = [invoice EXCEPT ![i] = UsesReleased(saved)]
               /\ usedCount' = CountReleased(current)
    BY <1>1, <2>4, <2>6, UsesStep
  <2>7. QED BY <2>1, <2>5, <2>6
<1>5. CASE ApplyCoupon(q)
  <2> DEFINE new == WithCoupon(read, TRUE)
             saved == Saved(current, read, new)
             used == [saved EXCEPT !.uses = @ + 1]
  <2>1. \/ invoice' = invoice /\ usedCount' = usedCount
        \/ invoice' = [invoice EXCEPT ![i] = used] /\ usedCount' = usedCount + 1
    BY <1>5 DEF ApplyCoupon
  <2>2. new \in Invoice /\ new.uses = read.uses
    <3>1. TRUE \in BOOLEAN
      OBVIOUS
    <3> HIDE DEF r, i, current, read
    <3>2. QED BY <1>1, <3>1, Recomputed, Zenon
  <2>3. saved \in Invoice /\ saved.uses = current.uses
    <3> HIDE DEF r, i, current, read, new
    <3> QED BY <1>1, <2>2, SavedRow
  <2> HIDE DEF saved, i, read, r
  <2>4. used \in Invoice /\ used.uses = current.uses + 1
    BY <1>2, <2>3 DEF Invoice
  <2> HIDE DEF used
  <2>5. CASE invoice' = [invoice EXCEPT ![i] = used] /\ usedCount' = usedCount + 1
    <3>1. usedCount' = usedCount + used.uses - current.uses
      BY <1>2, <2>4, <2>5
    <3>2. QED BY <1>1, <2>4, <2>5, <3>1, UsesStep
  <2>6. CASE invoice' = invoice /\ usedCount' = usedCount
    BY <2>6 DEF CouponUsesCounted
  <2>7. QED BY <2>1, <2>5, <2>6
<1>6. CASE RemoveCoupon(q)
  <2> DEFINE new == WithCoupon(read, FALSE)
             saved == Saved(current, read, new)
  <2>1. /\ invoice' = [invoice EXCEPT ![i] = UsesReleased(saved)]
        /\ usedCount' = CountReleased(current)
    BY <1>6 DEF RemoveCoupon
  <2>2. new \in Invoice
    <3>1. FALSE \in BOOLEAN
      OBVIOUS
    <3> HIDE DEF r, i, current, read
    <3>2. QED BY <1>1, <3>1, Recomputed, Zenon
  <2>3. saved \in Invoice
    <3> HIDE DEF r, i, current, read, new
    <3> QED BY <1>1, <2>2, SavedRow
  <2> HIDE DEF saved, i, read, r
  <2>4. /\ UsesReleased(saved) \in Invoice
        /\ CountReleased(current) = usedCount + UsesReleased(saved).uses - current.uses
    BY <1>1, <2>3, UsesReleasedCounted
  <2>5. QED BY <1>1, <2>1, <2>4, UsesStep
<1>7. QED BY <1>3, <1>4, <1>5, <1>6

(* applyApproved() *)
LEMMA ApprovedUses ==
  ASSUME Books, CouponUsesCounted, NEW p \in Payments, NEW row \in Payment,
         row.invoice \in Invoices, Approved(p, row), UNCHANGED ledger
  PROVE  usedCount' = Total(invoice', "uses", Invoices)
<1> DEFINE i == row.invoice
           approved == [row EXCEPT !.status = "approved"]
           new == AfterPayment(invoice[i], i, payment', day)
<1>1. approved \in Payment
  BY DEF Payment, Received
<1>2. /\ payment' = [payment EXCEPT ![p] = approved]
      /\ invoice' = [invoice EXCEPT ![i] = new] /\ usedCount' = usedCount
  BY DEF Approved, ledger
<1>3. payment' \in [Payments -> Payment] /\ invoice[i] \in Invoice /\ day \in Nat
  BY <1>1, <1>2 DEF Books, TypeOK
<1>4. new \in Invoice /\ new.uses = invoice[i].uses
  <2> HIDE DEF i
  <2> QED BY <1>3, MoneyApplied
<1> HIDE DEF new
<1>5. QED BY <1>2, <1>4, UsesKept

(* Every step keeps the count. *)
LEMMA UsesNext ==
  ASSUME Books, CouponUsesCounted, [Next]_vars
  PROVE  CouponUsesCounted'
<1> SUFFICES usedCount' = Total(invoice', "uses", Invoices)
  BY BooksNext, BillingAssumption DEF CouponUsesCounted, Books, TypeOK
<1>1. CASE UNCHANGED <<invoice, usedCount>>
  BY <1>1 DEF CouponUsesCounted
<1>2. ASSUME NEW q \in Requests, Handler(q)
      PROVE  usedCount' = Total(invoice', "uses", Invoices)
  <2>1. CASE Issue(q)
    BY <2>1, IssueUses
  <2>2. CASE Finalise(q) \/ Cancel(q) \/ ApplyCoupon(q) \/ RemoveCoupon(q)
    BY <2>2, OperationUses
  <2>3. CASE \E proration \in Prorations : ChangePlan(q, proration[1], proration[2])
    <3>1. PICK proration \in Prorations : ChangePlan(q, proration[1], proration[2])
      BY <2>3
    <3> DEFINE due == proration[2]
               rest == due - Least(request[q].amount + proration[1], due)
               new == NewInvoice(0, rest, FALSE, 0, "unpaid", day)
    <3>2. CASE UNCHANGED invoice
      BY <1>1, <3>1, <3>2 DEF ChangePlan
    <3>3. CASE ~ UNCHANGED invoice
      <4>1. PICK i \in Invoices :
              FreeId(invoice, i) /\ invoice' = [invoice EXCEPT ![i] = new]
        BY <3>1, <3>3 DEF ChangePlan
      <4>2. rest \in Nat /\ day \in Nat
        <5>1. proration[1] \in Nat /\ due \in Nat /\ request[q].amount \in Int
          BY BillingAssumption DEF Books, TypeOK, Request
        <5> HIDE DEF due
        <5>2. QED BY <5>1 DEF Least, Books, TypeOK
      <4>3. new \in Invoice
        <5>1. FALSE \in BOOLEAN /\ "unpaid" \in {"draft", "unpaid"} /\ 0 \in Nat /\ 0 \in Int
          OBVIOUS
        <5> HIDE DEF rest
        <5>2. QED BY <4>2, <5>1, InvoiceIssued, Zenon
      <4>4. new.uses = 0
        <5> HIDE DEF rest
        <5> QED BY DEF NewInvoice, WithTotals, AbsentInvoice
      <4>5. invoice[i].uses = 0
        BY <4>1 DEF FreeId, Books, InvoicesSound, AbsentInvoice
      <4>6. usedCount' = usedCount
        BY <3>1 DEF ChangePlan
      <4> HIDE DEF new
      <4>7. new.uses = invoice[i].uses
        BY <4>4, <4>5
      <4>8. QED BY <4>1, <4>3, <4>6, <4>7, UsesKept
    <3>4. QED BY <3>2, <3>3
  <2>4. CASE FinishRefund(q)
    <3> DEFINE r == request[q]
               i == payment[r.id].invoice
               new == AfterRefund(invoice[i], i, r.payments, day)
    <3>1. /\ r.stage = "refund" /\ invoice' = [invoice EXCEPT ![i] = new]
          /\ usedCount' = usedCount
      BY <2>4 DEF FinishRefund, ledger, Books, TypeOK
    <3>2. r.id \in Payments /\ payment[r.id].status # "absent"
      BY <3>1 DEF Books, RefundsSound, Received
    <3>3. i \in Invoices
      BY <3>2 DEF Books, PaymentsSound
    <3>4. invoice[i] \in Invoice /\ r.payments \in [Payments -> Payment] /\ day \in Nat
      BY <3>3 DEF Books, TypeOK, Request
    <3>5. new \in Invoice /\ new.uses = invoice[i].uses
      <4> HIDE DEF i, r
      <4> QED BY <3>4, MoneyApplied
    <3> HIDE DEF new, i
    <3>6. QED BY <3>1, <3>3, <3>5, UsesKept
  <2>5. QED BY <1>1, <1>2, <2>1, <2>2, <2>3, <2>4
            DEF Handler, ReadIssue, ReadChangePlan, ReadInvoice, StartRefund, ledger
<1>3. ASSUME NEW i \in Invoices, NEW p \in Payments, NEW amount \in Amounts,
             NEW fromWallet \in BOOLEAN,
             Submit(i, p, amount, fromWallet) \/ Record(i, p, amount, fromWallet)
      PROVE  usedCount' = Total(invoice', "uses", Invoices)
  <2> DEFINE row == NewPayment(i, amount, fromWallet)
  <2>1. CASE Submit(i, p, amount, fromWallet)
    BY <1>1, <2>1 DEF Submit, ledger
  <2>2. CASE Record(i, p, amount, fromWallet)
    <3>1. row \in Payment /\ row.invoice = i
      BY <2>2, MadeOut DEF Record
    <3>2. Approved(p, row) /\ UNCHANGED ledger
      BY <2>2 DEF Record
    <3> HIDE DEF row
    <3>3. QED BY <3>1, <3>2, ApprovedUses
  <2>3. QED BY <1>3, <2>1, <2>2
<1>4. ASSUME NEW p \in Payments, Approve(p) \/ Reject(p)
      PROVE  usedCount' = Total(invoice', "uses", Invoices)
  <2>1. CASE Approve(p)
    <3>1. /\ payment[p] \in Payment /\ payment[p].invoice \in Invoices
          /\ Approved(p, payment[p]) /\ UNCHANGED ledger
      BY <2>1 DEF Approve, Books, TypeOK, PaymentsSound
    <3>2. QED BY <3>1, ApprovedUses
  <2>2. CASE Reject(p)
    BY <1>1, <2>2 DEF Reject, ledger
  <2>3. QED BY <1>4, <2>1, <2>2
<1>5. ASSUME NEW i \in Invoices, MarkOverdue(i)
      PROVE  usedCount' = Total(invoice', "uses", Invoices)
  <2> DEFINE new == [invoice[i] EXCEPT !.status = "overdue"]
  <2>1. invoice' = [invoice EXCEPT ![i] = new] /\ usedCount' = usedCount
    BY <1>5 DEF MarkOverdue, ledger
  <2>2. new \in Invoice /\ new.uses = invoice[i].uses
    BY DEF Books, TypeOK, Invoice, Statuses
  <2> HIDE DEF new
  <2>3. QED BY <2>1, <2>2, UsesKept
<1>6. CASE ReadOverdue \/ NextDay \/ UNCHANGED vars
  BY <1>1, <1>6 DEF ReadOverdue, NextDay, vars, ledger
<1>7. QED BY <1>2, <1>3, <1>4, <1>5, <1>6 DEF Next, Money, OverdueJob

(* used_count counts the uses that are recorded, and Maximum Uses bounds   *)
(* them, though invoices are judged without a lock.                        *)
THEOREM CouponUsesBounded == Spec => []CouponUsesCounted
<1>1. Init => CouponUsesCounted
  <2> SUFFICES ASSUME Init PROVE CouponUsesCounted
    OBVIOUS
  <2>1. \A i \in Invoices : invoice[i]["uses"] = 0
    BY DEF Init, AbsentInvoice
  <2>2. Total(invoice, "uses", Invoices) = 0
    BY <2>1, IdsFinite, TotalOfZeros
  <2>3. QED BY <2>2, BillingAssumption DEF Init, CouponUsesCounted
<1>2. QED BY <1>1, BooksInit, BooksNext, UsesNext, PTL DEF Spec

-----------------------------------------------------------------------------
(* One operation at a time: the figures of an invoice, and the credit. *)

Brought(rows, i) == SumFunction([p \in PaymentsOf(rows, i) |-> Refundable(rows[p])])

(* What AmountsAgree says of one invoice, and that none is paid for free. *)
Agrees(inv, brought) ==
  /\ inv.amount_paid = brought
  /\ inv.status \notin {"absent", "cancelled"} =>
       inv.amount_due = Minus(inv.total, inv.amount_paid + inv.credit_applied)
  /\ inv.status = "paid" => inv.amount_due = 0 /\ inv.total > 0
  /\ inv.status = "partially_paid" => inv.amount_paid > 0
  /\ inv.status \in {"draft", "unpaid", "refunded"} => inv.amount_paid = 0

(* Figures is AmountsAgree and PaidForSomething. *)
LEMMA FiguresAgree ==
  (\A i \in Invoices : Agrees(invoice[i], Brought(payment, i)))
    <=> AmountsAgree /\ PaidForSomething
BY DEF AmountsAgree, PaidForSomething, Agrees, Brought

(* What a payment brings is what it is of less what went back, so what     *)
(* payments bring together is what came in less what went back.            *)
LEMMA BroughtIsNet ==
  ASSUME NEW rows \in [Payments -> Payment], NEW i,
         \A p \in PaymentsOf(rows, i) : rows[p].refunded_amount <= rows[p].amount
  PROVE  Brought(rows, i) = NetReceived(rows, i)
<1> DEFINE ids == PaymentsOf(rows, i)
           arrived == [p \in ids |-> rows[p]["amount"]]
           back == [p \in ids |-> rows[p]["refunded_amount"]]
           rest == [p \in ids |-> Refundable(rows[p])]
<1>1. /\ ids \subseteq Payments /\ IsFiniteSet(ids)
      /\ Arrived(rows, i) \in Nat /\ GivenBack(rows, i) \in Nat
  BY NetReceivedNat
<1>2. \A p \in ids : /\ arrived[p] \in Nat /\ back[p] \in Nat /\ back[p] <= arrived[p]
                     /\ rest[p] = arrived[p] - back[p]
  BY <1>1 DEF Payment, Refundable
<1>3. SumFunctionOnSet(rest, ids) = SumFunctionOnSet(arrived, ids) - SumFunctionOnSet(back, ids)
  <2> HIDE DEF arrived, back, rest, ids
  <2> QED BY <1>1, <1>2, SumOfDifferences
<1>4. Brought(rows, i) = SumFunctionOnSet(rest, ids)
  BY DEF Brought, SumFunction
<1>5. /\ Arrived(rows, i) = SumFunctionOnSet(arrived, ids)
      /\ GivenBack(rows, i) = SumFunctionOnSet(back, ids)
  BY DEF Arrived, GivenBack, Total
<1>6. SumFunctionOnSet(rest, ids) \in Nat
  <2>1. \A p \in ids : rest[p] \in Nat
    BY <1>2
  <2> HIDE DEF rest, ids
  <2>2. QED BY <1>1, <2>1, SumInNat
<1> HIDE DEF arrived, back, rest, ids
<1>7. QED BY <1>1, <1>3, <1>4, <1>5, <1>6 DEF NetReceived, Minus

(* PaymentsSound lets BroughtIsNet be used. *)
LEMMA ReceivedRows ==
  ASSUME Books
  PROVE  /\ payment \in [Payments -> Payment]
         /\ \A i, p : p \in PaymentsOf(payment, i) => payment[p].refunded_amount <= payment[p].amount
<1>1. payment \in [Payments -> Payment]
  BY DEF Books, TypeOK
<1>2. \A p \in Payments : payment[p].status \in Received =>
        payment[p].refunded_amount <= payment[p].amount
  BY <1>1 DEF Books, PaymentsSound, Received, Payment
<1>3. QED BY <1>1, <1>2 DEF PaymentsOf

(* Nothing has been paid on an invoice that is not there. *)
LEMMA NothingBrought ==
  ASSUME Books, NEW i \in Invoices, invoice[i].status = "absent"
  PROVE  Brought(payment, i) = 0
<1>1. PaymentsOf(payment, i) = {}
  BY DEF PaymentsOf, Books, TypeOK, PaymentsSound, Received
<1>2. QED BY <1>1, SumOfNone DEF Brought, SumFunction

(* applyPayment() and applyRefund() make an invoice agree with the         *)
(* payments they are given.                                                *)
LEMMA MoneyAgrees ==
  ASSUME NEW rows \in [Payments -> Payment], NEW i, NEW inv \in Invoice,
         inv.status # "absent", NEW today \in Nat,
         \A p \in PaymentsOf(rows, i) : rows[p].refunded_amount <= rows[p].amount
  PROVE  /\ Agrees(AfterPayment(inv, i, rows, today), Brought(rows, i))
         /\ Agrees(AfterRefund(inv, i, rows, today), Brought(rows, i))
<1> DEFINE paid == NetReceived(rows, i)
           settled == SettledStatus(inv, paid, today)
           due == Minus(inv.total, paid + inv.credit_applied)
           new == AfterPayment(inv, i, rows, today)
           back == AfterRefund(inv, i, rows, today)
<1>1. paid \in Nat /\ Brought(rows, i) = paid
  BY NetReceivedNat, BroughtIsNet
<1>2. inv.total \in Nat /\ inv.credit_applied \in Nat
      /\ inv.status \in Statuses
  BY DEF Invoice
<1>3. new = [inv EXCEPT !.amount_paid = paid, !.amount_due = due, !.status = settled]
  BY DEF AfterPayment
<1>4. /\ settled = "paid" => due = 0 /\ inv.total > 0
      /\ settled = "partially_paid" => paid > 0
      /\ settled \in {"draft", "unpaid", "refunded"} => paid = 0
  <2> HIDE DEF paid
  <2> QED BY <1>1, <1>2 DEF SettledStatus, Minus, Statuses
<1>5. due = Minus(inv.total, paid + inv.credit_applied)
  OBVIOUS
<1>6. \/ back = new
      \/ back = [new EXCEPT !.status = "refunded"] /\ new.amount_paid = 0
  BY DEF AfterRefund
<1> HIDE DEF paid, settled, due, new, back
<1>7. /\ new.amount_paid = paid /\ new.amount_due = due /\ new.status = settled
      /\ new.total = inv.total /\ new.credit_applied = inv.credit_applied
      /\ DOMAIN new = DOMAIN inv
  BY <1>3 DEF Invoice
<1>8. Agrees(new, paid)
  BY <1>4, <1>5, <1>7 DEF Agrees
<1>9. /\ back.amount_paid = paid /\ back.amount_due = due
      /\ back.total = inv.total /\ back.credit_applied = inv.credit_applied
      /\ back.status # settled => back.status = "refunded" /\ paid = 0
  BY <1>6, <1>7 DEF Invoice
<1>10. Agrees(back, paid)
  <2>1. CASE back.status = settled
    BY <1>4, <1>5, <1>9, <2>1 DEF Agrees
  <2>2. CASE back.status = "refunded" /\ paid = 0
    BY <1>5, <1>9, <2>2 DEF Agrees
  <2>3. QED BY <1>9, <2>1, <2>2
<1>11. QED BY <1>1, <1>8, <1>10 DEF new, back

-----------------------------------------------------------------------------
(* What handlers hold. *)

AllIdle == \A q \in Requests : request[q].stage = "idle"

(* While an operation is under way no other is, and the job flags nothing. *)
LEMMA OthersIdle ==
  ASSUME Books, Serial, NEW q \in Requests, request[q].stage # "idle"
  PROVE  /\ dunning = {}
         /\ Done(q) => AllIdle'
<1>1. /\ \A r \in Requests : r # q => request[r].stage = "idle"
      /\ dunning = {}
  BY DEF Serial, Alone
<1>2. ASSUME Done(q) PROVE AllIdle'
  BY <1>1, <1>2 DEF Done, AllIdle, Idle, Books, TypeOK
<1>3. QED BY <1>1, <1>2

(* What holds once nobody holds anything. *)
LEMMA IdleSerial ==
  ASSUME AllIdle', \A i \in dunning' : invoice'[i].status \in {"unpaid", "partially_paid"}
  PROVE  Alone' /\ Current'
<1>1. Alone'
  BY DEF Alone, AllIdle
<1>2. Current'
  BY DEF Current, AllIdle, InvoiceOperations
<1>3. QED BY <1>1, <1>2

(* A step that reads starts from rest, and reads what there is. *)
LEMMA ReadSerial ==
  ASSUME ~Overlap, Books, NEW q \in Requests,
         \/ \E p \in Periods, coupon \in BOOLEAN, available \in {0, credit} :
              ReadIssue(q, p, coupon, available)
         \/ ReadChangePlan(q)
         \/ \E op \in InvoiceOperations, i \in Invoices : ReadInvoice(q, op, i)
         \/ \E p \in Payments, amount \in Amounts, toWallet \in BOOLEAN :
              StartRefund(q, p, amount, toWallet)
  PROVE  /\ Alone' /\ Current'
         /\ UNCHANGED <<day, invoice, payment, wallet, credit, usedCount, granted, dunning>>
<1>1. /\ UNCHANGED <<day, invoice, payment, wallet, credit, usedCount, granted, dunning>>
      /\ dunning = {} /\ \A r \in Requests : request[r].stage = "idle"
      /\ request \in [Requests -> Request]
  BY DEF ReadIssue, ReadChangePlan, ReadInvoice, StartRefund, Accepts, MayStart, money, ledger,
         Books, TypeOK
<1>2. PICK held :
        /\ request' = [request EXCEPT ![q] = held]
        /\ held.stage \in InvoiceOperations => held.read = invoice[held.id]
        /\ held.stage = "finalise" => held.read.status = "draft"
        /\ held.stage = "cancel" => CanCancel(held.read)
        /\ held.stage = "applyCoupon" => CanApplyCoupon(held.read)
        /\ held.stage = "removeCoupon" => CanRemoveCoupon(held.read)
        /\ held.stage = "issue" => held.amount \in {0, credit}
        /\ held.stage = "changePlan" => held.amount = credit
        /\ held.stage = "refund" =>
             held.payments = [payment EXCEPT
               ![held.id] = Refunded(payment[held.id], held.amount, held.flag)]
  <2>1. ASSUME NEW p \in Periods, NEW coupon \in BOOLEAN, NEW available \in {0, credit},
               ReadIssue(q, p, coupon, available)
        PROVE  \E held : /\ request' = [request EXCEPT ![q] = held]
                         /\ held.stage = "issue" /\ held.amount \in {0, credit}
    <3> DEFINE held == [Idle EXCEPT !.stage = "issue", !.id = p, !.amount = available,
                                    !.flag = coupon]
    <3>1. request' = [request EXCEPT ![q] = held]
      BY <2>1 DEF ReadIssue, Hold
    <3>2. held.stage = "issue" /\ held.amount = available
      BY DEF Idle
    <3>3. QED BY <3>1, <3>2
  <2>2. ASSUME ReadChangePlan(q)
        PROVE  \E held : /\ request' = [request EXCEPT ![q] = held]
                         /\ held.stage = "changePlan" /\ held.amount = credit
    <3> DEFINE held == [Idle EXCEPT !.stage = "changePlan", !.amount = credit]
    <3>1. request' = [request EXCEPT ![q] = held]
      BY <2>2 DEF ReadChangePlan, Hold
    <3>2. held.stage = "changePlan" /\ held.amount = credit
      BY DEF Idle
    <3>3. QED BY <3>1, <3>2
  <2>3. ASSUME NEW op \in InvoiceOperations, NEW i \in Invoices, ReadInvoice(q, op, i)
        PROVE  \E held : /\ request' = [request EXCEPT ![q] = held]
                         /\ held.stage = op /\ held.id = i /\ held.read = invoice[i]
    <3> DEFINE held == [Idle EXCEPT !.stage = op, !.id = i, !.read = invoice[i]]
    <3>1. request' = [request EXCEPT ![q] = held]
      BY <2>3 DEF ReadInvoice, Hold
    <3>2. held.stage = op /\ held.id = i /\ held.read = invoice[i]
      BY DEF Idle
    <3>3. QED BY <3>1, <3>2
  <2>4. ASSUME NEW op \in InvoiceOperations, NEW i \in Invoices, ReadInvoice(q, op, i)
        PROVE  /\ op = "finalise" => invoice[i].status = "draft"
               /\ op = "cancel" => CanCancel(invoice[i])
               /\ op = "applyCoupon" => CanApplyCoupon(invoice[i])
               /\ op = "removeCoupon" => CanRemoveCoupon(invoice[i])
    BY <2>4 DEF ReadInvoice, InvoiceOperations
  <2>5. ASSUME NEW p \in Payments, NEW amount \in Amounts, NEW toWallet \in BOOLEAN,
               StartRefund(q, p, amount, toWallet)
        PROVE  \E held : /\ request' = [request EXCEPT ![q] = held]
                         /\ held.stage = "refund"
                         /\ held.payments = [payment EXCEPT
                              ![held.id] = Refunded(payment[held.id], held.amount, held.flag)]
    <3> DEFINE snapshot == [payment EXCEPT ![p] = Refunded(payment[p], amount, toWallet)]
               held == [Idle EXCEPT !.stage = "refund", !.id = p, !.amount = amount,
                                    !.flag = toWallet, !.payments = snapshot]
    <3>1. request' = [request EXCEPT ![q] = held]
      BY <1>1, <2>5 DEF StartRefund, Hold
    <3> HIDE DEF snapshot
    <3>2. /\ held.stage = "refund" /\ held.id = p /\ held.amount = amount
          /\ held.payments = snapshot
      BY DEF Idle
    <3>3. held.flag = toWallet
      BY DEF Idle
    <3> HIDE DEF held
    <3>4. held.payments = [payment EXCEPT
                             ![held.id] = Refunded(payment[held.id], held.amount, held.flag)]
      BY <3>2, <3>3 DEF snapshot
    <3>5. QED BY <3>1, <3>2, <3>4
  <2>6. CASE \E p \in Periods, coupon \in BOOLEAN, available \in {0, credit} :
               ReadIssue(q, p, coupon, available)
    BY <2>1, <2>6 DEF InvoiceOperations
  <2>7. CASE ReadChangePlan(q)
    BY <2>2, <2>7 DEF InvoiceOperations
  <2>8. CASE \E op \in InvoiceOperations, i \in Invoices : ReadInvoice(q, op, i)
    <3>1. PICK op \in InvoiceOperations, i \in Invoices : ReadInvoice(q, op, i)
      BY <2>8
    <3>2. PICK held : /\ request' = [request EXCEPT ![q] = held]
                      /\ held.stage = op /\ held.id = i /\ held.read = invoice[i]
      BY <2>3, <3>1
    <3>3. QED BY <2>4, <3>1, <3>2 DEF InvoiceOperations
  <2>9. CASE \E p \in Payments, amount \in Amounts, toWallet \in BOOLEAN :
               StartRefund(q, p, amount, toWallet)
    BY <2>5, <2>9 DEF InvoiceOperations
  <2>10. QED BY <2>6, <2>7, <2>8, <2>9
<1>3. \A r \in Requests : request'[r] = IF r = q THEN held ELSE request[r]
  BY <1>1, <1>2
<1>4. Alone'
  BY <1>1, <1>3 DEF Alone
<1>5. Current'
  BY <1>1, <1>2, <1>3 DEF Current, InvoiceOperations
<1>6. QED BY <1>1, <1>4, <1>5

-----------------------------------------------------------------------------
(* What the steps write. *)

Figures == Books /\ Serial /\ AmountsAgree /\ CreditConserved

(* A paid invoice stays paid or money goes back. *)
PaidStays ==
  \A i \in Invoices :
    invoice[i].status = "paid" /\ invoice'[i].status # "paid"
      => GivenBack(payment', i) > GivenBack(payment, i)

KeepsFigures == AmountsAgree' /\ PaidForSomething' /\ CreditConserved' /\ PaidStays

(* One invoice that is not paid is written, in agreement with the money,   *)
(* and the credit moves as what is applied to it does.                     *)
ProperWrite(i, row) ==
  /\ invoice' = [invoice EXCEPT ![i] = row] /\ payment' = payment
  /\ Agrees(row, Brought(payment, i)) /\ invoice[i].status # "paid"
  /\ credit' >= 0
  /\ credit' - granted' + row.credit_applied = credit - granted + invoice[i].credit_applied

(* The credit on invoices moves as one invoice's does. *)
LEMMA CreditStep ==
  ASSUME Books, Books', CreditConserved, NEW i \in Invoices, NEW row \in Invoice,
         invoice' = [invoice EXCEPT ![i] = row], credit' >= 0,
         credit' - granted' + row.credit_applied = credit - granted + invoice[i].credit_applied
  PROVE  CreditConserved'
<1> DEFINE after == invoice'
<1>1. /\ IsFiniteSet(Invoices) /\ invoice \in [Invoices -> Invoice]
      /\ \A j \in Invoices : invoice[j]["credit_applied"] \in Nat
      /\ credit \in Int /\ credit' \in Int /\ granted \in Int /\ granted' \in Int
  BY IdsFinite DEF Books, TypeOK, Invoice
<1>2. \A j \in Invoices : after[j] = IF j = i THEN row ELSE invoice[j]
  BY <1>1
<1> HIDE DEF after
<1>3. /\ \A j \in Invoices :
           invoice[j]["credit_applied"] \in Nat /\ after[j]["credit_applied"] \in Nat
      /\ \A j \in Invoices \ {i} : after[j]["credit_applied"] = invoice[j]["credit_applied"]
      /\ after[i]["credit_applied"] = row.credit_applied
      /\ invoice[i]["credit_applied"] = invoice[i].credit_applied
  BY <1>1, <1>2 DEF Invoice
<1>4. Total(after, "credit_applied", Invoices) =
        Total(invoice, "credit_applied", Invoices)
          - invoice[i]["credit_applied"] + after[i]["credit_applied"]
  BY <1>1, <1>3, TotalOfChanged
<1>5. Total(invoice, "credit_applied", Invoices) \in Nat
  BY <1>1, TotalInNat
<1>6. row.credit_applied \in Nat /\ invoice[i].credit_applied \in Nat
  BY <1>1 DEF Invoice
<1>7. credit' + Total(after, "credit_applied", Invoices) = granted'
  BY <1>1, <1>3, <1>4, <1>5, <1>6 DEF CreditConserved
<1>8. QED BY <1>7 DEF CreditConserved, after

(* A proper write keeps the figures. *)
LEMMA ProperWriteKeeps ==
  ASSUME Figures, Books', NEW i \in Invoices, NEW row \in Invoice, ProperWrite(i, row)
  PROVE  KeepsFigures
<1>1. /\ invoice \in [Invoices -> Invoice] /\ payment' = payment
      /\ \A j \in Invoices : invoice'[j] = IF j = i THEN row ELSE invoice[j]
      /\ Agrees(row, Brought(payment, i)) /\ invoice[i].status # "paid"
  BY DEF Figures, Books, TypeOK, ProperWrite
<1>2. \A j \in Invoices : Agrees(invoice[j], Brought(payment, j))
  BY FiguresAgree DEF Figures, Serial
<1>3. \A j \in Invoices : Agrees(invoice'[j], Brought(payment', j))
  BY <1>1, <1>2
<1>4. AmountsAgree' /\ PaidForSomething'
  BY <1>3 DEF AmountsAgree, PaidForSomething, Agrees, Brought
<1>5. CreditConserved'
  BY CreditStep DEF Figures, ProperWrite
<1>6. PaidStays
  BY <1>1 DEF PaidStays
<1>7. QED BY <1>4, <1>5, <1>6 DEF KeepsFigures

(* So does a step that writes no row and gives as much credit as it adds. *)
LEMMA NoWriteKeeps ==
  ASSUME Figures, UNCHANGED <<invoice, payment>>, credit' \in Int, granted' \in Int,
         credit' >= 0, credit' - granted' = credit - granted
  PROVE  KeepsFigures
<1>1. AmountsAgree' /\ PaidForSomething' /\ PaidStays
  BY DEF Figures, Serial, AmountsAgree, PaidForSomething, PaidStays
<1>2. Total(invoice, "credit_applied", Invoices) \in Nat
  BY IdsFinite, TotalInNat DEF Figures, Books, TypeOK, Invoice
<1>3. Total(invoice', "credit_applied", Invoices) = Total(invoice, "credit_applied", Invoices)
  BY Zenon
<1>4. CreditConserved'
  <2> DEFINE total == Total(invoice, "credit_applied", Invoices)
  <2>1. credit \in Int /\ granted \in Int
    BY DEF Figures, Books, TypeOK
  <2>2. total \in Nat /\ credit + total = granted
    BY <1>2 DEF Figures, CreditConserved
  <2> HIDE DEF total
  <2>3. /\ credit' \in Int /\ granted' \in Int
        /\ credit' - granted' = credit - granted
    OBVIOUS
  <2>4. credit' + total = granted'
    <3> DEFINE c == credit'
               g == granted'
    <3>1. c \in Int /\ g \in Int /\ c - g = credit - granted
      BY <2>3
    <3> HIDE DEF c, g
    <3>2. c + total = g
      BY <2>1, <2>2, <3>1
    <3>3. QED BY <3>2 DEF c, g
  <2>5. QED BY <1>3, <2>4 DEF total, CreditConserved
<1>5. QED BY <1>1, <1>4 DEF KeepsFigures

(* A new invoice on a free id takes its credit from the balance. *)
LEMMA NewInvoiceAgrees ==
  ASSUME Books, NEW i \in Invoices, FreeId(invoice, i),
         NEW p \in Nat, NEW subtotal \in Nat, NEW coupon \in BOOLEAN, NEW available \in Int,
         NEW status \in {"draft", "unpaid"}
  PROVE  LET new == NewInvoice(p, subtotal, coupon, available, status, day)
         IN  /\ new \in Invoice /\ Agrees(new, Brought(payment, i))
             /\ new.credit_applied <= Minus(available, 0)
             /\ invoice[i].status # "paid" /\ invoice[i].credit_applied = 0
<1> DEFINE new == NewInvoice(p, subtotal, coupon, available, status, day)
<1>1. /\ invoice[i].status = "absent" /\ day \in Nat
      /\ invoice[i].credit_applied = 0
  BY DEF FreeId, Books, TypeOK, InvoicesSound, AbsentInvoice
<1>2. new \in Invoice /\ Issued(new, available)
  <2> DEFINE flag == coupon
  <2>1. flag \in BOOLEAN /\ day \in Nat
    BY <1>1
  <2> HIDE DEF flag
  <2>2. LET row == NewInvoice(p, subtotal, flag, available, status, day)
        IN  row \in Invoice /\ Issued(row, available)
    BY <2>1, InvoiceIssued
  <2>3. QED BY <2>2 DEF flag
<1> HIDE DEF new
<1>3. Brought(payment, i) = 0
  BY <1>1, NothingBrought
<1>4. new.amount_paid + new.credit_applied = new.credit_applied
  BY <1>2 DEF Issued, Invoice
<1>5. Agrees(new, Brought(payment, i))
  BY <1>2, <1>3, <1>4 DEF Agrees, Issued
<1>6. QED BY <1>1, <1>2, <1>5 DEF new, Issued

(* issue() *)
LEMMA IssueFigures ==
  ASSUME Figures, Books', NEW q \in Requests, Issue(q)
  PROVE  KeepsFigures
<1> DEFINE r == request[q]
<1>1. /\ r.stage = "issue" /\ payment' = payment /\ granted' = granted
      /\ credit \in Int /\ granted \in Int /\ credit >= 0
  BY DEF Issue, money, Figures, Books, TypeOK, CreditConserved
<1>2. r \in Request /\ r.amount \in {0, credit}
  BY <1>1 DEF Figures, Books, TypeOK, Serial, Current
<1>3. CASE UNCHANGED <<invoice, credit, usedCount>>
  BY <1>1, <1>3, NoWriteKeeps
<1>4. CASE ~ UNCHANGED <<invoice, credit, usedCount>>
  <2>1. PICK i \in Invoices, status \in {"draft", "unpaid"} :
          LET new == NewInvoice(r.id, Price, r.flag, r.amount, status, day)
          IN  /\ FreeId(invoice, i)
              /\ invoice' = [invoice EXCEPT ![i] = new]
              /\ credit' = credit - new.credit_applied
    BY <1>4 DEF Issue
  <2> DEFINE available == r.amount
             new == NewInvoice(r.id, Price, r.flag, available, status, day)
  <2>2. /\ r.id \in Nat /\ r.flag \in BOOLEAN /\ available \in Int /\ Price \in Nat
        /\ available \in {0, credit}
    BY <1>2, BillingAssumption DEF Request
  <2>3. /\ new \in Invoice /\ Agrees(new, Brought(payment, i))
        /\ new.credit_applied <= Minus(available, 0)
        /\ invoice[i].status # "paid" /\ invoice[i].credit_applied = 0
    <3> HIDE DEF r, available
    <3> QED BY <2>1, <2>2, NewInvoiceAgrees DEF Figures
  <2>4. invoice' = [invoice EXCEPT ![i] = new] /\ credit' = credit - new.credit_applied
    BY <2>1
  <2> HIDE DEF new, available, r
  <2>5. new.credit_applied \in Nat /\ new.credit_applied <= credit
    BY <1>1, <2>2, <2>3 DEF Invoice, Minus
  <2>6. ProperWrite(i, new)
    BY <1>1, <2>3, <2>4, <2>5 DEF ProperWrite
  <2>7. QED BY <2>3, <2>6, ProperWriteKeeps
<1>5. QED BY <1>3, <1>4

(* finalise(), cancel(), applyCoupon() and removeCoupon(): the row is what *)
(* was read, so what is saved is what was computed from it.                *)
LEMMA OperationFigures ==
  ASSUME Figures, Books', NEW q \in Requests,
         Finalise(q) \/ Cancel(q) \/ ApplyCoupon(q) \/ RemoveCoupon(q)
  PROVE  KeepsFigures
<1> DEFINE r == request[q]
           i == r.id
           read == r.read
<1>1. /\ r.stage \in InvoiceOperations
      /\ payment' = payment /\ granted' = granted
      /\ credit \in Int /\ granted \in Int /\ credit >= 0
  BY DEF Finalise, Cancel, ApplyCoupon, RemoveCoupon, InvoiceOperations, money, ledger,
         Figures, Books, TypeOK, CreditConserved
<1>2. i \in Invoices /\ read \in Invoice /\ read = invoice[i]
  BY <1>1, HeldInvoice DEF Figures, Serial, Current
<1>3. Agrees(read, Brought(payment, i))
  BY <1>2, FiguresAgree DEF Figures, Serial
<1>4. read.credit_applied \in Nat /\ read.amount_paid \in Nat
  BY <1>2 DEF Invoice
<1>5. CASE Finalise(q)
  <2> DEFINE new == [read EXCEPT !.status = "unpaid"]
             saved == Saved(invoice[i], read, new)
  <2>1. /\ invoice' = [invoice EXCEPT ![i] = saved] /\ credit' = credit
        /\ read.status = "draft"
    BY <1>5 DEF Finalise, ledger, Figures, Serial, Current
  <2>2. /\ new \in Invoice /\ new.status = "unpaid"
        /\ new.amount_paid = read.amount_paid /\ new.amount_due = read.amount_due
        /\ new.total = read.total /\ new.credit_applied = read.credit_applied
    BY <1>2 DEF Invoice, Statuses
  <2> HIDE DEF r, i, read, new
  <2>3. saved = new
    BY <1>2, <2>2, SavedRow
  <2> HIDE DEF saved
  <2>4. Agrees(new, Brought(payment, i))
    BY <1>3, <2>1, <2>2 DEF Agrees
  <2>5. ProperWrite(i, new)
    BY <1>1, <1>2, <2>1, <2>2, <2>3, <2>4 DEF ProperWrite
  <2>6. QED BY <1>2, <2>2, <2>5, ProperWriteKeeps
<1>6. CASE Cancel(q)
  <2> DEFINE new == CancelledInvoice(read)
             saved == Saved(invoice[i], read, new)
  <2>1. /\ credit' = credit + read.credit_applied /\ CanCancel(read)
        /\ invoice' \in {[invoice EXCEPT ![i] = UsesReleased(saved)],
                         [invoice EXCEPT ![i] = saved]}
    BY <1>6 DEF Cancel, Figures, Serial, Current
  <2>2. /\ new \in Invoice /\ new.status = "cancelled"
        /\ new.amount_paid = read.amount_paid /\ new.credit_applied = 0
    BY <1>2 DEF CancelledInvoice, Invoice, Statuses
  <2> HIDE DEF r, i, read, new
  <2>3. saved = new
    BY <1>2, <2>2, SavedRow
  <2> HIDE DEF saved
  <2>4. /\ UsesReleased(new) \in Invoice /\ UsesReleased(new).status = "cancelled"
        /\ UsesReleased(new).amount_paid = read.amount_paid
        /\ UsesReleased(new).credit_applied = 0
    BY <2>2 DEF UsesReleased, Invoice
  <2>5. PICK row \in Invoice :
          /\ invoice' = [invoice EXCEPT ![i] = row]
          /\ row.status = "cancelled" /\ row.amount_paid = read.amount_paid
          /\ row.credit_applied = 0
    BY <2>1, <2>2, <2>3, <2>4
  <2>6. Agrees(row, Brought(payment, i))
    BY <1>3, <2>5 DEF Agrees
  <2>7. read.status # "paid"
    BY <2>1 DEF CanCancel
  <2>8. ProperWrite(i, row)
    BY <1>1, <1>2, <1>4, <2>1, <2>5, <2>6, <2>7 DEF ProperWrite
  <2>9. QED BY <1>2, <2>8, ProperWriteKeeps
<1>7. ASSUME NEW coupon \in BOOLEAN, NEW uses \in Nat,
             read.status \in Mutable,
             invoice' = [invoice EXCEPT
               ![i] = [Saved(invoice[i], read, WithCoupon(read, coupon)) EXCEPT !.uses = uses]],
             credit' = credit + Released(read, WithCoupon(read, coupon))
      PROVE  KeepsFigures
  <2> DEFINE new == WithCoupon(read, coupon)
             saved == Saved(invoice[i], read, new)
             row == [new EXCEPT !.uses = uses]
             released == Released(read, new)
  <2> HIDE DEF r, i, read
  <2>1. /\ new \in Invoice /\ new.status = read.status
        /\ new.amount_paid = read.amount_paid
        /\ new.amount_due = Minus(new.total, new.amount_paid + new.credit_applied)
        /\ released = read.credit_applied - new.credit_applied /\ released \in Nat
    BY <1>2, Recomputed
  <2>2. credit' = credit + released
        /\ invoice' = [invoice EXCEPT ![i] = [saved EXCEPT !.uses = uses]]
    BY <1>7
  <2> HIDE DEF new, released
  <2>3. saved = new
    BY <1>2, <2>1, SavedRow
  <2> HIDE DEF saved
  <2>4. /\ row \in Invoice /\ row.status = read.status
        /\ row.amount_paid = read.amount_paid
        /\ row.amount_due = Minus(row.total, row.amount_paid + row.credit_applied)
        /\ row.credit_applied = new.credit_applied
        /\ invoice' = [invoice EXCEPT ![i] = row]
    BY <2>1, <2>2, <2>3 DEF Invoice
  <2> HIDE DEF row
  <2>5. row.status \in {"draft", "unpaid"} /\ read.amount_paid = 0
    BY <1>3, <1>7, <2>4 DEF Mutable, Agrees
  <2>6. Agrees(row, Brought(payment, i))
    BY <1>3, <2>4, <2>5 DEF Agrees
  <2>7. new.credit_applied \in Nat
    BY <2>1 DEF Invoice
  <2>8. /\ credit' >= 0 /\ invoice[i].status # "paid"
        /\ credit' - granted' + row.credit_applied
             = credit - granted + invoice[i].credit_applied
    <3>1. credit' = credit + (read.credit_applied - new.credit_applied)
      BY <2>1, <2>2
    <3>2. credit' >= 0
      BY <1>1, <2>1, <2>2
    <3>3. QED BY <1>1, <1>2, <1>4, <2>4, <2>5, <2>7, <3>1, <3>2
  <2>9. ProperWrite(i, row)
    BY <1>1, <2>4, <2>6, <2>8 DEF ProperWrite
  <2>10. QED BY <1>2, <2>4, <2>9, ProperWriteKeeps
<1>8. CASE ApplyCoupon(q)
  <2> DEFINE new == WithCoupon(read, TRUE)
             saved == Saved(invoice[i], read, new)
  <2>1. read.status \in Mutable
    BY <1>8 DEF ApplyCoupon, Figures, Serial, Current, CanApplyCoupon
  <2>2. CASE UNCHANGED <<invoice, credit, usedCount>>
    BY <1>1, <2>2, NoWriteKeeps
  <2>3. CASE ~ UNCHANGED <<invoice, credit, usedCount>>
    <3>1. /\ invoice' = [invoice EXCEPT ![i] = [saved EXCEPT !.uses = saved.uses + 1]]
          /\ credit' = credit + Released(read, new)
      BY <1>8, <2>3 DEF ApplyCoupon
    <3>2. saved.uses + 1 \in Nat
      <4>1. TRUE \in BOOLEAN
        OBVIOUS
      <4> HIDE DEF r, i, read
      <4>2. new \in Invoice
        BY <1>2, <4>1, Recomputed, Zenon
      <4> HIDE DEF new
      <4>3. saved \in Invoice
        BY <1>2, <4>2, SavedRow
      <4>4. QED BY <4>3 DEF Invoice
    <3> DEFINE uses == saved.uses + 1
    <3>3. invoice' = [invoice EXCEPT ![i] = [saved EXCEPT !.uses = uses]]
      BY <3>1
    <3> HIDE DEF r, i, read, uses
    <3>4. QED BY <1>7, <2>1, <3>1, <3>2, <3>3 DEF uses
  <2>4. QED BY <2>2, <2>3
<1>9. CASE RemoveCoupon(q)
  <2>1. read.status \in Mutable
    BY <1>9 DEF RemoveCoupon, Figures, Serial, Current, CanRemoveCoupon
  <2>2. /\ invoice' = [invoice EXCEPT
             ![i] = [Saved(invoice[i], read, WithCoupon(read, FALSE)) EXCEPT !.uses = 0]]
        /\ credit' = credit + Released(read, WithCoupon(read, FALSE))
    BY <1>9 DEF RemoveCoupon, UsesReleased
  <2>3. 0 \in Nat /\ FALSE \in BOOLEAN
    OBVIOUS
  <2> HIDE DEF r, i, read
  <2>4. QED BY <1>7, <2>1, <2>2, <2>3, Zenon
<1>10. QED BY <1>5, <1>6, <1>8, <1>9

(* changePlan(): what the unused period leaves is credit, and the new plan *)
(* takes no more than there is.                                            *)
LEMMA ChangePlanFigures ==
  ASSUME Figures, Books', NEW q \in Requests, NEW proration \in Prorations,
         ChangePlan(q, proration[1], proration[2])
  PROVE  KeepsFigures
<1> DEFINE unused == proration[1]
           due == proration[2]
           available == request[q].amount + unused
           applied == Least(available, due)
           balance == available - applied
           before == credit
           after == credit'
           was == granted
           is == granted'
<1>1. unused \in Nat /\ due \in Nat
  BY BillingAssumption
<1>2. /\ request[q].amount = credit /\ credit \in Int /\ credit >= 0 /\ granted \in Int
      /\ request[q].amount \in Int
  BY DEF ChangePlan, Figures, Serial, Current, Books, TypeOK, CreditConserved
<1>3. available \in Nat /\ applied \in Nat /\ applied <= due /\ applied <= available
  BY <1>1, <1>2 DEF Least
<1>4. /\ payment' = payment /\ after \in {before, balance} /\ is = was + unused - applied
      /\ after = before => balance = before
      /\ \/ invoice' = invoice
         \/ \E i \in Invoices :
              /\ FreeId(invoice, i)
              /\ invoice' = [invoice EXCEPT
                   ![i] = NewInvoice(0, due - applied, FALSE, 0, "unpaid", day)]
  BY <1>2 DEF ChangePlan, money
<1>5. after = balance
  BY <1>4
<1>6. /\ balance >= 0 /\ after \in Int /\ is \in Int
      /\ balance - was - unused + applied = before - was
      /\ after - is = before - was
  <2>1. available = before + unused /\ before \in Int /\ was \in Int
    BY <1>2
  <2> HIDE DEF before, after, was, is, unused, due, available, applied
  <2>2. QED BY <1>1, <1>3, <1>4, <1>5, <2>1
<1>7. after >= 0
  BY <1>5, <1>6
<1>8. CASE invoice' = invoice
  BY <1>4, <1>6, <1>7, <1>8, NoWriteKeeps
<1>9. CASE invoice' # invoice
  <2> DEFINE rest == due - applied
             new == NewInvoice(0, rest, FALSE, 0, "unpaid", day)
  <2>1. PICK i \in Invoices : FreeId(invoice, i) /\ invoice' = [invoice EXCEPT ![i] = new]
    BY <1>4, <1>9
  <2>2. rest \in Nat
    BY <1>1, <1>3
  <2>3. /\ new \in Invoice /\ Agrees(new, Brought(payment, i))
        /\ new.credit_applied <= Minus(0, 0)
        /\ invoice[i].status # "paid" /\ invoice[i].credit_applied = 0
    <3>1. /\ FALSE \in BOOLEAN /\ "unpaid" \in {"draft", "unpaid"} /\ 0 \in Nat /\ 0 \in Int
          /\ Books
      BY DEF Figures
    <3> HIDE DEF rest
    <3>2. QED BY <2>1, <2>2, <3>1, NewInvoiceAgrees, Zenon
  <2> HIDE DEF new
  <2>4. new.credit_applied = 0
    BY <2>3 DEF Minus, Invoice
  <2>5. after - is + new.credit_applied = before - was + invoice[i].credit_applied
    <3> HIDE DEF before, after, was, is
    <3> QED BY <1>6, <2>3, <2>4
  <2>6. ProperWrite(i, new)
    BY <1>4, <1>7, <2>1, <2>3, <2>5 DEF ProperWrite
  <2>7. QED BY <2>3, <2>6, ProperWriteKeeps
<1>10. QED BY <1>8, <1>9

(* A payment of one invoice is written, and the invoice is made to agree:  *)
(* the money of the other invoices is the same, and so is the credit.      *)
LEMMA MoneyKeeps ==
  ASSUME Figures, Books', NEW i \in Invoices, NEW row \in Invoice, NEW p \in Payments,
         NEW pay \in Payment,
         payment' = [payment EXCEPT ![p] = pay], pay.invoice = i,
         payment[p].status \in Received => payment[p].invoice = i,
         invoice' = [invoice EXCEPT ![i] = row], UNCHANGED <<credit, granted>>,
         row.credit_applied = invoice[i].credit_applied,
         Agrees(row, Brought(payment', i)),
         invoice[i].status = "paid" /\ row.status # "paid"
           => GivenBack(payment', i) > GivenBack(payment, i)
  PROVE  KeepsFigures
<1>1. /\ payment \in [Payments -> Payment] /\ invoice \in [Invoices -> Invoice]
      /\ \A s \in Payments : payment'[s] = IF s = p THEN pay ELSE payment[s]
      /\ DOMAIN payment = Payments /\ DOMAIN payment' = Payments
      /\ \A j \in Invoices : invoice'[j] = IF j = i THEN row ELSE invoice[j]
  BY DEF Figures, Books, TypeOK
<1>2. ASSUME NEW j \in Invoices, j # i PROVE Brought(payment', j) = Brought(payment, j)
  <2> DEFINE after == payment'
  <2>1. \A s \in Payments : s # p => after[s] = payment[s]
    BY <1>1
  <2>2. after[p] = pay /\ pay.invoice # j /\ DOMAIN after = Payments
    BY <1>1, <1>2
  <2>3. payment[p].status \in Received => payment[p].invoice # j
    BY <1>2
  <2> HIDE DEF after
  <2>4. PaymentsOf(after, j) = PaymentsOf(payment, j) /\ p \notin PaymentsOf(payment, j)
    BY <1>1, <2>1, <2>2, <2>3 DEF PaymentsOf
  <2>5. [s \in PaymentsOf(payment, j) |-> Refundable(after[s])]
          = [s \in PaymentsOf(payment, j) |-> Refundable(payment[s])]
    BY <1>1, <2>1, <2>4 DEF PaymentsOf
  <2>6. Brought(after, j) = Brought(payment, j)
    BY <2>4, <2>5, Zenon DEF Brought
  <2>7. QED BY <2>6 DEF after
<1>3. \A j \in Invoices : Agrees(invoice[j], Brought(payment, j))
  BY FiguresAgree DEF Figures, Serial
<1>4. \A j \in Invoices : Agrees(invoice'[j], Brought(payment', j))
  BY <1>1, <1>2, <1>3
<1>5. AmountsAgree' /\ PaidForSomething'
  BY <1>4 DEF AmountsAgree, PaidForSomething, Agrees, Brought
<1>6. CreditConserved'
  <2>1. /\ credit' >= 0
        /\ credit' - granted' + row.credit_applied
             = credit - granted + invoice[i].credit_applied
    BY DEF Figures, CreditConserved
  <2>2. QED BY <2>1, CreditStep DEF Figures
<1>7. PaidStays
  BY <1>1 DEF PaidStays
<1>8. QED BY <1>5, <1>6, <1>7 DEF KeepsFigures

(* applyApproved() of a payment that is pending or has just been made out: *)
(* more has arrived and as much gone back, so that a paid invoice is still *)
(* covered.                                                                *)
LEMMA ApprovedFigures ==
  ASSUME Figures, Books', NEW p \in Payments, NEW row \in Payment,
         row.refunded_amount = 0, row.invoice \in Invoices,
         invoice[row.invoice].status # "absent",
         payment[p].status \notin Received,
         Approved(p, row), UNCHANGED <<day, ledger, request, dunning>>
  PROVE  KeepsFigures
<1> DEFINE i == row.invoice
           pay == [row EXCEPT !.status = "approved"]
           after == payment'
           inv == invoice[i]
           new == AfterPayment(inv, i, after, day)
<1>1. /\ pay \in Payment /\ pay.status \in Received /\ pay.invoice = i
      /\ pay.refunded_amount = 0
  BY DEF Payment, Received
<1>2. /\ after = [payment EXCEPT ![p] = pay] /\ invoice' = [invoice EXCEPT ![i] = new]
      /\ credit' = credit /\ granted' = granted
  BY DEF Approved, ledger
<1>3. /\ i \in Invoices /\ inv \in Invoice /\ inv.status # "absent" /\ day \in Nat
      /\ payment \in [Payments -> Payment] /\ after \in [Payments -> Payment]
  BY DEF Figures, Books, TypeOK
<1>4. \A s \in PaymentsOf(after, i) : after[s].refunded_amount <= after[s].amount
  <2>1. \A s \in Payments : after[s].status \in Received =>
          after[s].refunded_amount <= after[s].amount
    BY <1>3 DEF Books, PaymentsSound, Received, Payment
  <2>2. QED BY <1>3, <2>1 DEF PaymentsOf
<1> HIDE DEF pay, after, inv, i
<1>5. Agrees(new, Brought(after, i))
  BY <1>3, <1>4, MoneyAgrees
<1>6. new \in Invoice /\ new.credit_applied = inv.credit_applied
  BY <1>3, MoneyApplied
<1>7. /\ PaymentsOf(after, i) = PaymentsOf(payment, i) \cup {p}
      /\ p \notin PaymentsOf(payment, i)
      /\ \A s \in PaymentsOf(payment, i) : after[s] = payment[s]
      /\ after[p] = pay
  BY <1>1, <1>2, <1>3 DEF PaymentsOf
<1>8. /\ IsFiniteSet(PaymentsOf(payment, i))
      /\ \A s \in PaymentsOf(payment, i) :
           payment[s]["amount"] \in Nat /\ payment[s]["refunded_amount"] \in Nat
      /\ Arrived(payment, i) \in Nat /\ GivenBack(payment, i) \in Nat
      /\ Arrived(after, i) \in Nat /\ GivenBack(after, i) \in Nat
  BY <1>3, NetReceivedNat
<1>9. /\ pay["amount"] \in Nat /\ pay["refunded_amount"] = 0
  BY <1>1 DEF Payment
<1>10. Arrived(after, i) = Arrived(payment, i) + pay["amount"]
  <2> DEFINE ids == PaymentsOf(payment, i)
  <2>1. \A s \in ids : payment[s]["amount"] \in Nat /\ after[s]["amount"] = payment[s]["amount"]
    BY <1>7, <1>8
  <2>2. IsFiniteSet(ids) /\ p \notin ids /\ after[p]["amount"] \in Nat
    BY <1>7, <1>8, <1>9
  <2> HIDE DEF ids
  <2>3. Total(after, "amount", ids \cup {p}) = Total(payment, "amount", ids) + after[p]["amount"]
    BY <2>1, <2>2, TotalOfOneMore
  <2>4. PaymentsOf(after, i) = ids \cup {p}
    BY <1>7 DEF ids
  <2>5. Arrived(after, i) = Total(after, "amount", ids \cup {p})
    BY <2>4, Zenon DEF Arrived
  <2>6. QED BY <1>7, <2>3, <2>5 DEF Arrived, ids
<1>11. GivenBack(after, i) = GivenBack(payment, i)
  <2> DEFINE ids == PaymentsOf(payment, i)
  <2>1. \A s \in ids : /\ payment[s]["refunded_amount"] \in Nat
                       /\ after[s]["refunded_amount"] = payment[s]["refunded_amount"]
    BY <1>7, <1>8
  <2>2. /\ IsFiniteSet(ids) /\ p \notin ids /\ after[p]["refunded_amount"] \in Nat
        /\ after[p]["refunded_amount"] = 0
    BY <1>7, <1>8, <1>9
  <2> HIDE DEF ids
  <2>3. Total(after, "refunded_amount", ids \cup {p})
          = Total(payment, "refunded_amount", ids) + after[p]["refunded_amount"]
    BY <2>1, <2>2, TotalOfOneMore
  <2>4. PaymentsOf(after, i) = ids \cup {p}
    BY <1>7 DEF ids
  <2>5. GivenBack(after, i) = Total(after, "refunded_amount", ids \cup {p})
    BY <2>4, Zenon DEF GivenBack
  <2>6. GivenBack(payment, i) = Total(payment, "refunded_amount", ids)
    BY DEF GivenBack, ids
  <2>7. GivenBack(payment, i) + 0 = GivenBack(payment, i)
    BY <1>8
  <2>8. QED BY <2>2, <2>3, <2>5, <2>6, <2>7
<1>12. NetReceived(after, i) >= NetReceived(payment, i)
  BY <1>8, <1>9, <1>10, <1>11 DEF NetReceived, Minus
<1>13. ASSUME inv.status = "paid" PROVE new.status = "paid"
  <2> DEFINE paid == NetReceived(payment, i)
             more == NetReceived(after, i)
  <2>1. Brought(payment, i) = paid
    BY <1>3, ReceivedRows, BroughtIsNet DEF Figures
  <2>2. Agrees(inv, paid)
    BY <1>3, <2>1, FiguresAgree DEF Figures, Serial, inv
  <2>3. paid \in Nat /\ more \in Nat
    BY <1>3, NetReceivedNat
  <2>4. new.status = SettledStatus(inv, more, day)
    BY <1>3 DEF AfterPayment, Invoice
  <2>5. more >= paid
    BY <1>12
  <2> HIDE DEF paid, more, new
  <2>6. /\ inv.total \in Nat /\ inv.credit_applied \in Nat /\ inv.total > 0
        /\ inv.amount_paid = paid
        /\ Minus(inv.total, paid + inv.credit_applied) = 0
    BY <1>3, <1>13, <2>2 DEF Agrees, Invoice
  <2>7. more + inv.credit_applied >= inv.total
    BY <2>3, <2>5, <2>6 DEF Minus
  <2>8. SettledStatus(inv, more, day) = "paid"
    BY <2>6, <2>7 DEF SettledStatus
  <2>9. QED BY <2>4, <2>8
<1> HIDE DEF new
<1>14. QED BY <1>1, <1>2, <1>3, <1>5, <1>6, <1>13, MoneyKeeps DEF after, inv

(* requestRefund(), to the commit: the snapshot is what there is, and more *)
(* has gone back.                                                          *)
LEMMA RefundFigures ==
  ASSUME Figures, Books', NEW q \in Requests, FinishRefund(q)
  PROVE  KeepsFigures
<1> DEFINE r == request[q]
           p == r.id
           old == payment[p]
           amount == r.amount
           flag == r.flag
           pay == r.payments[p]
           i == old.invoice
           inv == invoice[i]
           after == payment'
           new == AfterRefund(inv, i, after, day)
<1>1. /\ r.stage = "refund" /\ after = [payment EXCEPT ![p] = pay]
      /\ invoice' = [invoice EXCEPT ![i] = AfterRefund(inv, i, r.payments, day)]
      /\ UNCHANGED <<day, ledger, dunning>>
  BY DEF FinishRefund, Figures, Books, TypeOK
<1>2. /\ p \in Payments /\ amount \in Nat \ {0} /\ flag \in BOOLEAN
      /\ old \in Payment /\ old.status \in Received /\ amount <= Refundable(old)
      /\ pay = Refunded(old, amount, flag)
      /\ payment \in [Payments -> Payment] /\ after \in [Payments -> Payment]
  BY <1>1, BillingAssumption DEF Figures, Books, TypeOK, RefundsSound, Request
<1>3. r.payments = after
  BY <1>1, <1>2 DEF Figures, Serial, Current
<1>4. /\ i \in Invoices /\ inv \in Invoice /\ inv.status # "absent" /\ day \in Nat
  BY <1>2 DEF Figures, Books, TypeOK, PaymentsSound, Received
<1>5. invoice' = [invoice EXCEPT ![i] = new] /\ credit' = credit /\ granted' = granted
  BY <1>1, <1>3 DEF ledger
<1>6. after[p] = pay /\ \A s \in Payments : s # p => after[s] = payment[s]
  BY <1>1, <1>2
<1> HIDE DEF new, inv, i, r, p, old, amount, flag, pay, after
<1>7. /\ pay \in Payment /\ pay.status \in {"partially_refunded", "refunded"}
      /\ pay.invoice = old.invoice
      /\ pay.refunded_amount = old.refunded_amount + amount
  BY <1>2, RefundedRow
<1>8. \A s \in PaymentsOf(after, i) : after[s].refunded_amount <= after[s].amount
  <2>1. \A s \in Payments : after[s].status \in Received =>
          after[s].refunded_amount <= after[s].amount
    BY <1>2 DEF after, Books, PaymentsSound, Received, Payment
  <2>2. QED BY <1>2, <2>1 DEF PaymentsOf
<1>9. Agrees(new, Brought(after, i))
  BY <1>2, <1>4, <1>8, MoneyAgrees DEF new
<1>10. new \in Invoice /\ new.credit_applied = inv.credit_applied
  BY <1>2, <1>4, MoneyApplied DEF new
<1>11. PaymentsOf(after, i) = PaymentsOf(payment, i) /\ p \in PaymentsOf(payment, i)
  BY <1>2, <1>6, <1>7 DEF PaymentsOf, Received, i, old
<1>12. GivenBack(after, i) > GivenBack(payment, i)
  <2> DEFINE ids == PaymentsOf(payment, i)
  <2>1. /\ IsFiniteSet(ids) /\ GivenBack(payment, i) \in Nat
        /\ \A s \in ids : payment[s]["refunded_amount"] \in Nat
        /\ \A s \in ids : after[s]["refunded_amount"] \in Nat
        /\ ids \subseteq Payments
    BY <1>2, <1>11, NetReceivedNat
  <2>2. /\ p \in ids
        /\ \A s \in ids \ {p} : after[s]["refunded_amount"] = payment[s]["refunded_amount"]
    BY <1>6, <1>11, <2>1
  <2> HIDE DEF ids
  <2>3. Total(after, "refunded_amount", ids)
          = Total(payment, "refunded_amount", ids)
              - payment[p]["refunded_amount"] + after[p]["refunded_amount"]
    BY <2>1, <2>2, TotalOfChanged
  <2>4. GivenBack(after, i) = Total(after, "refunded_amount", ids)
    BY <1>11, Zenon DEF GivenBack, ids
  <2>5. GivenBack(payment, i) = Total(payment, "refunded_amount", ids)
    BY DEF GivenBack, ids
  <2>6. /\ after[p]["refunded_amount"] = payment[p]["refunded_amount"] + amount
        /\ payment[p]["refunded_amount"] \in Nat
    BY <1>6, <1>7, <2>1, <2>2 DEF old
  <2>7. QED BY <1>2, <2>1, <2>3, <2>4, <2>5, <2>6
<1>13. payment[p].status \in Received => payment[p].invoice = i
  BY DEF i, old
<1>14. pay.invoice = i
  BY <1>7 DEF i
<1>15. QED BY <1>1, <1>2, <1>4, <1>5, <1>7, <1>9, <1>10, <1>12, <1>13, <1>14, MoneyKeeps
           DEF after, inv

(* submit(), record() and review(). *)
LEMMA PaymentFigures ==
  ASSUME ~Overlap, Figures, Books', Money
  PROVE  KeepsFigures
<1>1. ASSUME NEW p \in Payments, payment[p].status \notin Received,
             NEW pay \in Payment, pay.status \notin Received,
             payment' = [payment EXCEPT ![p] = pay],
             UNCHANGED <<invoice, ledger>>
      PROVE  KeepsFigures
  <2>1. /\ payment \in [Payments -> Payment] /\ credit \in Int /\ granted \in Int
        /\ credit' = credit /\ granted' = granted /\ invoice' = invoice
    BY <1>1 DEF Figures, Books, TypeOK, ledger
  <2>2. ASSUME NEW j PROVE Brought(payment', j) = Brought(payment, j)
    <3> DEFINE after == payment'
    <3>1. /\ \A s \in Payments : s # p => after[s] = payment[s]
          /\ after[p] = pay /\ DOMAIN after = Payments /\ DOMAIN payment = Payments
      BY <1>1, <2>1
    <3> HIDE DEF after
    <3>2. PaymentsOf(after, j) = PaymentsOf(payment, j) /\ p \notin PaymentsOf(payment, j)
      BY <1>1, <3>1 DEF PaymentsOf
    <3>3. [s \in PaymentsOf(payment, j) |-> Refundable(after[s])]
            = [s \in PaymentsOf(payment, j) |-> Refundable(payment[s])]
      BY <3>1, <3>2 DEF PaymentsOf
    <3>4. Brought(after, j) = Brought(payment, j)
      BY <3>2, <3>3, Zenon DEF Brought
    <3>5. QED BY <3>4 DEF after
  <2>3. \A j \in Invoices : Agrees(invoice[j], Brought(payment, j))
    BY FiguresAgree DEF Figures, Serial
  <2>4. \A j \in Invoices : Agrees(invoice'[j], Brought(payment', j))
    BY <2>1, <2>2, <2>3
  <2>5. AmountsAgree' /\ PaidForSomething'
    BY <2>4 DEF AmountsAgree, PaidForSomething, Agrees, Brought
  <2>6. CreditConserved'
    <3>1. Total(invoice', "credit_applied", Invoices) = Total(invoice, "credit_applied", Invoices)
      BY <2>1, Zenon
    <3>2. QED BY <2>1, <3>1 DEF Figures, CreditConserved
  <2>7. PaidStays
    BY <2>1 DEF PaidStays
  <2>8. QED BY <2>5, <2>6, <2>7 DEF KeepsFigures
<1>2. ASSUME NEW i \in Invoices, NEW p \in Payments, NEW amount \in Amounts,
             NEW fromWallet \in BOOLEAN,
             Submit(i, p, amount, fromWallet) \/ Record(i, p, amount, fromWallet)
      PROVE  KeepsFigures
  <2> DEFINE row == NewPayment(i, amount, fromWallet)
  <2>1. /\ row \in Payment /\ row.status = "pending" /\ row.invoice = i
        /\ row.refunded_amount = 0
        /\ invoice[i].status # "absent" /\ payment[p].status = "absent"
    BY <1>2, MadeOut DEF Submit, Record, Figures
  <2>2. row.status \notin Received /\ payment[p].status \notin Received
    BY <2>1 DEF Received
  <2>3. CASE Submit(i, p, amount, fromWallet)
    <3>1. payment' = [payment EXCEPT ![p] = row] /\ UNCHANGED <<invoice, ledger>>
      BY <2>3 DEF Submit
    <3> HIDE DEF row
    <3>2. QED BY <1>1, <2>1, <2>2, <3>1
  <2>4. CASE Record(i, p, amount, fromWallet)
    <3>1. Approved(p, row) /\ UNCHANGED <<day, ledger, request, dunning>>
      BY <2>4 DEF Record
    <3> HIDE DEF row
    <3>2. row.invoice \in Invoices /\ invoice[row.invoice].status # "absent"
      BY <2>1
    <3>3. QED BY <2>1, <2>2, <3>1, <3>2, ApprovedFigures
  <2>5. QED BY <1>2, <2>3, <2>4
<1>3. ASSUME NEW p \in Payments, Approve(p) \/ Reject(p)
      PROVE  KeepsFigures
  <2>1. /\ payment[p] \in Payment /\ payment[p].status = "pending"
        /\ payment[p].refunded_amount = 0 /\ payment[p].invoice \in Invoices
        /\ invoice[payment[p].invoice].status # "absent"
        /\ payment[p].status \notin Received
    BY <1>3 DEF Approve, Reject, Figures, Books, TypeOK, PaymentsSound, Received
  <2>2. CASE Approve(p)
    BY <2>1, <2>2, ApprovedFigures DEF Approve
  <2>3. CASE Reject(p)
    <3> DEFINE row == [payment[p] EXCEPT !.status = "rejected"]
    <3>1. row \in Payment /\ row.status \notin Received
      BY <2>1 DEF Payment, Received
    <3>2. payment' = [payment EXCEPT ![p] = row] /\ UNCHANGED <<invoice, ledger>>
      BY <2>3 DEF Reject
    <3> HIDE DEF row
    <3>3. QED BY <1>1, <2>1, <3>1, <3>2
  <2>4. QED BY <1>3, <2>2, <2>3
<1>4. QED BY <1>2, <1>3 DEF Money

(* The invoice-overdue job flags what is unpaid. *)
LEMMA FlagFigures ==
  ASSUME Figures, Books', NEW i \in Invoices, MarkOverdue(i)
  PROVE  KeepsFigures
<1> DEFINE inv == invoice[i]
           new == [inv EXCEPT !.status = "overdue"]
<1>1. /\ invoice' = [invoice EXCEPT ![i] = new] /\ payment' = payment
      /\ credit' = credit /\ granted' = granted
      /\ inv.status \in {"unpaid", "partially_paid"} /\ inv \in Invoice
      /\ credit >= 0
  BY DEF MarkOverdue, money, ledger, Figures, Serial, Alone, Books, TypeOK, CreditConserved
<1>2. /\ new \in Invoice /\ new.status = "overdue"
      /\ new.amount_paid = inv.amount_paid /\ new.amount_due = inv.amount_due
      /\ new.total = inv.total /\ new.credit_applied = inv.credit_applied
  BY <1>1 DEF Invoice, Statuses
<1>3. Agrees(inv, Brought(payment, i))
  BY FiguresAgree DEF Figures, Serial
<1> HIDE DEF new
<1>4. Agrees(new, Brought(payment, i))
  BY <1>1, <1>2, <1>3 DEF Agrees
<1>5. ProperWrite(i, new)
  BY <1>1, <1>2, <1>4 DEF ProperWrite
<1>6. QED BY <1>2, <1>5, ProperWriteKeeps

-----------------------------------------------------------------------------
(* Figures is inductive when operations do not overlap. *)

(* Nothing is owed or held at first. *)
LEMMA FiguresInit ==
  ASSUME Init
  PROVE  Figures
<1>1. Books
  BY BooksInit
<1>2. Alone /\ Current /\ PaidForSomething
  BY DEF Init, Alone, Current, PaidForSomething, Idle, InvoiceOperations, AbsentInvoice
<1>3. \A i \in Invoices : Agrees(invoice[i], Brought(payment, i))
  <2>1. \A i \in Invoices : Brought(payment, i) = 0
    BY <1>1, NothingBrought DEF Init, AbsentInvoice
  <2>2. \A i \in Invoices : invoice[i].status = "absent" /\ invoice[i].amount_paid = 0
    BY DEF Init, AbsentInvoice
  <2>3. QED BY <2>1, <2>2 DEF Agrees
<1>4. AmountsAgree
  BY <1>3, FiguresAgree
<1>5. CreditConserved
  <2>1. \A i \in Invoices : invoice[i]["credit_applied"] = 0
    BY DEF Init, AbsentInvoice
  <2>2. Total(invoice, "credit_applied", Invoices) = 0
    BY <2>1, IdsFinite, TotalOfZeros
  <2>3. QED BY <2>2 DEF Init, CreditConserved
<1>6. QED BY <1>1, <1>2, <1>4, <1>5 DEF Figures, Serial

(* Every step keeps the figures, and a paid invoice paid. *)
LEMMA FiguresNext ==
  ASSUME ~Overlap, Figures, [Next]_vars
  PROVE  Figures' /\ PaidStays
<1>1. Books'
  BY BooksNext DEF Figures
<1>2. CASE UNCHANGED vars
  <2>1. KeepsFigures
    <3>1. /\ UNCHANGED <<invoice, payment>> /\ credit' = credit /\ granted' = granted
          /\ credit' \in Int /\ granted' \in Int /\ credit' >= 0
          /\ credit' - granted' = credit - granted
      BY <1>2 DEF vars, Figures, Books, TypeOK, CreditConserved
    <3>2. QED BY <3>1, NoWriteKeeps
  <2>2. Alone' /\ Current'
    BY <1>2 DEF vars, Figures, Serial, Alone, Current
  <2>3. QED BY <1>1, <2>1, <2>2 DEF Figures, Serial, KeepsFigures
<1>3. ASSUME NEW q \in Requests,
             \/ \E p \in Periods, coupon \in BOOLEAN, available \in {0, credit} :
                  ReadIssue(q, p, coupon, available)
             \/ ReadChangePlan(q)
             \/ \E op \in InvoiceOperations, i \in Invoices : ReadInvoice(q, op, i)
             \/ \E p \in Payments, amount \in Amounts, toWallet \in BOOLEAN :
                  StartRefund(q, p, amount, toWallet)
      PROVE  Figures' /\ PaidStays
  <2>1. /\ Alone' /\ Current'
        /\ UNCHANGED <<day, invoice, payment, wallet, credit, usedCount, granted, dunning>>
    BY <1>3, ReadSerial DEF Figures
  <2>2. /\ UNCHANGED <<invoice, payment>> /\ credit' \in Int /\ granted' \in Int
        /\ credit' >= 0 /\ credit' - granted' = credit - granted
    BY <2>1 DEF Figures, Books, TypeOK, CreditConserved
  <2>3. KeepsFigures
    BY <2>2, NoWriteKeeps
  <2>4. QED BY <1>1, <2>1, <2>3 DEF Figures, Serial, KeepsFigures
<1>4. ASSUME NEW q \in Requests,
             \/ Issue(q) \/ Finalise(q) \/ Cancel(q) \/ ApplyCoupon(q) \/ RemoveCoupon(q)
             \/ \E proration \in Prorations : ChangePlan(q, proration[1], proration[2])
             \/ FinishRefund(q)
      PROVE  Figures' /\ PaidStays
  <2>1. KeepsFigures
    BY <1>1, <1>4, IssueFigures, OperationFigures, ChangePlanFigures, RefundFigures
  <2>2. request[q].stage # "idle" /\ Done(q) /\ dunning' = dunning
    BY <1>4 DEF Issue, Finalise, Cancel, ApplyCoupon, RemoveCoupon, ChangePlan, FinishRefund
  <2>3. dunning = {} /\ AllIdle'
    BY <2>2, OthersIdle DEF Figures
  <2>4. Alone' /\ Current'
    BY <2>2, <2>3, IdleSerial
  <2>5. QED BY <1>1, <2>1, <2>4 DEF Figures, Serial, KeepsFigures
<1>5. CASE Money
  <2>1. KeepsFigures
    BY <1>1, <1>5, PaymentFigures
  <2>2. /\ UNCHANGED <<request, dunning>> /\ dunning = {}
        /\ \A q \in Requests : request[q].stage = "idle"
    BY <1>5 DEF Money, Submit, Record, Approve, Reject, MayStart
  <2>3. Alone' /\ Current'
    BY <2>2, IdleSerial DEF AllIdle
  <2>4. QED BY <1>1, <2>1, <2>3 DEF Figures, Serial, KeepsFigures
<1>6. CASE ReadOverdue \/ NextDay
  <2>1. /\ UNCHANGED <<invoice, payment, credit, granted, request>>
        /\ \A q \in Requests : request[q].stage = "idle"
        /\ \A i \in dunning' : invoice'[i].status \in {"unpaid", "partially_paid"}
    BY <1>6 DEF ReadOverdue, NextDay, MayStart, money, ledger
  <2>2. /\ UNCHANGED <<invoice, payment>> /\ credit' \in Int /\ granted' \in Int
        /\ credit' >= 0 /\ credit' - granted' = credit - granted
    BY <2>1 DEF Figures, Books, TypeOK, CreditConserved
  <2>3. KeepsFigures
    BY <2>2, NoWriteKeeps
  <2>4. Alone' /\ Current'
    BY <2>1, IdleSerial DEF AllIdle
  <2>5. QED BY <1>1, <2>3, <2>4 DEF Figures, Serial, KeepsFigures
<1>7. ASSUME NEW i \in Invoices, MarkOverdue(i)
      PROVE  Figures' /\ PaidStays
  <2>1. KeepsFigures
    BY <1>1, <1>7, FlagFigures
  <2>2. /\ UNCHANGED request /\ i \in dunning /\ dunning' = dunning \ {i}
        /\ invoice' = [invoice EXCEPT ![i].status = "overdue"]
    BY <1>7 DEF MarkOverdue
  <2>3. AllIdle'
    BY <2>2 DEF Figures, Serial, Alone, AllIdle
  <2>4. \A j \in dunning' : invoice'[j].status \in {"unpaid", "partially_paid"}
    BY <2>2 DEF Figures, Serial, Alone, Books, TypeOK
  <2>5. Alone' /\ Current'
    BY <2>3, <2>4, IdleSerial
  <2>6. QED BY <1>1, <2>1, <2>5 DEF Figures, Serial, KeepsFigures
<1>8. ASSUME NEW q \in Requests, Handler(q) PROVE Figures' /\ PaidStays
  BY <1>3, <1>4, <1>8 DEF Handler, InvoiceOperations
<1>9. QED BY <1>2, <1>5, <1>6, <1>7, <1>8 DEF Next, OverdueJob

(* When operations do not overlap, the figures of every issued invoice     *)
(* agree with the money, whatever the order of payments, refunds, coupons, *)
(* cancellations and the overdue job.                                      *)
THEOREM FiguresAgreeWithMoney == ~Overlap => (Spec => []AmountsAgree)
<1> SUFFICES ASSUME ~Overlap PROVE Spec => []AmountsAgree
  OBVIOUS
<1>1. Figures /\ [Next]_vars => Figures'
  BY FiguresNext
<1>2. Figures => AmountsAgree
  BY DEF Figures
<1>3. QED BY <1>1, <1>2, FiguresInit, PTL DEF Spec

(* ... credit is neither lost nor made ... *)
THEOREM CreditIsConserved == ~Overlap => (Spec => []CreditConserved)
<1> SUFFICES ASSUME ~Overlap PROVE Spec => []CreditConserved
  OBVIOUS
<1>1. Figures /\ [Next]_vars => Figures'
  BY FiguresNext
<1>2. Figures => CreditConserved
  BY DEF Figures
<1>3. QED BY <1>1, <1>2, FiguresInit, PTL DEF Spec

(* ... and a paid invoice stays paid until money goes back. *)
THEOREM PaidStaysPaid == ~Overlap => (Spec => PaidUntilRefunded)
<1> SUFFICES ASSUME ~Overlap PROVE Spec => PaidUntilRefunded
  OBVIOUS
<1>1. Figures /\ [Next]_vars => Figures'
  BY FiguresNext
<1>2. Figures /\ [Next]_vars => [PaidStays]_vars
  BY FiguresNext
<1>3. PaidUntilRefunded <=> [][PaidStays]_vars
  BY DEF PaidUntilRefunded, PaidStays
<1>4. QED BY <1>1, <1>2, <1>3, FiguresInit, PTL DEF Spec
=============================================================================

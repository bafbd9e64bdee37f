-------------------------------- MODULE Fees --------------------------------
(***************************************************************************)
(* The fee ledger of one student, for one component: assignment, payments  *)
(* and the daily fines (D29).                                              *)
(*                                                                         *)
(* A payment works under the lock of its fee.  An assignment looks for     *)
(* duplicates and then inserts, with nothing in between to keep another    *)
(* out.  The fines task reads every candidate first and then writes one    *)
(* after the other, each from the copy it read.                            *)
(***************************************************************************)
EXTENDS Integers, FiniteSets

CONSTANTS
  Fees, NoFee,         \* rows student_fees may get
  Clerks, NoClerk,     \* handlers of assignments and payments
  Finers,              \* runs of the fines task that may be under way at once
  Structures, PerDay,  \* fee structures, and those whose fine grows by the day
  NoStructure,
  Months, NoMonth,     \* period_month, or none named
  Amount, Discounts, FirstFines, Rate, GraceLeft,
  LastDay, MaxReceived  \* bounds: days, money taken for one fee

ASSUME FeesAssumption ==
  /\ NoFee \notin Fees /\ NoClerk \notin Clerks
  /\ NoMonth \notin Months /\ NoStructure \notin Structures
  /\ PerDay \subseteq Structures
  /\ Amount \in Nat /\ Rate \in Nat /\ GraceLeft \in Nat
  /\ Discounts \subseteq Nat /\ FirstFines \subseteq Nat
  /\ LastDay \in Nat /\ MaxReceived \in Nat

VARIABLES
  fee,         \* the rows
  received,    \* [Fees -> Nat]: what the receipts in fee_payments add up to
  feeLock,     \* [Fees -> the clerk who holds the row]
  clerk,       \* what every handler is about to write
  round,       \* what every run of the fines task has still to write
  today,
  raced,       \* history: fees fined from a copy that a payment had overtaken
  doubled      \* history: fees inserted beside an assignment that saw neither

feesVars == <<fee, received, feeLock, clerk, round, today, raced, doubled>>

FeeStatuses == {"unpaid", "partially_paid", "paid"}

FeeRow ==
  [status: FeeStatuses \cup {"absent"}, structure: Structures \cup {NoStructure},
   month: Months \cup {NoMonth}, discount: Nat, fine: Nat, net: Nat, paid: Nat,
   pending: Nat]
NoFeeRow ==
  [status |-> "absent", structure |-> NoStructure, month |-> NoMonth, discount |-> 0,
   fine |-> 0, net |-> 0, paid |-> 0, pending |-> 0]

(* row is what assign() inserts; amount is what pay() takes. *)
Clerk == [at: {"free", "assign", "pay"}, fee: Fees \cup {NoFee}, row: FeeRow,
          amount: Nat]
FreeClerk == [at |-> "free", fee |-> NoFee, row |-> NoFeeRow, amount |-> 0]

Round == [day: 0 .. LastDay, todo: SUBSET Fees, copy: [Fees -> FeeRow]]
NoRound == [day |-> 0, todo |-> {}, copy |-> [f \in Fees |-> NoFeeRow]]

FeesTypeOK ==
  /\ fee \in [Fees -> FeeRow]
  /\ received \in [Fees -> Nat]
  /\ feeLock \in [Fees -> Clerks \cup {NoClerk}]
  /\ clerk \in [Clerks -> Clerk]
  /\ round \in [Finers -> Round]
  /\ today \in 0 .. LastDay
  /\ raced \subseteq Fees /\ doubled \subseteq Fees

FeesInit ==
  /\ fee = [f \in Fees |-> NoFeeRow]
  /\ received = [f \in Fees |-> 0]
  /\ feeLock = [f \in Fees |-> NoClerk]
  /\ clerk = [c \in Clerks |-> FreeClerk]
  /\ round = [d \in Finers |-> NoRound]
  /\ today = 0
  /\ raced = {} /\ doubled = {}

ClampNonNegative(n) == IF n < 0 THEN 0 ELSE n
NetOf(discount, fine) == ClampNonNegative(Amount - discount + fine)

(* save() and update() write the columns that differ from the copy. *)
Written(stored, copy, new) == IF new = copy THEN stored ELSE new

ClerkDone(c) == clerk' = [clerk EXCEPT ![c] = FreeClerk]

-----------------------------------------------------------------------------
(* assign(). *)

(* One charge per month; with no month named, one per structure. *)
SameCharge(r, s) ==
  /\ r.month = s.month
  /\ r.month = NoMonth => r.structure = s.structure

(* Mutant: a fee that is paid does not count. *)
AlreadyAssignedUnpaid(row) ==
  \E f \in Fees : fee[f].status \in FeeStatuses \ {"paid"} /\ SameCharge(fee[f], row)

AlreadyAssigned(row) ==
  \E f \in Fees : fee[f].status # "absent" /\ SameCharge(fee[f], row)

AssignedRow(s, m, discount, fine) ==
  LET net == NetOf(discount, fine)
  IN  [status |-> IF net = 0 THEN "paid" ELSE "unpaid", structure |-> s, month |-> m,
       discount |-> discount, fine |-> fine, net |-> net, paid |-> 0, pending |-> net]

CheckAssignment(c, f, row) ==
  /\ clerk[c].at = "free"
  /\ fee[f].status = "absent"
  /\ \A d \in Clerks : clerk[d].at = "assign" => clerk[d].fee # f
  /\ ~AlreadyAssigned(row)
  /\ clerk' = [clerk EXCEPT ![c] = [at |-> "assign", fee |-> f, row |-> row, amount |-> 0]]
  /\ UNCHANGED <<fee, received, feeLock, round, today, raced, doubled>>

InsertFee(c) ==
  LET f == clerk[c].fee
      unseen == {d \in Clerks \ {c} :
                  clerk[d].at = "assign" /\ SameCharge(clerk[d].row, clerk[c].row)}
  IN  /\ clerk[c].at = "assign"
      /\ fee' = [fee EXCEPT ![f] = clerk[c].row]
      /\ doubled' = doubled \cup {clerk[d].fee : d \in unseen}
      /\ ClerkDone(c)
      /\ UNCHANGED <<received, feeLock, round, today, raced>>

-----------------------------------------------------------------------------
(* pay(): the fee is read under its lock; what it is worth is no bound on  *)
(* what is taken for it.                                                   *)

LockFee(c, f, amount) ==
  /\ clerk[c].at = "free" /\ fee[f].status # "absent"
  /\ feeLock[f] = NoClerk
  /\ received[f] + amount <= MaxReceived
  /\ feeLock' = [feeLock EXCEPT ![f] = c]
  /\ clerk' = [clerk EXCEPT ![c] =
                [at |-> "pay", fee |-> f, row |-> fee[f], amount |-> amount]]
  /\ UNCHANGED <<fee, received, round, today, raced, doubled>>

StatusOf(paid, net) ==
  IF paid >= net THEN "paid" ELSE IF paid > 0 THEN "partially_paid" ELSE "unpaid"

(* Mutant: the payment is added to what was paid, and the receipts are not *)
(* asked.                                                                  *)
ApplyPaymentOnce(row, paid) ==
  [row EXCEPT !.paid = paid, !.pending = ClampNonNegative(@ - paid),
              !.status = StatusOf(paid, row.net)]

(* applyPayment(): everything is worked out again from the receipts. *)
ApplyPayment(row, paid) ==
  [row EXCEPT !.paid = paid, !.pending = ClampNonNegative(row.net - paid),
              !.status = StatusOf(paid, row.net)]

PayFee(c) ==
  LET f == clerk[c].fee
      paid == received[f] + clerk[c].amount
  IN  /\ clerk[c].at = "pay"
      /\ received' = [received EXCEPT ![f] = paid]
      /\ fee' = [fee EXCEPT ![f] = ApplyPayment(clerk[c].row, paid)]
      /\ raced' = raced \ {f}
      /\ feeLock' = [feeLock EXCEPT ![f] = NoClerk]
      /\ ClerkDone(c)
      /\ UNCHANGED <<round, today, doubled>>

-----------------------------------------------------------------------------
(* applyFines(). *)

DaysLate(day) == day - GraceLeft

FineOwed(row, day) == IF row.structure \in PerDay THEN Rate * DaysLate(day) ELSE Rate

Candidates ==
  {f \in Fees : fee[f].status \in {"unpaid", "partially_paid"} /\ today > 0}

(* The candidates are read in one query ... *)
ReadCandidates(d) ==
  /\ round[d].todo = {} /\ Candidates # {}
  /\ round' = [round EXCEPT ![d] = [day |-> today, todo |-> Candidates, copy |-> fee]]
  /\ UNCHANGED <<fee, received, feeLock, clerk, today, raced, doubled>>

Fined(row, copy, owed) ==
  LET net == NetOf(copy.discount, owed)
  IN  [row EXCEPT !.fine = owed, !.net = Written(@, copy.net, net),
                  !.pending = Written(@, copy.pending, ClampNonNegative(net - copy.paid))]

(* ... and each is fined as it was then: raised, never lowered. *)
Fine(d, f) ==
  LET held == round[d]
      copy == held.copy[f]
      owed == FineOwed(copy, held.day)
      fines == DaysLate(held.day) > 0 /\ owed > copy.fine
  IN  /\ f \in held.todo
      /\ fines => feeLock[f] = NoClerk
      /\ fee' = IF fines THEN [fee EXCEPT ![f] = Fined(@, copy, owed)] ELSE fee
      /\ raced' = IF fines /\ fee[f].paid # copy.paid THEN raced \cup {f} ELSE raced
      /\ round' = [round EXCEPT ![d] = IF held.todo = {f} THEN NoRound
                                       ELSE [held EXCEPT !.todo = @ \ {f}]]
      /\ UNCHANGED <<received, feeLock, clerk, today, doubled>>

(* The task's process dies, or a statement fails: the rest is left. *)
StopFining(d) ==
  /\ round[d].todo # {}
  /\ round' = [round EXCEPT ![d] = NoRound]
  /\ UNCHANGED <<fee, received, feeLock, clerk, today, raced, doubled>>

(* Days after LastDay are not told apart. *)
DayPasses ==
  /\ today' = IF today < LastDay THEN today + 1 ELSE today
  /\ UNCHANGED <<fee, received, feeLock, clerk, round, raced, doubled>>

FeesNext ==
  \/ \E c \in Clerks :
       \/ \E f \in Fees, s \in Structures, m \in Months \cup {NoMonth},
             discount \in Discounts, fine \in FirstFines :
            CheckAssignment(c, f, AssignedRow(s, m, discount, fine))
       \/ InsertFee(c)
       \/ \E f \in Fees, amount \in 1 .. MaxReceived : LockFee(c, f, amount)
       \/ PayFee(c)
  \/ \E d \in Finers : ReadCandidates(d) \/ StopFining(d) \/ \E f \in Fees : Fine(d, f)
  \/ DayPasses

FeesSpec == FeesInit /\ [][FeesNext]_feesVars

-----------------------------------------------------------------------------
(* Properties. *)

(* What a fee says was paid is what its receipts add up to, always; what   *)
(* it says is pending, and its status, follow from that and from the net   *)
(* figure, except after a fine written over a payment it had not seen.     *)
LedgerAgrees ==
  \A f \in Fees : fee[f].status # "absent" =>
    /\ fee[f].paid = received[f]
    /\ fee[f].net = NetOf(fee[f].discount, fee[f].fine)
    /\ f \notin raced => /\ fee[f].pending = ClampNonNegative(fee[f].net - fee[f].paid)
                         /\ fee[f].status = StatusOf(fee[f].paid, fee[f].net)

(* A student is charged once for a month, and once for a structure no      *)
(* month was named with, whatever was paid since; the one way around it is *)
(* an assignment that checked before another one inserted.                 *)
ChargedOnce ==
  \A f, g \in Fees :
    /\ f # g /\ fee[f].status # "absent" /\ fee[g].status # "absent"
    /\ SameCharge(fee[f], fee[g])
    => {f, g} \cap doubled # {}
=============================================================================

\* Every operation on two invoices and two payments, one at a time.
CONSTANTS
  Requests = {q1}
  Periods = {1, 2}
  Operations = {"issue", "finalise", "cancel", "applyCoupon", "removeCoupon", "changePlan", "submit", "record", "review", "refund"}
  Price = 2
  Discount = 1
  DueDays = 0
  Amounts = {1}
  Prorations <- SmallProrations
  MaxUses = 1
  OpeningWallet = 0
  Overlap = FALSE
  MaxInvoices = 2
  MaxPayments = 2
  MaxDay = 1
  MaxGranted = 2
SPECIFICATION Spec
INVARIANTS
  TypeOK
  AmountsAgree
  CreditConserved
PROPERTIES
  PaidUntilRefunded

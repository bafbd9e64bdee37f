\* An invoice the credit of a downgrade covers in full.
CONSTANTS
  Requests = {q1}
  Periods = {1}
  Operations = {"issue", "changePlan"}
  Price = 2
  Discount = 1
  DueDays = 0
  Amounts = {1, 2}
  Prorations <- CreditOnly
  MaxUses = 1
  OpeningWallet = 0
  Overlap = FALSE
  MaxInvoices = 2
  MaxPayments = 2
  MaxDay = 1
  MaxGranted = 2
SPECIFICATION Spec
INVARIANTS
  OutstandingIsOwed

\* Payments, refunds, the wallet and the coupon under two interleaved handlers; the wallet
\* opens with what covers one of the two payments it may pay.
CONSTANTS
  Requests = {q1, q2}
  Periods = {1}
  Operations = {"issue", "cancel", "applyCoupon", "removeCoupon", "submit", "record", "review", "refund"}
  Price = 2
  Discount = 1
  DueDays = 0
  Amounts = {1, 2}
  Prorations <- NoProrations
  MaxUses = 1
  OpeningWallet = 1
  Overlap = TRUE
  MaxInvoices = 2
  MaxPayments = 2
  MaxDay = 0
  MaxGranted = 2
SPECIFICATION Spec
SYMMETRY RequestSymmetry
INVARIANTS
  WalletConserved
  RefundsWithinPayments
  CouponUsesCounted

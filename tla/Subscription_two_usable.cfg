\* A cancelled subscription is reactivated beside its successor.
CONSTANTS
  NoDate = NoDate
  NoPlan = NoPlan
  Plans = {1}
  Cycles = {2}
  ExpiringWindow = 1
  Requests = {q1}
  MaxSubs = 2
  Operations = {"create", "cancel", "reactivate"}
  StartOffsets = {0}
  TrialDays = {0}
  GraceDays = {0}
  RenewalModes = {FALSE}
  Overlap = FALSE
  MaxNow = 3
  MaxOverdue = 0
  MaxCrashes = 0
SPECIFICATION Spec
INVARIANTS
  OneOpenSubscription

\* A renewal before the period end leaves a scheduled downgrade behind.
CONSTANTS
  NoDate = NoDate
  NoPlan = NoPlan
  Plans = {1, 2}
  Cycles = {2}
  ExpiringWindow = 1
  Requests = {q1}
  MaxSubs = 1
  Operations = {"create", "activate", "change", "renew"}
  StartOffsets = {0}
  TrialDays = {0}
  GraceDays = {0}
  RenewalModes = {FALSE}
  Overlap = FALSE
  MaxNow = 3
  MaxOverdue = 0
  MaxCrashes = 0
SPECIFICATION Spec
INVARIANTS
  ScheduledChangeAhead

\* A sweep writes a row an operator has just stopped.
CONSTANTS
  NoDate = NoDate
  NoPlan = NoPlan
  Plans = {1}
  Cycles = {2}
  ExpiringWindow = 1
  Requests = {q1}
  MaxSubs = 1
  Operations = {"create", "activate", "suspend", "sweep", "dunning"}
  StartOffsets = {0}
  TrialDays = {0}
  GraceDays = {0}
  RenewalModes = {FALSE}
  Overlap = TRUE
  MaxNow = 3
  MaxOverdue = 0
  MaxCrashes = 0
SPECIFICATION Spec
PROPERTIES
  JobsNeverRevive

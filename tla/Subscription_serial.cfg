\* Every request but the edits, both jobs and a crash, one operation at a time; then the caches
\* of an API process and a worker for two keys, a series of numbers, a quotation, the fees of
\* a student and two sweeps of the notifications, each by itself.
CONSTANTS
  NoDate = NoDate
  NoPlan = NoPlan
  Plans = {1}
  Cycles = {2}
  ExpiringWindow = 1
  Requests = {q1}
  MaxSubs = 1
  Operations = {"create", "activate", "suspend", "reactivate", "pause", "resume", "cancel", "renew", "pay", "sweep", "dunning"}
  StartOffsets = {0}
  TrialDays = {0, 1}
  GraceDays = {0, 1}
  RenewalModes = {TRUE, FALSE}
  Overlap = FALSE
  MaxNow = 3
  MaxOverdue = 1
  MaxCrashes = 1
  Keys = {entitlement, tenant}
  Processes = {api, worker}
  Shared = redis
  Readers = {r1}
  Writers = {w1}
  NoKey = NoKey
  NoProcess = NoProcess
  Ttl = 1
  Lag = 1
  MaxVersion = 1
  MaxRestarts = 1
  Series = {s1}
  Callers = {i1, i2, i3}
  MaxCounter = 4
  Attempts = 3
  Editors = {i1, i2, i3}
  NoEditor = NoEditor
  Totals = {1, 2}
  NoTotal = 0
  MaxIssued = 2
  Fees = {f1, f2}
  NoFee = NoFee
  Clerks = {i1, i2}
  NoClerk = NoClerk
  Finers = {d1}
  Structures = {daily}
  PerDay = {daily}
  NoStructure = NoStructure
  Months = {jan}
  NoMonth = NoMonth
  Amount = 1
  Discounts = {0, 1}
  FirstFines = {0}
  Rate = 1
  GraceLeft = 0
  LastDay = 2
  MaxReceived = 2
  Rows = {1, 2}
  Marked = {1}
  Users = {u1}
  Sweeps = {d1, d2}
  NoRow = 0
  NoUser = NoUser
  Limit = 1
  MaxDeaths = 1
  MaxThrows = 1
SPECIFICATION OfficeSpec
CONSTRAINT SmallOffice
INVARIANTS
  OfficeTypes
  GraceHasDeadline
  StaleForCause
  SeriesGapless
  OvertakenEachTime
  OneInvoicePerQuotation
  LedgerAgrees
  ChargedOnce
  RepeatsBounded
  MailAccounted
PROPERTIES
  JobsNeverRevive
  GraceDeadlineStands
  KeepsToMachine
  AnswersWithinBound

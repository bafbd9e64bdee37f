\* Access that has run out is noticed, through edits, plan changes and a crash of the worker;
\* then the caches, the cron runner, the queue and a sweep of the notifications, each by itself.
CONSTANTS
  NoDate = NoDate
  NoPlan = NoPlan
  Plans = {1, 2}
  Cycles = {2}
  ExpiringWindow = 1
  Requests = {q1}
  MaxSubs = 1
  Operations = {"create", "update", "activate", "change", "pause", "resume", "sweep", "dunning"}
  StartOffsets = {0}
  TrialDays = {0, 1}
  GraceDays = {0, 1}
  RenewalModes = {TRUE, FALSE}
  Overlap = FALSE
  MaxNow = 2
  MaxOverdue = 1
  MaxCrashes = 1
  Keys = {tenant}
  Processes = {api, worker}
  Shared = redis
  Readers = {r1}
  Writers = {w1}
  NoKey = NoKey
  NoProcess = NoProcess
  Ttl = 2
  Lag = 1
  MaxVersion = 1
  MaxRestarts = 1
  lifecycle = lifecycle
  dispatch = dispatch
  Tasks = {lifecycle, dispatch}
  Orders <- MCOrders
  Resident = {api}
  Once = {once}
  Runs = {r1, r2}
  NoTask = NoTask
  NoHost = NoHost
  Timeout = 2
  MaxKills = 1
  Jobs = {j1, j2, j3}
  Registered = {j1, j2}
  Concurrency = 1
  MaxAttempts = 3
  MaxLosses = 1
  MaxDrains = 2
  Rows = {1, 2, 3}
  Marked = {1}
  Users = {u1}
  Sweeps = {d1}
  NoRow = 0
  NoUser = NoUser
  Limit = 1
  MaxDeaths = 1
  MaxThrows = 1
SPECIFICATION RuntimeSpec
INVARIANTS
  RuntimeTypes
  RunningIsWaitedFor
  NoJobStranded
PROPERTIES
  NoOverstay
  CachesConverge
  TaskComesAround
  EveryJobSettles
  NoRowLeftBehind

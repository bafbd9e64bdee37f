\* Two subscriptions of one school written by two requests and the jobs at once; then the
\* session of an account, in two tabs of one browser or of two, and a title of the library.
CONSTANTS
  NoDate = NoDate
  NoPlan = NoPlan
  Plans = {1}
  Cycles = {2}
  ExpiringWindow = 1
  Requests = {q1, q2}
  MaxSubs = 2
  Operations = {"create", "activate", "sweep", "dunning"}
  StartOffsets = {0}
  TrialDays = {0}
  GraceDays = {0}
  RenewalModes = {FALSE}
  Overlap = TRUE
  MaxNow = 1
  MaxOverdue = 1
  MaxCrashes = 0
  Browsers = {b1, b2}
  Tabs = {q1, q2}
  Slots = {k1, k2}
  MaxMinted = 3
  MaxLost = 1
  Librarians = {q1, q2}
  NoLibrarian = NoLibrarian
  Loans = {b1, b2}
  NoLoan = NoLoan
  MaxCopies = 2
  MaxFine = 1
SPECIFICATION SchoolSpec
SYMMETRY SchoolSymmetry
INVARIANTS
  SchoolTypes
  SchoolStateAgrees
  AloneNeverRefused
  EndedStaysEnded
  ShelfAgrees

\* Admissions and metered work by two handlers, over a renewal; then one exam of two papers and
\* two pupils, handled by two teachers at once.
CONSTANTS
  NoOne = NoOne
  Requests = {q1, q2}
  Students = {s1, s2}
  Staff = {t1}
  StudentLimit = 1
  StaffLimit = 1
  Metered = {ai, sms}
  Soft = {sms}
  Allowance = 1
  MaxPeriod = 2
  MaxServed = 1
  Papers = {p1, p2}
  Pupils = {s1, s2}
  Teachers = {q1, q2}
  NoTeacher = NoOne
  MaxMark = 1
  NoMark = NoOne
SPECIFICATION TermSpec
CONSTRAINT NotAstray
SYMMETRY TermSymmetry
INVARIANTS
  TermTypes
  StudentLimitHolds
  FixedNeverExceeded
  FailureCostsNothing
  NoPaperLost
  MeritListStands

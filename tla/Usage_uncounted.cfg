\* A refused reservation read again after another was given back.
CONSTANTS
  NoOne = NoOne
  Requests = {q1, q2}
  Students = {s1}
  Staff = {t1}
  StudentLimit = 1
  StaffLimit = 1
  Metered = {ai}
  Soft = {}
  Allowance = 1
  MaxPeriod = 1
  MaxServed = 1
SPECIFICATION Spec
SYMMETRY UsageSymmetry
INVARIANTS
  ServedWithinAllowance

SPECIFICATION Spec
CONSTANTS
  a1 = a1
  a2 = a2
  a3 = a3
  a4 = a4
  m1 = m1
  Applications = {a1}
  Requests = {r1, r2, r3}
  NoRequest = NoRequest
  Members = {m1}
  Applicant <- MCOneApplicant
  OverLimit = {}
  OverDefault = {}
  MaxActive = 1
  MaxOverlapping = 1
  Inputs <- AllInputs
  Failures = TRUE
  Misreads = TRUE
  MaxRows = 2
SYMMETRY Symmetry
INVARIANT ChainComplete
INVARIANT DecisionsOnRecord
PROPERTY RejectedForGood
CHECK_DEADLOCK FALSE

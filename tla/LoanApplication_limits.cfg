SPECIFICATION Spec
CONSTANTS
  a1 = a1
  a2 = a2
  a3 = a3
  a4 = a4
  m1 = m1
  Applications = {a1, a2, a3, a4}
  Requests = {r1, r2}
  NoRequest = NoRequest
  Members = {m1}
  Applicant <- MCOneApplicant
  OverLimit = {a1, a2, a3, a4}
  OverDefault = {a4}
  MaxActive = 4
  MaxOverlapping = 1
  Inputs <- ToApproval
  Failures = FALSE
  Misreads = TRUE
  MaxRows = 1
SYMMETRY BothSymmetry
INVARIANT WithinLimit
INVARIANT OverlapBounded
CHECK_DEADLOCK FALSE

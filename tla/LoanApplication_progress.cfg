SPECIFICATION FairSpec
CONSTANTS
  a1 = a1
  a2 = a2
  a3 = a3
  a4 = a4
  m1 = m1
  Applications = {a1, a2}
  Requests = {r1}
  NoRequest = NoRequest
  Members = {m1}
  Applicant <- MCOneApplicant
  OverLimit = {a2}
  OverDefault = {}
  MaxActive = 2
  MaxOverlapping = 1
  Inputs <- ToApproval
  Failures = FALSE
  Misreads = FALSE
  MaxRows = 1
PROPERTY EachDecided
CHECK_DEADLOCK FALSE

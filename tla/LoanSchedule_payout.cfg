SPECIFICATION Spec
CONSTANTS
  a1 = a1
  a2 = a2
  a3 = a3
  a4 = a4
  Applications = {a1, a2, a3, a4}
  PaidOut = {a1}
  Days = {d1, d2}
  CashLimit = 1
  SentLimits = {}
  Rows = 3
  Reschedules = {x1}
  LoanOf <- MCLoanOf
  Requests = {r1, r2}
  NoRequest = NoRequest
  None = None
  MaxLosses = 1
  Shift = 2
  MaxWeek = 5
SYMMETRY Symmetry
INVARIANT ApprovedIsMoved
INVARIANT ScheduleMatches
INVARIANT CashBounded
INVARIANT PaidHasSchedule
PROPERTY CompletedForGood
CHECK_DEADLOCK FALSE

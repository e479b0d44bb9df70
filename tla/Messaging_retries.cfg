SPECIFICATION FairSpec
CONSTANTS
  Messages = {m1, m2}
  LastDay = 2
  DailyCap <- MCDailyCap
  MonthlyCap <- MCMonthlyCap
  MaxRetries <- MCMaxRetries
  Requests = {r1, r2}
  NoRequest = NoRequest
  None = None
  MaxLosses = 1
INVARIANT TypeOK
INVARIANT SpendAgrees
INVARIANT CapBounded
INVARIANT DeliveredOnce
PROPERTY RetriesEnd
CHECK_DEADLOCK FALSE

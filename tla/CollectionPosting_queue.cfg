SPECIFICATION Spec
CONSTANTS
  Keys = {1}
  Payment <- MCPayment
  Requests = {r1}
  Managers = {}
  Installments = 0
  Due = 1
  OverdueUpTo = 0
  SavingsDue = 1
  SavingsFirst = FALSE
  NoEntry = NoEntry
  MaxFaults = 1
INVARIANT FailedStaysQueued
CHECK_DEADLOCK FALSE

SPECIFICATION Spec
CONSTANTS
  Keys = {1, 2}
  Payment <- MCPayment
  Requests = {r1, r2}
  Managers = {m1}
  Installments = 1
  Due = 3
  OverdueUpTo = 0
  SavingsDue = 1
  SavingsFirst = TRUE
  NoEntry = NoEntry
  MaxFaults = 1
SYMMETRY Symmetry
INVARIANT TypeOK
INVARIANT PostedIsStored
INVARIANT EntriesAreBacked
INVARIANT PassbookCovered
INVARIANT DeletedIsReversed
INVARIANT DepositsBounded
PROPERTY SettledForGood
CHECK_DEADLOCK FALSE

SPECIFICATION FairSpec
CONSTANTS
  Desks <- MCDesks
  Requests = {r1, r2, r3}
  Lines = {l1, l2}
  NoRequest = NoRequest
  MaxLosses = 2
  MaxEffects = 8
INVARIANT DoneIsWritten
INVARIANT LedgerIsBacked
INVARIANT SettledOnce
INVARIANT BooksAgree
PROPERTY KeepsLadder
PROPERTY Closes
CHECK_DEADLOCK FALSE

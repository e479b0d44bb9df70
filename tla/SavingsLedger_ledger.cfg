SPECIFICATION Spec
CONSTANTS
  a1 = a1
  a2 = a2
  m1 = m1
  Accounts = {a1, a2}
  NoAccount = NoAccount
  Amounts = {1}
  Keys = {}
  NoKey = NoKey
  MinBalance <- MCMinBalance
  OpeningBalances = {2}
  Sessions = {s1, s2}
  Members = {m1}
  Holder <- MCOneHolder
  LoanLocked = {}
  AutoLinked = {}
  Sleepers = {}
  Types <- LedgerTypes
  Strays = {"deposit"}
  Reversals = TRUE
  Principals = {}
  NoTx = NoTx
  MaxRows = 3
SYMMETRY Symmetry
INVARIANT TypeOK
INVARIANT PassbookAddsUp
INVARIANT ReportAgrees
PROPERTY Serial
PROPERTY KeepsMinimum
CHECK_DEADLOCK FALSE

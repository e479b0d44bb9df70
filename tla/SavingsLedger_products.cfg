SPECIFICATION FairSpec
CONSTANTS
  a1 = a1
  a2 = a2
  m1 = m1
  Accounts = {a1, a2}
  NoAccount = NoAccount
  Amounts = {1}
  Keys = {k1}
  NoKey = NoKey
  MinBalance <- MCMinBalance
  OpeningBalances = {2}
  Sessions = {s1, s2}
  Members = {m1}
  Holder <- MCOneHolder
  LoanLocked = {a2}
  AutoLinked = {a1, a2}
  Sleepers = {a2}
  Types <- LinkTypes
  Strays = {}
  Reversals = FALSE
  Principals = {1}
  NoTx = NoTx
  MaxRows = 2
PROPERTY Serial
PROPERTY TransactionsEnd
CHECK_DEADLOCK FALSE

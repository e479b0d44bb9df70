------------------------- MODULE SavingsLedgerProofs -------------------------
(***************************************************************************)
(* Proofs about SavingsLedger, for any accounts, sessions and products.    *)
(***************************************************************************)
EXTENDS SavingsLedger, SumLemmas, TLAPS

\* At most one open transaction works on an account.
LockExclusive ==
  /\ \A s, t \in Sessions :
       InTx(s) /\ InTx(t) /\ Source(s) = Source(t) => s = t
  /\ \A s \in Sessions, m \in Members :
       InTx(s) /\ Linking(m) => Source(s) \notin Linked(m)
  /\ \A m, k \in Members :
       Linking(m) /\ Linking(k) /\ m # k => Linked(m) \cap Linked(k) = {}

\* What Begin checked about the locked account is still true.
ChecksStand ==
  \A s \in Sessions : InTx(s) =>
    /\ tx[s].call \in Calls(Len(ledger))
    /\ tx[s].call.type = "transfer" => tx[s].call.to # NoAccount
    /\ tx[s].call.to # NoAccount => status[tx[s].call.to] # "none"
    /\ status[Source(s)] \in {"active", "dormant"}
    /\ MayReverse(ledger, tx[s].call)
    /\ tx[s].after >= MinBalance[Source(s)]

\* The rows an activation has inserted are still right, and it comes to no
\* account twice.
LinksStand ==
  \A m \in Members : Linking(m) =>
    LET l == link[m] IN
    /\ IsInjective(l.order)
    /\ Len(l.rows) <= Len(l.order)
    /\ \A i \in 1..Len(l.order) : status[l.order[i]] # "none"
    /\ \A i \in 1..Len(l.rows) :
         LET after == balance[l.order[i]] + l.principal IN
         /\ l.rows[i] = RowOf(LinkDeposit(l.order[i], l.principal), after)
         /\ status[l.order[i]] \in {"active", "dormant"}
         /\ after >= MinBalance[l.order[i]]

\* There is no money in an account that is not opened yet.
UnopenedEmpty ==
  \A a \in Accounts : status[a] = "none" => balance[a] = 0

IInv == /\ TypeOK /\ LockExclusive /\ ChecksStand /\ LinksStand
        /\ FreshRead /\ UnopenedEmpty

-----------------------------------------------------------------------------
(* The arithmetic of rows *)

LEMMA AmountsPositive == \A x \in Amounts : x \in Int /\ x > 0
  BY RowConstants DEF RowConstants

\* A ledger that has grown.
Grown(later, rows) ==
  /\ later \in Seq(Rows)
  /\ Len(rows) <= Len(later)
  /\ \A i \in 1..Len(rows) : later[i] = rows[i]

LEMMA GrownBy ==
  ASSUME NEW rows \in Seq(Rows), NEW new \in Seq(Rows)
  PROVE  Grown(rows \o new, rows)
  BY DEF Grown

LEMMA GrownByOne ==
  ASSUME NEW rows \in Seq(Rows), NEW r \in Rows
  PROVE  Grown(Append(rows, r), rows)
  BY DEF Grown

\* A delta is an integer, and rows appended later do not change it.
LEMMA DeltaType ==
  ASSUME NEW rows \in Seq(Rows), NEW c \in Calls(Len(rows)), MayReverse(rows, c)
  PROVE  OwnDelta(rows, c) \in Int
<1>1. CASE c.reversalOf = 0
  BY <1>1, AmountsPositive DEF OwnDelta, PlainDelta, Calls
<1>2. CASE c.reversalOf # 0
  <2>1. rows[c.reversalOf] \in Rows
    BY <1>2 DEF MayReverse
  <2>2. QED
    BY <1>2, <2>1, AmountsPositive DEF OwnDelta, ReversalDelta, Rows
<1>3. QED BY <1>1, <1>2

LEMMA DeltaStable ==
  ASSUME NEW rows \in Seq(Rows), NEW later, Grown(later, rows),
         NEW c \in Calls(Len(rows)), MayReverse(rows, c)
  PROVE  /\ OwnDelta(later, c) = OwnDelta(rows, c)
         /\ MayReverse(later, c)
         /\ c \in Calls(Len(later))
<1>1. /\ c.reversalOf # 0 =>
           c.reversalOf \in DOMAIN later /\ later[c.reversalOf] = rows[c.reversalOf]
      /\ 0..Len(rows) \subseteq 0..Len(later)
  BY DEF MayReverse, Grown
<1>2. QED
  BY <1>1 DEF OwnDelta, MayReverse, Calls

\* A call and the row it leaves have the same delta.
LEMMA RowDelta ==
  ASSUME NEW rows, NEW c, NEW n
  PROVE  /\ OwnDelta(rows, RowOf(c, n)) = OwnDelta(rows, c)
         /\ RowOf(c, n).account = c.account
         /\ RowOf(c, n).to = c.to
         /\ RowOf(c, n).type = c.type
         /\ RowOf(c, n).amount = c.amount
  BY DEF OwnDelta, RowOf

\* The row of an accepted call is a row of the ledger's type.
LEMMA RowType ==
  ASSUME NEW rows \in Seq(Rows), NEW c \in Calls(Len(rows)), NEW n \in Nat
  PROVE  RowOf(c, n) \in Rows
  BY DEF RowOf, Rows, Calls

\* What the trigger posts is a call like any other: a deposit of the principal.
LEMMA DepositType ==
  ASSUME NEW a \in Accounts, NEW p \in Principals, NEW rows, NEW n \in Nat
  PROVE  /\ p \in Amounts /\ p \in Nat /\ p > 0
         /\ LinkDeposit(a, p).account = a
         /\ OwnDelta(rows, LinkDeposit(a, p)) = p
         /\ RowOf(LinkDeposit(a, p), n) \in Rows
<1>1. p \in Amounts /\ p \in Nat /\ p > 0
  BY LedgerConstants, AmountsPositive DEF LedgerConstants
<1>2. OwnDelta(rows, LinkDeposit(a, p)) = p
  BY DEF OwnDelta, PlainDelta, LinkDeposit
<1>3. RowOf(LinkDeposit(a, p), n) \in Rows
  BY <1>1 DEF RowOf, LinkDeposit, Rows, TxTypes
<1>4. QED BY <1>1, <1>2, <1>3 DEF LinkDeposit

LEMMA DepositRow ==
  ASSUME NEW a, NEW p, NEW n
  PROVE  LET r == RowOf(LinkDeposit(a, p), n) IN
         r.account = a /\ r.after = n /\ r.to = NoAccount /\ r.type = "deposit"
           /\ r.amount = p /\ r.reversalOf = 0
  BY DEF RowOf, LinkDeposit

-----------------------------------------------------------------------------
(* The invariant *)

LEMMA InitInv == Init => IInv
  BY LedgerConstants DEF LedgerConstants, Init, BookInit, IInv, TypeOK,
     LockExclusive, ChecksStand, LinksStand, FreshRead, UnopenedEmpty, InTx,
     Linking, Statuses

\* The accounts an activation has locked are accounts.
LEMMA LinkedType ==
  ASSUME IInv, NEW m \in Members, Linking(m)
  PROVE  /\ link[m] \in Activation
         /\ Linked(m) = {link[m].order[i] : i \in 1..Len(link[m].rows)}
         /\ Linked(m) \subseteq Accounts
         /\ \A i \in 1..Len(link[m].order) : link[m].order[i] \in Accounts
         /\ 1..Len(link[m].rows) \subseteq 1..Len(link[m].order)
<1>1. link[m] \in Activation
  BY DEF IInv, TypeOK, Linking
<1>2. link[m].order \in Seq(Accounts) /\ link[m].rows \in Seq(Rows)
  BY <1>1 DEF Activation
<1>3. Len(link[m].rows) <= Len(link[m].order)
  BY DEF IInv, LinksStand
<1>4. QED BY <1>1, <1>2, <1>3 DEF Linked

\* A step that keeps or ends the open transactions, and leaves the rows and
\* the accounts of those that stay alone, keeps the invariant.
LEMMA OthersInv ==
  ASSUME IInv, TypeOK', Grown(ledger', ledger),
         \A s \in Sessions : InTx(s)' => InTx(s) /\ tx'[s] = tx[s],
         \A m \in Members : Linking(m)' => Linking(m) /\ link'[m] = link[m],
         \A s \in Sessions : InTx(s)' =>
           /\ balance'[Source(s)] = balance[Source(s)]
           /\ status'[Source(s)] \in {"active", "dormant"},
         \A m \in Members : Linking(m)' => \A a \in Linked(m) :
           /\ balance'[a] = balance[a]
           /\ status'[a] \in {"active", "dormant"},
         \A a \in Accounts : status'[a] = "none" =>
           status[a] = "none" /\ balance'[a] = balance[a]
  PROVE  IInv'
<1>1. ASSUME NEW s \in Sessions, InTx(s)'
      PROVE  /\ tx[s].call \in Calls(Len(ledger'))
             /\ MayReverse(ledger', tx[s].call)
             /\ OwnDelta(ledger', tx[s].call) = OwnDelta(ledger, tx[s].call)
             /\ tx[s].call.to \in Accounts \cup {NoAccount}
  <2>1. tx[s].call \in Calls(Len(ledger)) /\ MayReverse(ledger, tx[s].call)
    BY <1>1 DEF IInv, ChecksStand
  <2>2. ledger \in Seq(Rows)
    BY DEF IInv, TypeOK
  <2>3. QED
    BY <2>1, <2>2, DeltaStable DEF Calls
<1>2. /\ \A s \in Sessions : InTx(s)' => Source(s)' = Source(s)
      /\ \A m \in Members : Linking(m)' => Linked(m)' = Linked(m)
  BY DEF Source, Linked
<1>3. LockExclusive'
  BY <1>2 DEF IInv, LockExclusive
<1>4. ChecksStand'
  <2> SUFFICES ASSUME NEW s \in Sessions, InTx(s)'
               PROVE  /\ tx'[s].call \in Calls(Len(ledger'))
                      /\ tx'[s].call.type = "transfer" => tx'[s].call.to # NoAccount
                      /\ tx'[s].call.to # NoAccount =>
                           status'[tx'[s].call.to] # "none"
                      /\ status'[Source(s)'] \in {"active", "dormant"}
                      /\ MayReverse(ledger', tx'[s].call)
                      /\ tx'[s].after >= MinBalance[Source(s)']
    BY DEF ChecksStand
  <2>1. QED BY <1>1, <1>2 DEF IInv, ChecksStand
<1>5. FreshRead'
  BY <1>1, <1>2 DEF IInv, FreshRead
<1>6. LinksStand'
  <2> SUFFICES ASSUME NEW m \in Members, Linking(m)'
               PROVE  LET l == link[m] IN
                      /\ IsInjective(l.order)
                      /\ Len(l.rows) <= Len(l.order)
                      /\ \A i \in 1..Len(l.order) : status'[l.order[i]] # "none"
                      /\ \A i \in 1..Len(l.rows) :
                           LET after == balance'[l.order[i]] + l.principal IN
                           /\ l.rows[i] = RowOf(LinkDeposit(l.order[i], l.principal), after)
                           /\ status'[l.order[i]] \in {"active", "dormant"}
                           /\ after >= MinBalance[l.order[i]]
    BY DEF LinksStand
  <2>1. Linking(m)
    OBVIOUS
  <2>2. ASSUME NEW i \in 1..Len(link[m].rows)
        PROVE  /\ balance'[link[m].order[i]] = balance[link[m].order[i]]
               /\ status'[link[m].order[i]] \in {"active", "dormant"}
    BY <2>1, LinkedType
  <2>3. ASSUME NEW i \in 1..Len(link[m].order)
        PROVE  status'[link[m].order[i]] # "none"
    BY <2>1, LinkedType DEF IInv, LinksStand
  <2>4. QED BY <2>1, <2>2, <2>3 DEF IInv, LinksStand
<1>7. UnopenedEmpty'
  BY DEF IInv, UnopenedEmpty
<1>8. QED BY <1>3, <1>4, <1>5, <1>6, <1>7 DEF IInv

\* Every open transaction finds its accounts open.
LEMMA HeldOpen ==
  ASSUME IInv
  PROVE  /\ \A s \in Sessions : InTx(s) =>
              /\ Source(s) \in Accounts
              /\ status[Source(s)] \in {"active", "dormant"}
         /\ \A m \in Members : Linking(m) => \A a \in Linked(m) :
              a \in Accounts /\ status[a] \in {"active", "dormant"}
<1>1. ASSUME NEW s \in Sessions, InTx(s)
      PROVE  Source(s) \in Accounts /\ status[Source(s)] \in {"active", "dormant"}
  BY <1>1 DEF IInv, ChecksStand, Calls, Source
<1>2. ASSUME NEW m \in Members, Linking(m), NEW a \in Linked(m)
      PROVE  a \in Accounts /\ status[a] \in {"active", "dormant"}
  BY <1>2, LinkedType DEF IInv, LinksStand
<1>3. QED BY <1>1, <1>2

LEMMA GrownStill ==
  ASSUME IInv, UNCHANGED ledger PROVE Grown(ledger', ledger)
  BY DEF IInv, TypeOK, Grown

\* A transaction that starts holds the only lock on its account, and its
\* v_balance is computed from the balance it locked.
LEMMA BeginInv ==
  ASSUME IInv, NEW s \in Sessions, NEW c \in Calls(Len(ledger)), Begin(s, c)
  PROVE  IInv'
<1> DEFINE after == balance[c.account] + OwnDelta(ledger, c)
<1>1. /\ c.account \in Accounts
      /\ after \in Nat
      /\ c \in Calls(MaxRows)
      /\ c.to \in Accounts \cup {NoAccount}
      /\ c.type = "transfer" => c.to # NoAccount
      /\ c.to # NoAccount => status[c.to] # "none"
  <2>1. c.account \in Accounts /\ c.to \in Accounts \cup {NoAccount}
    BY DEF Calls
  <2>2. OwnDelta(ledger, c) \in Int /\ balance[c.account] \in Nat
    BY <2>1, DeltaType DEF IInv, TypeOK, Begin
  <2>3. after \in Int /\ after >= 0
    BY <2>2 DEF Begin, Accepted
  <2>4. c \in Calls(MaxRows)
    BY LedgerConstants DEF LedgerConstants, Calls, IInv, TypeOK
  <2>5. c.type = "transfer" => c.to # NoAccount
    BY DEF Begin, WellFormed
  <2>6. c.to # NoAccount => status[c.to] # "none"
    BY DEF Begin, Accepted, DestinationStands
  <2>7. QED BY <2>1, <2>3, <2>4, <2>5, <2>6
<1>2. /\ tx' = [tx EXCEPT ![s] = [call |-> c, after |-> after]]
      /\ UNCHANGED <<balance, status, ledger, loans, link>>
      /\ ~InTx(s) /\ Unlocked(c.account)
      /\ MayReverse(ledger, c) /\ Accepted(c, after)
  BY DEF Begin
<1>3. TypeOK'
  BY <1>1, <1>2 DEF IInv, TypeOK, Transaction
<1>4. /\ tx'[s].call = c /\ tx'[s].after = after
      /\ \A t \in Sessions : t # s => tx'[t] = tx[t]
  BY <1>2 DEF IInv, TypeOK
<1>5. LockExclusive'
  <2>1. /\ \A t \in Sessions : t # s =>
             (InTx(t)' <=> InTx(t)) /\ Source(t)' = Source(t)
        /\ Source(s)' = c.account
        /\ \A m \in Members : (Linking(m)' <=> Linking(m)) /\ Linked(m)' = Linked(m)
    BY <1>2, <1>4 DEF InTx, Source, Linking, Linked
  <2>2. \A t \in Sessions : InTx(t) => Source(t) # c.account
    BY <1>2 DEF Unlocked
  <2>3. \A m \in Members : Linking(m) => c.account \notin Linked(m)
    BY <1>2 DEF Unlocked
  <2>4. QED BY <2>1, <2>2, <2>3 DEF IInv, LockExclusive
<1>6. ChecksStand'
  BY <1>1, <1>2, <1>4 DEF IInv, ChecksStand, InTx, Source, Accepted
<1>7. FreshRead'
  BY <1>2, <1>4 DEF IInv, FreshRead, InTx, Source
<1>8. UnopenedEmpty' /\ LinksStand'
  BY <1>2 DEF IInv, UnopenedEmpty, LinksStand, Linking
<1>9. QED BY <1>3, <1>5, <1>6, <1>7, <1>8 DEF IInv

\* Transactions other than the one that commits keep their accounts, calls and
\* fresh balances: none of them holds the source or the destination.
LEMMA CommitInv ==
  ASSUME IInv, NEW s \in Sessions, Commit(s)
  PROVE  IInv'
<1> DEFINE c == tx[s].call
           n == tx[s].after
           row == RowOf(c, n)
<1>1. /\ InTx(s)
      /\ ledger' = Append(ledger, row)
      /\ balance' = Updated(tx[s])
      /\ status' = [status EXCEPT ![c.account] = StatusAfter(c.type, @)]
      /\ tx' = [tx EXCEPT ![s] = NoTx]
      /\ UNCHANGED <<loans, link>>
      /\ Len(ledger) < MaxRows
      /\ \A w \in Workers : ~Waits(s, w)
  BY DEF Commit
<1>2. /\ c \in Calls(Len(ledger)) /\ n \in Nat
      /\ c.account \in Accounts
      /\ c.amount \in Int /\ c.amount > 0
      /\ c.type = "transfer" => c.to \in Accounts /\ status[c.to] # "none"
      /\ ledger \in Seq(Rows)
      /\ status[c.account] \in {"active", "dormant"}
  <2>1. /\ c \in Calls(Len(ledger)) /\ status[c.account] \in {"active", "dormant"}
        /\ c.type = "transfer" => c.to # NoAccount /\ status[c.to] # "none"
    BY <1>1 DEF IInv, ChecksStand, Source
  <2>2. n \in Nat
    BY <1>1 DEF IInv, TypeOK, InTx, Transaction
  <2>3. QED
    BY <2>1, <2>2, AmountsPositive DEF IInv, TypeOK, Calls
<1>3. row \in Rows
  BY <1>2, RowType
<1>4. ledger' \in Seq(Rows) /\ Len(ledger') = Len(ledger) + 1
  BY <1>1, <1>2, <1>3
<1>5. balance' \in [Accounts -> Nat]
  BY <1>1, <1>2 DEF Updated, IInv, TypeOK
<1>6. status' \in [Accounts -> Statuses]
  BY <1>1, <1>2 DEF StatusAfter, Statuses, IInv, TypeOK
<1>7. TypeOK'
  BY <1>1, <1>4, <1>5, <1>6, LedgerConstants DEF LedgerConstants, IInv, TypeOK
<1>8. /\ \A t \in Sessions : InTx(t)' => t # s /\ InTx(t) /\ tx'[t] = tx[t]
      /\ \A m \in Members : Linking(m)' => Linking(m) /\ link'[m] = link[m]
  BY <1>1 DEF IInv, TypeOK, InTx, Linking
<1>9. s \in Workers /\ AsksFor(s) = {c.to} /\ Holds(s) = {c.account}
  BY <1>1 DEF Workers, AsksFor, Holds, Source
<1>10. ASSUME NEW t \in Sessions, InTx(t)'
       PROVE  Source(t) # c.account /\ Source(t) # c.to
  <2>1. t # s /\ InTx(t)
    BY <1>8, <1>10
  <2>2. Source(t) # c.account
    BY <1>1, <2>1 DEF IInv, LockExclusive, Source
  <2>3. t \in Workers /\ Holds(t) = {Source(t)}
    BY <2>1 DEF Workers, Holds
  <2>4. ~Waits(s, t)
    BY <1>1, <2>3
  <2>5. QED BY <1>9, <2>1, <2>2, <2>3, <2>4 DEF Waits
<1>11. ASSUME NEW m \in Members, Linking(m)', NEW a \in Linked(m)
       PROVE  a # c.account /\ a # c.to
  <2>1. Linking(m)
    BY <1>8, <1>11
  <2>2. a # c.account
    BY <1>1, <2>1 DEF IInv, LockExclusive, Source
  <2>3. m \in Workers /\ m \notin Sessions /\ Holds(m) = Linked(m)
    BY <2>1, LedgerConstants DEF LedgerConstants, Workers, Holds
  <2>4. ~Waits(s, m)
    BY <1>1, <2>3
  <2>5. QED BY <1>9, <2>2, <2>3, <2>4 DEF Waits
<1>12. ASSUME NEW a \in Accounts, a # c.account, a # c.to
       PROVE  balance'[a] = balance[a] /\ status'[a] = status[a]
  BY <1>1, <1>2, <1>12 DEF Updated, IInv, TypeOK
<1>13. \A t \in Sessions : InTx(t)' =>
           /\ balance'[Source(t)] = balance[Source(t)]
           /\ status'[Source(t)] \in {"active", "dormant"}
  BY <1>8, <1>10, <1>12, HeldOpen
<1>14. \A m \in Members : Linking(m)' => \A a \in Linked(m) :
           /\ balance'[a] = balance[a]
           /\ status'[a] \in {"active", "dormant"}
  BY <1>8, <1>11, <1>12, HeldOpen
<1>15. ASSUME NEW a \in Accounts, status'[a] = "none"
       PROVE  status[a] = "none" /\ balance'[a] = balance[a]
  <2>1. status[a] = "none" /\ a # c.account
    BY <1>1, <1>2, <1>15 DEF StatusAfter, IInv, TypeOK
  <2>2. c.type = "transfer" => a # c.to
    BY <1>2, <2>1
  <2>3. QED BY <1>1, <1>2, <2>1, <2>2 DEF Updated, IInv, TypeOK
<1>16. Grown(ledger', ledger)
  BY <1>1, <1>2, <1>3, GrownByOne
<1> HIDE DEF c, n, row
<1>17. QED BY <1>7, <1>8, <1>13, <1>14, <1>15, <1>16, OthersInv

\* A step that changes neither the books nor, except by ending one of them,
\* the open transactions.
LEMMA BooksKept ==
  ASSUME IInv, UNCHANGED <<balance, status, ledger>>,
         loans' \subseteq Members,
         tx' \in [Sessions -> Transaction \cup {NoTx}],
         link' \in [Members -> Activation \cup {NoTx}],
         \A s \in Sessions : InTx(s)' => InTx(s) /\ tx'[s] = tx[s],
         \A m \in Members : Linking(m)' => Linking(m) /\ link'[m] = link[m]
  PROVE  IInv'
<1>1. TypeOK'
  BY DEF IInv, TypeOK
<1>2. QED BY <1>1, OthersInv, GrownStill, HeldOpen

\* A rollback only ends a transaction.
LEMMA RollbackInv ==
  ASSUME IInv, NEW s \in Sessions, Rollback(s)
  PROVE  IInv'
<1>1. /\ UNCHANGED <<balance, status, ledger, loans, link>>
      /\ tx' \in [Sessions -> Transaction \cup {NoTx}]
      /\ \A t \in Sessions : InTx(t)' => InTx(t) /\ tx'[t] = tx[t]
      /\ \A m \in Members : Linking(m)' => Linking(m) /\ link'[m] = link[m]
  BY DEF Rollback, IInv, TypeOK, InTx, Linking
<1>2. QED BY <1>1, BooksKept DEF IInv, TypeOK

LEMMA UndoneInv ==
  ASSUME IInv, NEW m \in Members, LinkUndone(m)
  PROVE  IInv'
<1>1. /\ UNCHANGED <<balance, status, ledger, loans, tx>>
      /\ link' \in [Members -> Activation \cup {NoTx}]
      /\ \A t \in Sessions : InTx(t)' => InTx(t) /\ tx'[t] = tx[t]
      /\ \A k \in Members : Linking(k)' => Linking(k) /\ link'[k] = link[k]
  BY DEF LinkUndone, IInv, TypeOK, InTx, Linking
<1>2. QED BY <1>1, BooksKept DEF IInv, TypeOK

LEMMA OpenInv ==
  ASSUME IInv, NEW a \in Accounts, NEW opening \in OpeningBalances,
         OpenAccount(a, opening)
  PROVE  IInv'
<1>1. opening \in Nat
  BY LedgerConstants DEF LedgerConstants
<1>2. TypeOK'
  BY <1>1 DEF OpenAccount, Open, IInv, TypeOK, Statuses
<1>3. \A b \in Accounts : status[b] # "none" =>
                             balance'[b] = balance[b] /\ status'[b] = status[b]
  BY DEF OpenAccount, Open, IInv, TypeOK
<1>4. \A b \in Accounts : status'[b] = "none" =>
                             status[b] = "none" /\ balance'[b] = balance[b]
  BY DEF OpenAccount, Open, IInv, TypeOK
<1>5. /\ UNCHANGED <<tx, link, ledger>>
      /\ \A t \in Sessions : InTx(t)' <=> InTx(t)
      /\ \A m \in Members : Linking(m)' <=> Linking(m)
  BY DEF OpenAccount, Open, InTx, Linking
<1>6. QED BY <1>2, <1>3, <1>4, <1>5, OthersInv, GrownStill, HeldOpen

LEMMA SleepInv ==
  ASSUME IInv, NEW a \in Accounts, MarkDormant(a)
  PROVE  IInv'
<1>1. TypeOK'
  BY DEF MarkDormant, Sleep, IInv, TypeOK, Statuses
<1>2. /\ UNCHANGED <<tx, link, ledger, balance>>
      /\ \A t \in Sessions : InTx(t)' <=> InTx(t)
      /\ \A m \in Members : Linking(m)' <=> Linking(m)
  BY DEF MarkDormant, Sleep, InTx, Linking
<1>3. \A b \in Accounts : /\ status[b] \in {"active", "dormant"} =>
                               status'[b] \in {"active", "dormant"}
                          /\ status'[b] = "none" => status[b] = "none"
  BY DEF MarkDormant, Sleep, IInv, TypeOK
<1>4. QED BY <1>1, <1>2, <1>3, OthersInv, GrownStill, HeldOpen

-----------------------------------------------------------------------------
(* The trigger on loans *)

\* The trigger finds every linked account once.
LEMMA StartLinkInv ==
  ASSUME IInv, NEW m \in Members, NEW p \in Principals, StartLink(m, p)
  PROVE  IInv'
<1> DEFINE found == {a \in AutoLinked : /\ Holder[a] = m
                                        /\ status[a] \in {"active", "dormant"}}
<1>1. PICK order \in Bijection(1..Cardinality(found), found) :
        link' = [link EXCEPT ![m] = [principal |-> p, order |-> order,
                                     rows |-> <<>>]]
  BY DEF StartLink
<1>2. found \subseteq Accounts /\ Cardinality(found) \in Nat
  <2>1. found \subseteq Accounts /\ IsFiniteSet(Accounts)
    BY LedgerConstants DEF LedgerConstants
  <2>2. IsFiniteSet(found)
    BY <2>1, FS_Subset
  <2>3. QED BY <2>1, <2>2, FS_CardinalityType
<1>3. /\ order \in [1..Cardinality(found) -> found]
      /\ IsInjective(order)
  BY DEF Bijection, Injection
<1>4. order \in Seq(Accounts) /\ Len(order) = Cardinality(found)
  <2> HIDE DEF found
  <2>1. order \in [1..Cardinality(found) -> Accounts]
    BY <1>2, <1>3
  <2>2. QED BY <1>2, <2>1
<1>5. \A i \in 1..Len(order) : status[order[i]] # "none"
  BY <1>3, <1>4
<1> HIDE DEF found
<1>6. /\ UNCHANGED <<balance, status, ledger, loans, tx>>
      /\ link' = [link EXCEPT ![m] = [principal |-> p, order |-> order,
                                      rows |-> <<>>]]
      /\ link \in [Members -> Activation \cup {NoTx}]
      /\ ~Linking(m)
  BY <1>1 DEF StartLink, IInv, TypeOK
<1>7. [principal |-> p, order |-> order, rows |-> <<>>] \in Activation
  BY <1>4 DEF Activation
<1>8. TypeOK'
  BY <1>6, <1>7 DEF IInv, TypeOK
<1>9. /\ link'[m].order = order /\ link'[m].rows = <<>>
      /\ \A k \in Members : k # m => link'[k] = link[k]
  BY <1>6
<1>10. /\ \A s \in Sessions : (InTx(s)' <=> InTx(s)) /\ Source(s)' = Source(s)
       /\ \A k \in Members : k # m => (Linking(k)' <=> Linking(k))
                                      /\ Linked(k)' = Linked(k)
       /\ Linked(m)' = {}
  BY <1>6, <1>9 DEF InTx, Source, Linking, Linked
<1>11. LockExclusive'
  BY <1>10 DEF IInv, LockExclusive
<1>12. ChecksStand' /\ FreshRead' /\ UnopenedEmpty'
  BY <1>6, <1>10 DEF IInv, ChecksStand, FreshRead, UnopenedEmpty
<1>13. LinksStand'
  <2>1. ASSUME NEW k \in Members, Linking(k)', k # m
        PROVE  Linking(k) /\ link'[k] = link[k]
    BY <1>9, <1>10, <2>1
  <2>2. QED
    BY <1>3, <1>5, <1>6, <1>9, <2>1 DEF IInv, LinksStand
<1>14. QED BY <1>8, <1>11, <1>12, <1>13 DEF IInv

\* The account the trigger posts to next, and the row it computes.
LEMMA NextLinkedType ==
  ASSUME IInv, NEW m \in Members, Unposted(m)
  PROVE  /\ Linking(m)
         /\ Len(link[m].rows) + 1 \in 1..Len(link[m].order)
         /\ NextLinked(m) = link[m].order[Len(link[m].rows) + 1]
         /\ NextLinked(m) \in Accounts
         /\ NextLinked(m) \notin Linked(m)
         /\ link[m].principal \in Principals
         /\ OwnDelta(ledger, LinkDeposit(NextLinked(m), link[m].principal))
              = link[m].principal
         /\ LinkDeposit(NextLinked(m), link[m].principal).account = NextLinked(m)
<1>1. Linking(m) /\ Len(link[m].rows) < Len(link[m].order)
  BY DEF Unposted
<1>2. /\ link[m].order \in Seq(Accounts) /\ link[m].rows \in Seq(Rows)
      /\ link[m].principal \in Principals
  BY <1>1, LinkedType DEF Activation
<1>3. /\ Len(link[m].rows) + 1 \in 1..Len(link[m].order)
      /\ NextLinked(m) = link[m].order[Len(link[m].rows) + 1]
      /\ NextLinked(m) \in Accounts
  BY <1>1, <1>2 DEF NextLinked
<1>4. NextLinked(m) \notin Linked(m)
  <2>1. IsInjective(link[m].order)
    BY <1>1 DEF IInv, LinksStand
  <2>2. ASSUME NEW i \in 1..Len(link[m].rows)
        PROVE  link[m].order[i] # link[m].order[Len(link[m].rows) + 1]
    BY <1>1, <1>2, <1>3, <2>1 DEF IsInjective
  <2>3. QED BY <1>1, <1>3, <2>2, LinkedType
<1>5. QED BY <1>1, <1>2, <1>3, <1>4, DepositType

\* A row the trigger inserts is computed from the balance it locked.
LEMMA LinkPostInv ==
  ASSUME IInv, NEW m \in Members, LinkPost(m)
  PROVE  IInv'
<1> DEFINE l == link[m]
           a == NextLinked(m)
           n == Len(l.rows) + 1
           c == LinkDeposit(a, l.principal)
           after == balance[a] + l.principal
           row == RowOf(c, after)
<1>1. Unposted(m)
  BY DEF LinkPost
<1>2. /\ Linking(m) /\ n \in 1..Len(l.order) /\ a = l.order[n] /\ a \in Accounts
      /\ a \notin Linked(m) /\ l.principal \in Principals
      /\ OwnDelta(ledger, c) = l.principal /\ c.account = a
      /\ l \in Activation
  BY <1>1, NextLinkedType, LinkedType
<1>3. /\ link' = [link EXCEPT ![m].rows = Append(@, row)]
      /\ UNCHANGED <<balance, status, ledger, loans, tx>>
      /\ Unlocked(a) /\ Accepted(c, after)
  BY <1>2 DEF LinkPost
<1>4. /\ link'[m].rows = Append(l.rows, row)
      /\ link'[m].order = l.order /\ link'[m].principal = l.principal
      /\ \A k \in Members : k # m => link'[k] = link[k]
  BY <1>2, <1>3 DEF IInv, TypeOK, Activation
<1>5. row \in Rows
  <2>1. l.principal \in Nat
    BY <1>2, DepositType
  <2>2. after \in Nat
    BY <1>2, <2>1 DEF IInv, TypeOK
  <2>3. QED BY <1>2, <2>2, DepositType
<1>6. l.rows \in Seq(Rows) /\ l.order \in Seq(Accounts)
  BY <1>2 DEF Activation
<1>7. Append(l.rows, row) \in Seq(Rows) /\ Len(Append(l.rows, row)) = n
  BY <1>5, <1>6
<1>8. TypeOK'
  <2>1. [l EXCEPT !.rows = Append(l.rows, row)] \in Activation
    BY <1>2, <1>7 DEF Activation
  <2>2. link' = [link EXCEPT ![m] = [l EXCEPT !.rows = Append(l.rows, row)]]
    BY <1>3
  <2> HIDE DEF row, l
  <2>3. link' \in [Members -> Activation \cup {NoTx}]
    BY <2>1, <2>2 DEF IInv, TypeOK
  <2>4. QED BY <1>3, <2>3 DEF IInv, TypeOK
<1>10. /\ \A s \in Sessions : (InTx(s)' <=> InTx(s)) /\ Source(s)' = Source(s)
       /\ \A k \in Members : k # m => (Linking(k)' <=> Linking(k))
                                      /\ Linked(k)' = Linked(k)
  BY <1>3, <1>4 DEF InTx, Source, Linking, Linked
<1> HIDE DEF row
<1>11. Linked(m)' = Linked(m) \cup {a}
  <2>1. Linked(m)' = {l.order[i] : i \in 1..n}
    BY <1>4, <1>7 DEF Linked
  <2>2. Linked(m) = {l.order[i] : i \in 1..Len(l.rows)}
    BY <1>2, LinkedType
  <2>3. 1..n = (1..Len(l.rows)) \cup {n}
    BY <1>6
  <2>4. QED BY <1>2, <2>1, <2>2, <2>3
<1>12. LockExclusive'
  <2>1. \A s \in Sessions : InTx(s) => Source(s) # a
    BY <1>3 DEF Unlocked
  <2>2. \A k \in Members : Linking(k) => a \notin Linked(k)
    BY <1>3 DEF Unlocked
  <2> HIDE DEF a
  <2>3. \A s \in Sessions, k \in Members :
          InTx(s)' /\ Linking(k)' => Source(s)' \notin Linked(k)'
    BY <1>2, <1>10, <1>11, <2>1 DEF IInv, LockExclusive
  <2>4. \A j, k \in Members :
          Linking(j)' /\ Linking(k)' /\ j # k => Linked(j)' \cap Linked(k)' = {}
    BY <1>2, <1>10, <1>11, <2>2 DEF IInv, LockExclusive
  <2>5. QED BY <1>10, <2>3, <2>4 DEF IInv, LockExclusive
<1>13. ChecksStand' /\ FreshRead' /\ UnopenedEmpty'
  BY <1>3, <1>10 DEF IInv, ChecksStand, FreshRead, UnopenedEmpty
<1>14. LinksStand'
  <2>1. ASSUME NEW k \in Members, Linking(k)', k # m
        PROVE  Linking(k) /\ link'[k] = link[k]
    BY <1>4, <1>10, <2>1
  <2>2. /\ status[a] \in {"active", "dormant"} /\ after >= MinBalance[a]
    BY <1>2, <1>3 DEF Accepted
  <2>3. /\ IsInjective(l.order) /\ Len(l.rows) <= Len(l.order)
        /\ \A i \in 1..Len(l.order) : status[l.order[i]] # "none"
        /\ \A i \in 1..Len(l.rows) :
             LET b == balance[l.order[i]] + l.principal IN
             /\ l.rows[i] = RowOf(LinkDeposit(l.order[i], l.principal), b)
             /\ status[l.order[i]] \in {"active", "dormant"}
             /\ b >= MinBalance[l.order[i]]
    BY <1>2 DEF IInv, LinksStand
  <2>4. ASSUME NEW i \in 1..n
        PROVE  LET b == balance[l.order[i]] + l.principal IN
               /\ link'[m].rows[i] = RowOf(LinkDeposit(l.order[i], l.principal), b)
               /\ status[l.order[i]] \in {"active", "dormant"}
               /\ b >= MinBalance[l.order[i]]
    <3>1. CASE i = n
      <4>1. link'[m].rows[n] = row
        BY <1>4, <1>5, <1>6
      <4>2. QED BY <1>2, <2>2, <3>1, <4>1 DEF row
    <3>2. CASE i # n
      <4>1. i \in 1..Len(l.rows)
        BY <1>6, <3>2
      <4>2. link'[m].rows[i] = l.rows[i]
        BY <1>4, <1>5, <1>6, <4>1
      <4>3. QED BY <2>3, <4>1, <4>2
    <3>3. QED BY <3>1, <3>2
  <2>5. /\ IsInjective(link'[m].order)
        /\ Len(link'[m].rows) <= Len(link'[m].order)
        /\ \A i \in 1..Len(link'[m].order) : status'[link'[m].order[i]] # "none"
        /\ \A i \in 1..Len(link'[m].rows) :
             LET b == balance'[link'[m].order[i]] + link'[m].principal IN
             /\ link'[m].rows[i]
                  = RowOf(LinkDeposit(link'[m].order[i], link'[m].principal), b)
             /\ status'[link'[m].order[i]] \in {"active", "dormant"}
             /\ b >= MinBalance[link'[m].order[i]]
    BY <1>2, <1>3, <1>4, <1>7, <2>3, <2>4
  <2> HIDE DEF a, l, n, c, after
  <2>6. ASSUME NEW k \in Members, Linking(k)'
        PROVE  LET q == link'[k] IN
               /\ IsInjective(q.order)
               /\ Len(q.rows) <= Len(q.order)
               /\ \A i \in 1..Len(q.order) : status'[q.order[i]] # "none"
               /\ \A i \in 1..Len(q.rows) :
                    LET b == balance'[q.order[i]] + q.principal IN
                    /\ q.rows[i] = RowOf(LinkDeposit(q.order[i], q.principal), b)
                    /\ status'[q.order[i]] \in {"active", "dormant"}
                    /\ b >= MinBalance[q.order[i]]
    <3>1. CASE k = m
      BY <2>5, <3>1
    <3>2. CASE k # m
      BY <1>3, <2>1, <2>6, <3>2 DEF IInv, LinksStand
    <3>3. QED BY <3>1, <3>2
  <2>7. QED BY <2>6 DEF LinksStand
<1>15. QED BY <1>8, <1>12, <1>13, <1>14 DEF IInv

\* What a committed activation shows of the accounts.
LEMMA LinkCommitFacts ==
  ASSUME IInv, NEW m \in Members, LinkCommit(m)
  PROVE  LET l == link[m]
             n == Len(l.order) IN
         /\ l \in Activation /\ l.principal \in Principals
         /\ l.order \in Seq(Accounts) /\ l.rows \in Seq(Rows)
         /\ Len(l.rows) = n /\ IsInjective(l.order)
         /\ Linked(m) = {l.order[i] : i \in 1..n}
         /\ \A a \in Accounts : balance'[a] =
              IF a \in Linked(m) THEN balance[a] + l.principal ELSE balance[a]
         /\ \A i \in 1..n :
              /\ l.rows[i] = RowOf(LinkDeposit(l.order[i], l.principal),
                                   balance[l.order[i]] + l.principal)
              /\ status[l.order[i]] \in {"active", "dormant"}
              /\ balance[l.order[i]] + l.principal >= MinBalance[l.order[i]]
<1> DEFINE l == link[m]
           n == Len(l.order)
           rowOf(a) == CHOOSE r \in Range(l.rows) : r.account = a
<1>1. Linking(m) /\ ~Unposted(m)
  BY DEF LinkCommit
<1>2. /\ l \in Activation /\ l.principal \in Principals
      /\ l.order \in Seq(Accounts) /\ l.rows \in Seq(Rows)
  BY <1>1, LinkedType DEF Activation
<1>3. Len(l.rows) = n /\ IsInjective(l.order)
  BY <1>1, <1>2 DEF Unposted, IInv, LinksStand
<1>4. Linked(m) = {l.order[i] : i \in 1..n}
  BY <1>1, <1>3, LinkedType
<1>5. \A i \in 1..n :
        /\ l.rows[i] = RowOf(LinkDeposit(l.order[i], l.principal),
                             balance[l.order[i]] + l.principal)
        /\ status[l.order[i]] \in {"active", "dormant"}
        /\ balance[l.order[i]] + l.principal >= MinBalance[l.order[i]]
  BY <1>1, <1>3 DEF IInv, LinksStand
<1>9. ASSUME NEW i \in 1..n
      PROVE  /\ l.rows[i].account = l.order[i]
             /\ l.rows[i].after = balance[l.order[i]] + l.principal
  BY <1>5, DepositRow
<1>10. Range(l.rows) = {l.rows[i] : i \in 1..n}
  BY <1>2, <1>3 DEF Range
<1>6. ASSUME NEW a \in Linked(m)
      PROVE  rowOf(a).after = balance[a] + l.principal
  <2>1. PICK i \in 1..n : a = l.order[i]
    BY <1>4
  <2>2. l.rows[i] \in Range(l.rows) /\ l.rows[i].account = a
    BY <1>9, <1>10, <2>1
  <2>3. ASSUME NEW r \in Range(l.rows), r.account = a
        PROVE  r.after = balance[a] + l.principal
    <3>1. PICK j \in 1..n : r = l.rows[j]
      BY <1>10
    <3>2. QED BY <1>9, <2>3, <3>1
  <2>4. QED BY <2>2, <2>3
<1>7. \A a \in Accounts : balance'[a] =
        IF a \in Linked(m) THEN balance[a] + l.principal ELSE balance[a]
  <2>1. balance' = [a \in Accounts |-> IF a \in Linked(m) THEN rowOf(a).after
                                                          ELSE balance[a]]
    BY DEF LinkCommit
  <2> HIDE DEF rowOf, l
  <2>2. QED BY <1>6, <2>1
<1>8. QED BY <1>2, <1>3, <1>4, <1>5, <1>7

\* Nobody else holds an account whose rows become visible.
LEMMA LinkCommitInv ==
  ASSUME IInv, NEW m \in Members, LinkCommit(m)
  PROVE  IInv'
<1> DEFINE l == link[m]
<1>1. /\ l.principal \in Principals /\ l.rows \in Seq(Rows)
      /\ Linked(m) \subseteq Accounts /\ Linking(m)
      /\ \A a \in Accounts : balance'[a] =
           IF a \in Linked(m) THEN balance[a] + l.principal ELSE balance[a]
      /\ \A a \in Linked(m) : status[a] \in {"active", "dormant"}
  <2>1. Linking(m)
    BY DEF LinkCommit
  <2>2. QED BY <2>1, LinkCommitFacts, LinkedType, HeldOpen
<1>2. /\ ledger' = ledger \o l.rows
      /\ Len(ledger) + Len(l.rows) <= MaxRows
      /\ status' = [a \in Accounts |-> IF a \in Linked(m)
                                       THEN StatusAfter("deposit", status[a])
                                       ELSE status[a]]
      /\ loans' = loans \cup {m}
      /\ link' = [link EXCEPT ![m] = NoTx]
      /\ UNCHANGED tx
      /\ DOMAIN balance' = Accounts
      /\ balance' = [a \in Accounts |-> balance'[a]]
  BY DEF LinkCommit
<1>3. ledger \in Seq(Rows) /\ ledger' \in Seq(Rows)
      /\ Len(ledger') = Len(ledger) + Len(l.rows) /\ Grown(ledger', ledger)
  BY <1>1, <1>2, GrownBy DEF IInv, TypeOK
<1>4. \A a \in Accounts : balance'[a] \in Nat
  <2>1. l.principal \in Nat
    BY <1>1, LedgerConstants, AmountsPositive DEF LedgerConstants
  <2>2. QED BY <1>1, <2>1 DEF IInv, TypeOK
<1>5. TypeOK'
  <2>1. status' \in [Accounts -> Statuses]
    BY <1>1, <1>2 DEF StatusAfter, Statuses, IInv, TypeOK
  <2>2. link' \in [Members -> Activation \cup {NoTx}]
    BY <1>2 DEF IInv, TypeOK
  <2>3. balance' \in [Accounts -> Nat]
    BY <1>2, <1>4
  <2>4. QED BY <1>2, <1>3, <2>1, <2>2, <2>3 DEF IInv, TypeOK
<1>6. /\ \A s \in Sessions : InTx(s)' => InTx(s) /\ tx'[s] = tx[s]
      /\ \A k \in Members : Linking(k)' =>
           k # m /\ Linking(k) /\ link'[k] = link[k]
  BY <1>2 DEF InTx, Linking, IInv, TypeOK
<1>7. ASSUME NEW a \in Accounts, a \notin Linked(m)
      PROVE  balance'[a] = balance[a] /\ status'[a] = status[a]
  BY <1>1, <1>2, <1>7
<1>8. \A s \in Sessions : InTx(s)' =>
        /\ balance'[Source(s)] = balance[Source(s)]
        /\ status'[Source(s)] \in {"active", "dormant"}
  BY <1>1, <1>6, <1>7, HeldOpen DEF IInv, LockExclusive
<1>9. \A k \in Members : Linking(k)' => \A a \in Linked(k) :
        /\ balance'[a] = balance[a]
        /\ status'[a] \in {"active", "dormant"}
  BY <1>1, <1>6, <1>7, HeldOpen DEF IInv, LockExclusive
<1>10. \A a \in Accounts : status'[a] = "none" =>
         status[a] = "none" /\ balance'[a] = balance[a]
  BY <1>1, <1>2, <1>7 DEF StatusAfter
<1> HIDE DEF l
<1>11. QED BY <1>3, <1>5, <1>6, <1>8, <1>9, <1>10, OthersInv

LEMMA NextInv == IInv /\ [Next]_vars => IInv'
<1> SUFFICES ASSUME IInv, [Next]_vars PROVE IInv'
  OBVIOUS
<1>1. ASSUME NEW a \in Accounts, NEW opening \in OpeningBalances,
             OpenAccount(a, opening)
      PROVE  IInv'
  BY <1>1, OpenInv
<1>2. ASSUME NEW s \in Sessions, NEW c \in Calls(Len(ledger)), Begin(s, c)
      PROVE  IInv'
  BY <1>2, BeginInv
<1>3. ASSUME NEW s \in Sessions, Commit(s) PROVE IInv'
  BY <1>3, CommitInv
<1>4. ASSUME NEW s \in Sessions, Fail(s) \/ Crash(s) PROVE IInv'
  BY <1>4, RollbackInv DEF Fail, Crash
<1>5. ASSUME NEW m \in Members, NEW p \in Principals, StartLink(m, p)
      PROVE  IInv'
  BY <1>5, StartLinkInv
<1>6. ASSUME NEW m \in Members, LinkPost(m) PROVE IInv'
  BY <1>6, LinkPostInv
<1>7. ASSUME NEW m \in Members, LinkCommit(m) PROVE IInv'
  BY <1>7, LinkCommitInv
<1>8. ASSUME NEW m \in Members, LinkFail(m) \/ LinkCrash(m) PROVE IInv'
  BY <1>8, UndoneInv DEF LinkFail, LinkCrash
<1>9. ASSUME NEW m \in Members, CloseLoan(m) PROVE IInv'
  <2>1. /\ UNCHANGED <<balance, status, ledger, tx, link>>
        /\ loans' \subseteq Members
        /\ \A s \in Sessions : InTx(s)' => InTx(s)
        /\ \A k \in Members : Linking(k)' => Linking(k)
    BY <1>9 DEF CloseLoan, IInv, TypeOK, InTx, Linking
  <2>2. QED BY <2>1, BooksKept DEF IInv, TypeOK
<1>10. ASSUME NEW a \in Sleepers, MarkDormant(a) PROVE IInv'
  BY <1>10, SleepInv, LedgerConstants DEF LedgerConstants
<1>11. CASE UNCHANGED vars
  <2>1. /\ \A s \in Sessions : InTx(s)' => InTx(s)
        /\ \A k \in Members : Linking(k)' => Linking(k)
    BY <1>11 DEF vars, InTx, Linking
  <2>2. QED BY <1>11, <2>1, BooksKept DEF vars, IInv, TypeOK
<1>12. QED
  BY <1>1, <1>2, <1>3, <1>4, <1>5, <1>6, <1>7, <1>8, <1>9, <1>10, <1>11 DEF Next

\* The state keeps its type: in particular no balance is negative, for every
\* interleaving of any number of sessions.
THEOREM TypeCorrect == Spec => []TypeOK
<1>1. Spec => []IInv
  BY InitInv, NextInv, PTL DEF Spec
<1>2. IInv => TypeOK
  BY DEF IInv
<1>3. QED BY <1>1, <1>2, PTL

\* An open transaction's balance is never stale (post_savings_transaction
\* writes v_balance, computed at its start, at its end).
THEOREM ReadsStayFresh == Spec => []FreshRead
<1>1. Spec => []IInv
  BY InitInv, NextInv, PTL DEF Spec
<1>2. IInv => FreshRead
  BY DEF IInv
<1>3. QED BY <1>1, <1>2, PTL
-----------------------------------------------------------------------------
(* Serializability *)

\* A commit is one posting of the serial book: v_balance and the two updates
\* of the function amount to the effect of the row on today's balances.
LEMMA CommitIsPost ==
  ASSUME IInv, NEW s \in Sessions, Commit(s)
  PROVE  Post(tx[s].call) /\ tx[s].call \in Calls(Len(ledger))
<1> DEFINE c == tx[s].call
           n == tx[s].after
           row == RowOf(c, n)
<1>1. /\ InTx(s)
      /\ ledger' = Append(ledger, row)
      /\ balance' = Updated(tx[s])
      /\ status' = [status EXCEPT ![c.account] = StatusAfter(c.type, @)]
      /\ KeyFree(ledger, c)
  BY DEF Commit
<1>2. /\ c \in Calls(Len(ledger))
      /\ c.type = "transfer" => c.to \in Accounts
      /\ status[c.account] \in {"active", "dormant"}
      /\ MayReverse(ledger, c)
      /\ n >= MinBalance[c.account]
  BY <1>1 DEF IInv, ChecksStand, Source, Calls
<1>3. n = balance[c.account] + OwnDelta(ledger, c)
  BY <1>1 DEF IInv, FreshRead, Source
<1>4. c.account \in Accounts /\ c.amount \in Int
  BY <1>2, AmountsPositive DEF Calls
<1>5. OwnDelta(ledger, c) \in Int
  BY <1>2, DeltaType DEF IInv, TypeOK
<1>6. balance' = [a \in Accounts |-> balance[a] + Effect(ledger, row, a)]
  <2>1. ASSUME NEW a \in Accounts
        PROVE  Updated(tx[s])[a] = balance[a] + Effect(ledger, row, a)
    <3>1. Effect(ledger, row, a) =
              (IF a = c.account THEN OwnDelta(ledger, c) ELSE 0)
            + (IF c.type = "transfer" /\ c.to = a THEN c.amount ELSE 0)
      BY RowDelta DEF Effect
    <3>2. balance[a] \in Int /\ balance[c.account] \in Int
      BY <1>4 DEF IInv, TypeOK
    <3>3. QED
      BY <1>2, <1>3, <1>4, <1>5, <3>1, <3>2 DEF Updated, IInv, TypeOK
  <2>2. Updated(tx[s]) = [a \in Accounts |-> Updated(tx[s])[a]]
    BY <1>2, <1>4 DEF Updated, IInv, TypeOK
  <2>3. QED BY <1>1, <2>1, <2>2
<1>7. QED BY <1>1, <1>2, <1>3, <1>6 DEF Post

\* Making an activation visible is one step of the serial book.
LEMMA LinkCommitIsLink ==
  ASSUME IInv, NEW m \in Members, LinkCommit(m)
  PROVE  \E n \in 0..Cardinality(Accounts), p \in Amounts :
           \E order \in Injection(1..n, Accounts) : LinkLoan(order, p)
<1> DEFINE l == link[m]
           p == l.principal
           order == l.order
           n == Len(order)
           rows == [i \in DOMAIN order |->
                      [account |-> order[i], to |-> NoAccount, type |-> "deposit",
                       amount |-> p, reversalOf |-> 0, key |-> NoKey,
                       after |-> balance[order[i]] + p]]
<1>1. /\ p \in Principals /\ order \in Seq(Accounts) /\ l.rows \in Seq(Rows)
      /\ Len(l.rows) = n /\ IsInjective(order)
      /\ Linked(m) = {order[i] : i \in 1..n}
      /\ \A a \in Accounts : balance'[a] =
           IF a \in Linked(m) THEN balance[a] + p ELSE balance[a]
      /\ \A i \in 1..n :
           /\ l.rows[i] = RowOf(LinkDeposit(order[i], p), balance[order[i]] + p)
           /\ status[order[i]] \in {"active", "dormant"}
           /\ balance[order[i]] + p >= MinBalance[order[i]]
  BY LinkCommitFacts
<1> HIDE DEF l, order, p
<1>2. p \in Amounts
  BY <1>1, LedgerConstants DEF LedgerConstants
<1>3. order \in Injection(1..n, Accounts) /\ n \in Nat /\ DOMAIN order = 1..n
  BY <1>1 DEF Injection
<1>4. n \in 0..Cardinality(Accounts)
  <2>1. IsFiniteSet(Accounts)
    BY LedgerConstants DEF LedgerConstants
  <2>2. Cardinality(1..n) <= Cardinality(Accounts)
    BY <1>3, <2>1, FS_Injection
  <2>3. Cardinality(1..n) = n
    <3>1. Cardinality(1..n) = IF 1 > n THEN 0 ELSE n - 1 + 1
      BY <1>3, FS_Interval
    <3>2. QED BY <1>3, <3>1
  <2>4. QED BY <1>3, <2>1, <2>2, <2>3, FS_CardinalityType
<1>5. Range(order) = Linked(m)
  BY <1>1, <1>3 DEF Range
<1>6. l.rows = rows
  <2>1. \A i \in 1..n : l.rows[i] = rows[i]
    BY <1>1, <1>3 DEF RowOf, LinkDeposit
  <2>2. DOMAIN l.rows = 1..n /\ DOMAIN rows = 1..n
    BY <1>1, <1>3
  <2>3. l.rows = [i \in 1..n |-> l.rows[i]]
    BY <1>1
  <2>4. QED BY <1>3, <2>1, <2>2, <2>3
<1>7. /\ ledger' = ledger \o rows
      /\ status' = [a \in Accounts |-> IF a \in Range(order)
                                       THEN StatusAfter("deposit", status[a])
                                       ELSE status[a]]
  BY <1>5, <1>6 DEF LinkCommit, l
<1>8. balance' = [a \in Accounts |-> IF a \in Range(order) THEN balance[a] + p
                                                             ELSE balance[a]]
  <2>1. balance' = [a \in Accounts |-> balance'[a]]
    BY DEF LinkCommit
  <2>2. QED BY <1>1, <1>5, <2>1
<1>9. \A a \in Range(order) : /\ status[a] \in {"active", "dormant"}
                               /\ balance[a] + p >= MinBalance[a]
  BY <1>1, <1>3 DEF Range
<1>10. LinkLoan(order, p)
  BY <1>7, <1>8, <1>9 DEF LinkLoan
<1>11. QED BY <1>2, <1>3, <1>4, <1>10

LEMMA StepIsSerial == IInv /\ [Next]_vars => [BookNext]_bookVars
<1> SUFFICES ASSUME IInv, [Next]_vars PROVE [BookNext]_bookVars
  OBVIOUS
<1>1. ASSUME NEW a \in Accounts, NEW opening \in OpeningBalances,
             OpenAccount(a, opening)
      PROVE  BookNext
  BY <1>1 DEF OpenAccount, BookNext
<1>2. ASSUME NEW s \in Sessions, NEW c \in Calls(Len(ledger)), Begin(s, c)
      PROVE  UNCHANGED bookVars
  BY <1>2 DEF Begin, bookVars
<1>3. ASSUME NEW s \in Sessions, Commit(s) PROVE BookNext
  BY <1>3, CommitIsPost DEF BookNext
<1>4. ASSUME NEW s \in Sessions, Fail(s) \/ Crash(s) PROVE UNCHANGED bookVars
  BY <1>4 DEF Fail, Crash, Rollback, bookVars
<1>5. ASSUME NEW m \in Members,
             \/ \E p \in Principals : StartLink(m, p)
             \/ LinkPost(m) \/ LinkFail(m) \/ LinkCrash(m)
      PROVE  UNCHANGED bookVars
  BY <1>5 DEF StartLink, LinkPost, LinkFail, LinkCrash, LinkUndone, bookVars
<1>10. ASSUME NEW m \in Members, LinkCommit(m) PROVE BookNext
  BY <1>10, LinkCommitIsLink DEF BookNext
<1>6. ASSUME NEW m \in Members, CloseLoan(m) PROVE UNCHANGED bookVars
  BY <1>6 DEF CloseLoan, bookVars
<1>7. ASSUME NEW a \in Sleepers, MarkDormant(a) PROVE BookNext
  BY <1>7, LedgerConstants DEF LedgerConstants, MarkDormant, BookNext
<1>8. CASE UNCHANGED vars
  BY <1>8 DEF vars, bookVars
<1>9. QED
  BY <1>1, <1>2, <1>3, <1>4, <1>5, <1>6, <1>7, <1>8, <1>10 DEF Next

\* Concurrent postings are serializable: the detailed specification, with row
\* locks, rollbacks and crashes, implements the serial book.
THEOREM Serializable == Spec => Serial
<1>1. Spec => []IInv
  BY InitInv, NextInv, PTL DEF Spec
<1>2. Init => BookInit
  BY DEF Init
<1>3. QED BY <1>1, <1>2, StepIsSerial, PTL DEF Spec, Serial, BookSpec

\* Money leaves an account only down to its product's minimum, also when a
\* transfer credits it between the check and the write.
THEOREM MinimumKept == Spec => KeepsMinimum
<1>1. Spec => []IInv
  BY InitInv, NextInv, PTL DEF Spec
<1>2. IInv /\ [Next]_vars =>
        [\A a \in Accounts : balance'[a] < balance[a] =>
                                 balance'[a] >= MinBalance[a]]_vars
  <2> SUFFICES ASSUME IInv, [Next]_vars, NEW a \in Accounts,
                      balance'[a] < balance[a]
               PROVE  balance'[a] >= MinBalance[a]
    OBVIOUS
  <2>1. balance[a] \in Int /\ MinBalance[a] \in Int
    BY LedgerConstants DEF LedgerConstants, IInv, TypeOK
  <2>2. ASSUME NEW b \in Accounts, NEW opening \in OpeningBalances,
               Open(b, opening)
        PROVE  balance'[a] >= MinBalance[a]
    BY <2>1, <2>2, LedgerConstants DEF LedgerConstants, Open, IInv, TypeOK, UnopenedEmpty
  <2>3. ASSUME NEW c \in Calls(Len(ledger)), Post(c)
        PROVE  balance'[a] >= MinBalance[a]
    <3>1. c.account \in Accounts /\ c.amount \in Int /\ c.amount > 0
      BY AmountsPositive DEF Calls
    <3>2. OwnDelta(ledger, c) \in Int
      BY <2>3, DeltaType DEF Post, IInv, TypeOK
    <3>3. \E n : balance'[a] = balance[a] + Effect(ledger, RowOf(c, n), a)
      BY <2>3 DEF Post
    <3>4. balance'[a] = balance[a]
              + ((IF a = c.account THEN OwnDelta(ledger, c) ELSE 0)
              + (IF c.type = "transfer" /\ c.to = a THEN c.amount ELSE 0))
      BY <3>3, RowDelta DEF Effect
    <3>5. a = c.account
      BY <2>1, <3>1, <3>2, <3>4
    <3>6. balance[a] + OwnDelta(ledger, c) >= MinBalance[a]
      BY <2>3, <3>5 DEF Post
    <3>7. QED BY <2>1, <3>1, <3>2, <3>4, <3>5, <3>6
  <2>4. ASSUME NEW order, NEW p \in Amounts, LinkLoan(order, p)
        PROVE  balance'[a] >= MinBalance[a]
    <3>1. p \in Int /\ p > 0
      BY AmountsPositive
    <3>2. balance' = [b \in Accounts |-> IF b \in Range(order) THEN balance[b] + p
                                                                 ELSE balance[b]]
      BY <2>4 DEF LinkLoan
    <3>3. balance'[a] = balance[a] + p \/ balance'[a] = balance[a]
      BY <3>2
    <3>4. QED BY <2>1, <3>1, <3>3
  <2>5. QED
    BY <2>1, <2>2, <2>3, <2>4, StepIsSerial DEF BookNext, Sleep, bookVars
<1>3. QED BY <1>1, <1>2, PTL DEF Spec, KeepsMinimum

-----------------------------------------------------------------------------
(* The passbook and the integrity report *)

\* What the first n rows moved on account a.
Moved(rows, n, a) == SumFunction([j \in 1..n |-> Effect(rows, rows[j], a)])

\* A row reverses an earlier one, and names opened accounts only.
RowsSound ==
  \A i \in DOMAIN ledger :
    LET r == ledger[i] IN
    /\ r.reversalOf \in 0..(i - 1)
    /\ status[r.account] # "none"
    /\ r.to # NoAccount => status[r.to] # "none"

\* The stored balance is the opening balance and what all rows moved.
BooksAddUp ==
  \A a \in Accounts : status[a] # "none" =>
    balance[a] - Moved(ledger, Len(ledger), a) \in OpeningBalances

\* What the rows do not explain of a balance: the opening balance.
Unexplained(a) == balance[a] - Moved(ledger, Len(ledger), a)

SoundInv == IInv /\ RowsSound

PassbookInv == SoundInv /\ BooksAddUp /\ PassbookAddsUp

\* Rows keep pointing back, whatever is posted.
PointsBack(rows) == \A i \in DOMAIN rows : rows[i].reversalOf \in 0..(i - 1)

LEMMA EffectType ==
  ASSUME NEW rows \in Seq(Rows), NEW r \in Rows, NEW a,
         r.reversalOf # 0 => r.reversalOf \in DOMAIN rows
  PROVE  Effect(rows, r, a) \in Int
<1>1. r.amount \in Int
  BY AmountsPositive DEF Rows
<1>2. OwnDelta(rows, r) \in Int
  <2>1. CASE r.reversalOf = 0
    BY <1>1, <2>1 DEF OwnDelta, PlainDelta
  <2>2. CASE r.reversalOf # 0
    <3>1. rows[r.reversalOf] \in Rows
      BY <2>2
    <3>2. rows[r.reversalOf].amount \in Int
      BY <3>1, AmountsPositive DEF Rows
    <3>3. QED BY <2>2, <3>2 DEF OwnDelta, ReversalDelta
  <2>3. QED BY <2>1, <2>2
<1>3. QED BY <1>1, <1>2 DEF Effect

\* Rows appended later change nothing in what the earlier rows moved.
LEMMA MovedStable ==
  ASSUME NEW rows \in Seq(Rows), NEW later, Grown(later, rows), NEW a,
         NEW n \in Nat, n <= Len(rows), PointsBack(rows)
  PROVE  Moved(later, n, a) = Moved(rows, n, a)
<1>1. ASSUME NEW j \in 1..n
      PROVE  Effect(later, later[j], a) = Effect(rows, rows[j], a)
  <2>1. later[j] = rows[j] /\ j \in DOMAIN rows
    BY DEF Grown
  <2>2. rows[j].reversalOf # 0 => later[rows[j].reversalOf] = rows[rows[j].reversalOf]
    BY <2>1 DEF PointsBack, Grown
  <2>3. OwnDelta(later, rows[j]) = OwnDelta(rows, rows[j])
    BY <2>2 DEF OwnDelta
  <2>4. QED BY <2>1, <2>3 DEF Effect
<1>2. QED BY <1>1 DEF Moved

\* Each row adds its own effect to what was moved before.
LEMMA MovedNext ==
  ASSUME NEW rows \in Seq(Rows), NEW a, PointsBack(rows),
         NEW n \in Nat, n + 1 <= Len(rows)
  PROVE  /\ Moved(rows, n, a) \in Int
         /\ Moved(rows, n + 1, a) =
              Moved(rows, n, a) + Effect(rows, rows[n + 1], a)
<1> DEFINE f == [j \in 1..n |-> Effect(rows, rows[j], a)]
           g == [j \in 1..(n+1) |-> Effect(rows, rows[j], a)]
<1>1. ASSUME NEW j \in 1..(n+1) PROVE Effect(rows, rows[j], a) \in Int
  <2>1. rows[j] \in Rows /\ j \in DOMAIN rows
    OBVIOUS
  <2>2. rows[j].reversalOf # 0 => rows[j].reversalOf \in DOMAIN rows
    BY <2>1 DEF PointsBack
  <2>3. QED BY <2>1, <2>2, EffectType
<1>2. IsFiniteSet(1..n)
  BY FS_Interval
<1>3. /\ 1..(n+1) = (1..n) \cup {n+1} /\ n+1 \notin 1..n
      /\ \A j \in 1..n : g[j] \in Int /\ f[j] = g[j]
      /\ g[n+1] \in Int /\ g[n+1] = Effect(rows, rows[n+1], a)
  BY <1>1
<1>4. Moved(rows, n, a) = SumFunctionOnSet(f, 1..n)
  BY DEF Moved, SumFunction
<1>5. Moved(rows, n + 1, a) = SumFunctionOnSet(g, 1..(n+1))
  BY DEF Moved, SumFunction
<1> HIDE DEF f, g
<1>6. SumFunctionOnSet(g, 1..n) = SumFunctionOnSet(f, 1..n)
  BY <1>2, <1>3, SumSame
<1>7. SumFunctionOnSet(g, (1..n) \cup {n+1}) = SumFunctionOnSet(g, 1..n) + g[n+1]
  BY <1>2, <1>3, SumAdd
<1>8. SumFunctionOnSet(g, 1..n) \in Int
  BY <1>2, <1>3, SumRecursion
<1>9. SumFunctionOnSet(g, 1..(n+1)) = SumFunctionOnSet(g, 1..n) + g[n+1]
  BY <1>3, <1>7, Zenon
<1>10. QED BY <1>3, <1>4, <1>5, <1>6, <1>8, <1>9

LEMMA MovedNothing ==
  ASSUME NEW rows, NEW n \in Nat, NEW a,
         \A j \in 1..n : Effect(rows, rows[j], a) = 0
  PROVE  Moved(rows, n, a) = 0
<1>1. IsFiniteSet(1..n)
  BY FS_Interval
<1>2. QED BY <1>1, SumZero DEF Moved, SumFunction

\* Rows that are appended are sound when their accounts and destinations are
\* open; no step closes an account for good.
LEMMA SoundGrown ==
  ASSUME IInv, RowsSound, Grown(ledger', ledger),
         \A i \in 1..Len(ledger') : i > Len(ledger) =>
           LET r == ledger'[i] IN
           /\ r.account \in Accounts /\ r.to \in Accounts \cup {NoAccount}
           /\ r.reversalOf \in 0..Len(ledger)
           /\ status[r.account] # "none"
           /\ r.to # NoAccount => status[r.to] # "none",
         \A a \in Accounts : status[a] # "none" => status'[a] # "none"
  PROVE  RowsSound'
<1> SUFFICES ASSUME NEW i \in 1..Len(ledger')
             PROVE  LET q == ledger'[i] IN
                    /\ q.reversalOf \in 0..(i - 1)
                    /\ status'[q.account] # "none"
                    /\ q.to # NoAccount => status'[q.to] # "none"
  BY DEF RowsSound, Grown
<1>1. ledger \in Seq(Rows) /\ ledger' \in Seq(Rows)
  BY DEF IInv, TypeOK, Grown
<1>2. CASE i <= Len(ledger)
  <2>1. i \in DOMAIN ledger /\ ledger'[i] = ledger[i] /\ ledger[i] \in Rows
    BY <1>1, <1>2 DEF Grown
  <2>2. /\ ledger[i].account \in Accounts
        /\ ledger[i].to \in Accounts \cup {NoAccount}
    BY <2>1 DEF Rows
  <2>3. QED BY <2>1, <2>2 DEF RowsSound
<1>3. CASE i > Len(ledger)
  <2>1. 0..Len(ledger) \subseteq 0..(i - 1)
    BY <1>1, <1>3
  <2>2. QED BY <1>3, <2>1
<1>4. QED BY <1>1, <1>2, <1>3

\* Accounts are opened once and keep a status from then on.
LEMMA StatusKept ==
  ASSUME IInv, BookNext, NEW a \in Accounts, status[a] # "none"
  PROVE  status'[a] # "none"
<1>1. status \in [Accounts -> Statuses]
  BY DEF IInv, TypeOK
<1>2. ASSUME NEW b \in Accounts, NEW opening \in OpeningBalances,
             Open(b, opening)
      PROVE  status'[a] # "none"
  BY <1>1, <1>2 DEF Open
<1>3. ASSUME NEW c \in Calls(Len(ledger)), Post(c) PROVE status'[a] # "none"
  BY <1>1, <1>3 DEF Post, StatusAfter
<1>4. ASSUME NEW b \in Accounts, Sleep(b) PROVE status'[a] # "none"
  BY <1>1, <1>4 DEF Sleep
<1>5. ASSUME NEW order, NEW p \in Amounts, LinkLoan(order, p)
      PROVE  status'[a] # "none"
  <2>1. status'[a] \in {StatusAfter("deposit", status[a]), status[a]}
    BY <1>1, <1>5 DEF LinkLoan
  <2>2. QED BY <2>1 DEF StatusAfter
<1>6. QED BY <1>2, <1>3, <1>4, <1>5 DEF BookNext

LEMMA SoundInvInit == Init => SoundInv
<1>1. Init => RowsSound
  BY DEF Init, BookInit, RowsSound
<1>2. QED BY <1>1, InitInv DEF SoundInv

LEMMA SoundInvNext == SoundInv /\ [Next]_vars => SoundInv'
<1> SUFFICES ASSUME SoundInv, [Next]_vars PROVE RowsSound'
  BY NextInv DEF SoundInv
<1>1. IInv /\ RowsSound
  BY DEF SoundInv
<1>2. \A a \in Accounts : status[a] # "none" => status'[a] # "none"
  BY <1>1, StepIsSerial, StatusKept DEF bookVars
<1>3. CASE UNCHANGED ledger
  <2>1. Grown(ledger', ledger) /\ Len(ledger') = Len(ledger)
    BY <1>1, <1>3, GrownStill
  <2>2. ~ \E i \in 1..Len(ledger') : i > Len(ledger)
    BY <1>1, <2>1 DEF IInv, TypeOK
  <2>3. QED BY <1>1, <1>2, <2>1, <2>2, SoundGrown
<1>4. ASSUME NEW s \in Sessions, Commit(s) PROVE RowsSound'
  <2> DEFINE c == tx[s].call
             row == RowOf(c, tx[s].after)
  <2>1. InTx(s) /\ ledger' = Append(ledger, row)
    BY <1>4 DEF Commit
  <2>2. /\ c \in Calls(Len(ledger)) /\ tx[s].after \in Nat
        /\ status[c.account] # "none"
        /\ c.to # NoAccount => status[c.to] # "none"
    BY <1>1, <2>1 DEF IInv, ChecksStand, Source, InTx, TypeOK, Transaction
  <2>3. row \in Rows /\ ledger \in Seq(Rows)
    BY <1>1, <2>2, RowType DEF IInv, TypeOK
  <2>4. /\ row.reversalOf \in 0..Len(ledger) /\ row.account = c.account
        /\ row.to = c.to /\ row.account \in Accounts
        /\ row.to \in Accounts \cup {NoAccount}
    BY <2>2 DEF RowOf, Calls
  <2> HIDE DEF row, c
  <2>5. Grown(ledger', ledger)
    BY <2>1, <2>3, GrownByOne
  <2>6. \A i \in 1..Len(ledger') : i > Len(ledger) => ledger'[i] = row
    BY <2>1, <2>3
  <2>7. QED BY <1>1, <1>2, <2>2, <2>4, <2>5, <2>6, SoundGrown
<1>5. ASSUME NEW m \in Members, LinkCommit(m) PROVE RowsSound'
  <2> DEFINE l == link[m]
  <2>1. /\ ledger' = ledger \o l.rows /\ l.rows \in Seq(Rows)
        /\ Len(l.rows) = Len(l.order) /\ ledger \in Seq(Rows)
        /\ \A i \in 1..Len(l.order) : /\ l.order[i] \in Accounts
                                      /\ status[l.order[i]] # "none"
    <3>1. ledger' = ledger \o l.rows /\ ledger \in Seq(Rows)
      BY <1>1, <1>5 DEF LinkCommit, IInv, TypeOK
    <3>2. /\ l.rows \in Seq(Rows) /\ Len(l.rows) = Len(l.order)
          /\ l.order \in Seq(Accounts)
          /\ \A i \in 1..Len(l.order) : status[l.order[i]] \in {"active", "dormant"}
      BY <1>1, <1>5, LinkCommitFacts
    <3>3. ASSUME NEW i \in 1..Len(l.order)
          PROVE  l.order[i] \in Accounts /\ status[l.order[i]] # "none"
      <4>1. l.order[i] \in Accounts
        BY <3>2
      <4>2. QED BY <3>2, <4>1
    <3> HIDE DEF l
    <3>4. QED BY <3>1, <3>2, <3>3
  <2>2. ASSUME NEW i \in 1..Len(l.rows)
        PROVE  LET r == l.rows[i] IN
               /\ r.account = l.order[i] /\ r.to = NoAccount /\ r.reversalOf = 0
    <3>1. l.rows[i] = RowOf(LinkDeposit(l.order[i], l.principal),
                            balance[l.order[i]] + l.principal)
      BY <1>1, <1>5, <2>1, LinkCommitFacts
    <3>2. QED BY <3>1, DepositRow
  <2>3. Grown(ledger', ledger)
    BY <2>1, GrownBy
  <2>4. ASSUME NEW i \in 1..Len(ledger'), i > Len(ledger)
        PROVE  i - Len(ledger) \in 1..Len(l.rows)
               /\ ledger'[i] = l.rows[i - Len(ledger)]
    BY <2>1, <2>4
  <2>5. 0 \in 0..Len(ledger)
    BY <2>1
  <2> HIDE DEF l
  <2>6. QED BY <1>1, <1>2, <2>1, <2>2, <2>3, <2>4, <2>5, SoundGrown
<1>6. QED
  BY <1>3, <1>4, <1>5
  DEF Next, Begin, Fail, Crash, Rollback, StartLink, LinkPost, LinkFail,
      LinkCrash, LinkUndone, OpenAccount, Open, CloseLoan, MarkDormant, Sleep,
      vars

\* An account that was not opened has not moved; opening it counts as its
\* opening balance.
LEMMA OpenAddsUp ==
  ASSUME PassbookInv, NEW a \in Accounts, NEW opening \in OpeningBalances,
         Open(a, opening)
  PROVE  BooksAddUp'
<1>1. IInv /\ RowsSound /\ BooksAddUp
  BY DEF PassbookInv, SoundInv
<1>2. /\ status[a] = "none" /\ UNCHANGED ledger
      /\ balance' = [balance EXCEPT ![a] = opening]
      /\ status' = [status EXCEPT ![a] = "active"]
      /\ balance \in [Accounts -> Nat] /\ status \in [Accounts -> Statuses]
  BY <1>1 DEF Open, IInv, TypeOK
<1>3. Moved(ledger, Len(ledger), a) = 0
  <2>1. ASSUME NEW j \in 1..Len(ledger) PROVE Effect(ledger, ledger[j], a) = 0
    <3>1. ledger[j].account # a
      BY <1>1, <1>2 DEF RowsSound, IInv, TypeOK
    <3>2. ~(ledger[j].type = "transfer" /\ ledger[j].to = a)
      BY <1>1, <1>2, RowConstants DEF RowsSound, IInv, TypeOK, RowConstants
    <3>3. QED BY <3>1, <3>2 DEF Effect
  <2>2. Len(ledger) \in Nat
    BY <1>1 DEF IInv, TypeOK
  <2>3. QED BY <2>1, <2>2, MovedNothing
<1>4. opening \in Nat
  BY LedgerConstants DEF LedgerConstants
<1>5. ASSUME NEW b \in Accounts, status'[b] # "none"
      PROVE  balance'[b] - Moved(ledger, Len(ledger), b) \in OpeningBalances
  <2>1. CASE b = a
    BY <1>2, <1>3, <1>4, <2>1
  <2>2. CASE b # a
    BY <1>1, <1>2, <1>5, <2>2 DEF BooksAddUp
  <2>3. QED BY <2>1, <2>2
<1>6. QED BY <1>2, <1>5 DEF BooksAddUp

\* A posting moves every balance by what its row moves, and its row shows the
\* balance that was there with its own delta on top.
LEMMA PostAddsUp ==
  ASSUME PassbookInv, RowsSound', TypeOK', NEW c \in Calls(Len(ledger)), Post(c)
  PROVE  /\ BooksAddUp' /\ PassbookAddsUp'
         /\ \A a \in Accounts : Unexplained(a)' = Unexplained(a)
<1> DEFINE n == Len(ledger)
           row == RowOf(c, balance[c.account] + OwnDelta(ledger, c))
<1>1. IInv /\ RowsSound /\ BooksAddUp /\ PassbookAddsUp
  BY DEF PassbookInv, SoundInv
<1>2. /\ ledger' = Append(ledger, row)
      /\ balance' = [a \in Accounts |-> balance[a] + Effect(ledger, row, a)]
      /\ status[c.account] # "none"
      /\ \A a \in Accounts : status'[a] # "none" => status[a] # "none"
  BY <1>1 DEF Post, StatusAfter, IInv, TypeOK
<1>3. /\ ledger \in Seq(Rows) /\ n \in Nat
      /\ balance \in [Accounts -> Nat] /\ ledger' \in Seq(Rows)
  BY <1>1 DEF IInv, TypeOK
<1>4. /\ Len(ledger') = n + 1 /\ ledger'[n + 1] = row /\ row \in Rows
      /\ \A i \in 1..n : ledger'[i] = ledger[i] /\ ledger[i] \in Rows
  <2>1. Len(ledger') = n + 1 /\ ledger'[n + 1] = row
    BY <1>2, <1>3
  <2>2. QED BY <1>2, <1>3, <2>1
<1>5. PointsBack(ledger) /\ PointsBack(ledger')
  BY DEF PointsBack, RowsSound, PassbookInv, SoundInv
<1>6. /\ row.account = c.account /\ c.account \in Accounts
      /\ row.after = balance[c.account] + OwnDelta(ledger, c)
      /\ row.reversalOf = c.reversalOf /\ c.reversalOf \in 0..n
      /\ OwnDelta(ledger, c) \in Int
  <2>1. OwnDelta(ledger, c) \in Int
    BY <1>3, DeltaType DEF Post
  <2>2. QED BY <2>1 DEF RowOf, Calls
<1> HIDE DEF row
<1>7. ASSUME NEW i \in 1..n, ledger[i].reversalOf # 0
      PROVE  ledger'[ledger[i].reversalOf] = ledger[ledger[i].reversalOf]
  <2>1. ledger[i].reversalOf \in 1..n
    BY <1>3, <1>5, <1>7 DEF PointsBack
  <2>2. QED BY <1>4, <2>1
<1>8. /\ OwnDelta(ledger', row) = OwnDelta(ledger, row)
      /\ \A i \in 1..n : OwnDelta(ledger', ledger'[i]) = OwnDelta(ledger, ledger[i])
  <2>1. c.reversalOf # 0 => ledger'[c.reversalOf] = ledger[c.reversalOf]
    BY <1>3, <1>4, <1>6
  <2>2. OwnDelta(ledger', row) = OwnDelta(ledger, row)
    BY <1>6, <2>1 DEF OwnDelta
  <2>3. ASSUME NEW i \in 1..n
        PROVE  OwnDelta(ledger', ledger'[i]) = OwnDelta(ledger, ledger[i])
    <3>1. ledger'[i] = ledger[i]
      BY <1>4
    <3>2. ledger[i].reversalOf # 0 =>
            ledger'[ledger[i].reversalOf] = ledger[ledger[i].reversalOf]
      BY <1>7
    <3>3. QED BY <3>1, <3>2 DEF OwnDelta
  <2>4. QED BY <2>2, <2>3
<1>9. ASSUME NEW a, NEW k \in 0..n
      PROVE  Moved(ledger', k, a) = Moved(ledger, k, a)
  <2>1. k \in Nat /\ k <= Len(ledger)
    BY <1>3
  <2>2. Grown(ledger', ledger)
    BY <1>2, <1>3, <1>4, GrownByOne
  <2>3. QED BY <1>3, <1>5, <2>1, <2>2, MovedStable
<1>10. ASSUME NEW a
       PROVE  /\ Moved(ledger, n, a) \in Int
              /\ Moved(ledger', n + 1, a) =
                   Moved(ledger, n, a) + Effect(ledger, row, a)
              /\ Effect(ledger, row, a) \in Int
  <2>1. /\ Moved(ledger', n, a) \in Int
        /\ Moved(ledger', n + 1, a) =
              Moved(ledger', n, a) + Effect(ledger', ledger'[n + 1], a)
    BY <1>3, <1>4, <1>5, MovedNext
  <2>2. Moved(ledger', n, a) = Moved(ledger, n, a)
    BY <1>3, <1>9
  <2>3. Effect(ledger', ledger'[n + 1], a) = Effect(ledger, row, a)
    BY <1>4, <1>8 DEF Effect
  <2>4. Effect(ledger, row, a) \in Int
    BY <1>3, <1>4, <1>6, EffectType
  <2>5. QED BY <2>1, <2>2, <2>3, <2>4
<1>11. ASSUME NEW a \in Accounts
       PROVE  balance'[a] - Moved(ledger', n + 1, a) = balance[a] - Moved(ledger, n, a)
  <2>1. balance'[a] = balance[a] + Effect(ledger, row, a)
    BY <1>2
  <2>2. QED BY <1>3, <1>10, <2>1
<1>13. BooksAddUp'
  <2> SUFFICES ASSUME NEW a \in Accounts, status'[a] # "none"
               PROVE  balance'[a] - Moved(ledger', n + 1, a) \in OpeningBalances
    BY <1>4 DEF BooksAddUp
  <2>1. balance[a] - Moved(ledger, n, a) \in OpeningBalances
    BY <1>1, <1>2 DEF BooksAddUp
  <2>2. QED BY <1>11, <2>1
<1>14. ASSUME NEW a \in Accounts PROVE Unexplained(a)' = Unexplained(a)
  BY <1>4, <1>11 DEF Unexplained
<1>12. PassbookAddsUp'
  <2> SUFFICES ASSUME NEW i \in 1..(n + 1)
               PROVE  LET q == ledger'[i] IN
                      q.after - OwnDelta(ledger', q)
                        - Moved(ledger', i - 1, q.account) \in OpeningBalances
    BY <1>3, <1>4 DEF PassbookAddsUp, Moved
  <2>1. CASE i = n + 1
    <3>1. Moved(ledger', n, c.account) = Moved(ledger, n, c.account)
      BY <1>3, <1>9
    <3>2. OwnDelta(ledger, row) = OwnDelta(ledger, c)
      BY RowDelta DEF row
    <3>3. balance[c.account] - Moved(ledger, n, c.account) \in OpeningBalances
      BY <1>1, <1>2, <1>6 DEF BooksAddUp
    <3>4. row.after - OwnDelta(ledger, c) = balance[c.account]
      BY <1>3, <1>6
    <3>5. i - 1 = n
      BY <1>3, <2>1
    <3>6. QED BY <1>4, <1>6, <1>8, <2>1, <3>1, <3>2, <3>3, <3>4, <3>5
  <2>2. CASE i # n + 1
    <3>1. i \in 1..n /\ i - 1 \in 0..n /\ i \in DOMAIN ledger
      BY <1>3, <2>2
    <3>2. /\ ledger'[i] = ledger[i]
          /\ OwnDelta(ledger', ledger'[i]) = OwnDelta(ledger, ledger[i])
          /\ Moved(ledger', i - 1, ledger[i].account)
               = Moved(ledger, i - 1, ledger[i].account)
      BY <1>4, <1>8, <1>9, <3>1
    <3>3. ledger[i].after - OwnDelta(ledger, ledger[i])
            - Moved(ledger, i - 1, ledger[i].account) \in OpeningBalances
      BY <1>1, <3>1 DEF PassbookAddsUp, Moved
    <3>4. QED BY <3>2, <3>3
  <2>3. QED BY <2>1, <2>2
<1>15. QED BY <1>12, <1>13, <1>14

\* The rows of an activation move each linked account once, by the principal,
\* and each of them shows the balance that was there with it on top.
LEMMA LinkAddsUp ==
  ASSUME PassbookInv, RowsSound', TypeOK', NEW k \in Nat,
         NEW order \in Injection(1..k, Accounts), NEW p \in Amounts,
         LinkLoan(order, p)
  PROVE  /\ BooksAddUp' /\ PassbookAddsUp'
         /\ \A a \in Accounts : Unexplained(a)' = Unexplained(a)
<1> DEFINE n == Len(ledger)
           row(i) == [account |-> order[i], to |-> NoAccount, type |-> "deposit",
                      amount |-> p, reversalOf |-> 0, key |-> NoKey,
                      after |-> balance[order[i]] + p]
           rows == [i \in DOMAIN order |-> row(i)]
<1>1. IInv /\ RowsSound /\ BooksAddUp /\ PassbookAddsUp
  BY DEF PassbookInv, SoundInv
<1>2. /\ order \in [1..k -> Accounts] /\ DOMAIN order = 1..k
      /\ \A i, j \in 1..k : order[i] = order[j] => i = j
      /\ Range(order) = {order[i] : i \in 1..k}
  BY DEF Injection, IsInjective, Range
<1>3. /\ ledger \in Seq(Rows) /\ n \in Nat
      /\ balance \in [Accounts -> Nat] /\ ledger' \in Seq(Rows)
      /\ status \in [Accounts -> Statuses]
  BY <1>1 DEF IInv, TypeOK
<1>4. p \in Nat /\ p > 0
  BY RowConstants DEF RowConstants
<1>5. /\ ledger' = ledger \o rows
      /\ balance' = [a \in Accounts |-> IF a \in Range(order)
                                        THEN balance[a] + p ELSE balance[a]]
      /\ status' = [a \in Accounts |-> IF a \in Range(order)
                                       THEN StatusAfter("deposit", status[a])
                                       ELSE status[a]]
      /\ \A a \in Range(order) : status[a] \in {"active", "dormant"}
  BY DEF LinkLoan
<1>6. /\ rows \in Seq(Rows) /\ Len(rows) = k
      /\ \A i \in 1..k : rows[i] = row(i)
  <2>1. ASSUME NEW i \in 1..k PROVE row(i) \in Rows
    <3>1. order[i] \in Accounts /\ balance[order[i]] + p \in Nat
      BY <1>2, <1>3, <1>4
    <3>2. QED BY <3>1 DEF Rows, TxTypes
  <2>2. rows \in [1..k -> Rows]
    BY <1>2, <2>1
  <2>3. QED BY <1>2, <2>2
<1> HIDE DEF rows
<1>7. /\ Len(ledger') = n + k
      /\ \A i \in 1..k : ledger'[n + i] = row(i)
      /\ \A i \in 1..n : ledger'[i] = ledger[i] /\ ledger[i] \in Rows
      /\ Grown(ledger', ledger)
  <2>1. ASSUME NEW i \in 1..k PROVE (ledger \o rows)[n + i] = rows[i]
    BY <1>3, <1>6
  <2> HIDE DEF row
  <2>2. Grown(ledger', ledger)
    BY <1>3, <1>5, <1>6, GrownBy
  <2>3. Len(ledger') = n + k
    <3>1. ledger' = ledger \o rows
      BY <1>5
    <3>2. rows \in Seq(Rows) /\ Len(rows) = k
      BY <1>6
    <3>3. ledger \in Seq(Rows) /\ Len(ledger) = n
      BY <1>3
    <3> HIDE DEF n
    <3>4. Len(ledger \o rows) = Len(ledger) + Len(rows)
      BY <3>2, <3>3
    <3>5. QED BY <3>1, <3>2, <3>3, <3>4
  <2>4. ASSUME NEW i \in 1..k PROVE ledger'[n + i] = row(i)
    <3>1. ledger' = ledger \o rows
      BY <1>5
    <3>2. ledger'[n + i] = rows[i]
      BY <2>1, <3>1
    <3>3. rows[i] = row(i)
      BY <1>6
    <3>4. QED BY <3>2, <3>3
  <2>5. \A i \in 1..n : ledger'[i] = ledger[i] /\ ledger[i] \in Rows
    BY <1>3, <2>2 DEF Grown
  <2>6. QED BY <2>2, <2>3, <2>4, <2>5
<1>8. PointsBack(ledger) /\ PointsBack(ledger')
  BY DEF PointsBack, RowsSound, PassbookInv, SoundInv
<1>9. ASSUME NEW a, NEW i \in 0..n
      PROVE  Moved(ledger', i, a) = Moved(ledger, i, a)
  <2>1. i \in Nat /\ i <= Len(ledger)
    BY <1>3
  <2>2. QED BY <1>3, <1>7, <1>8, <2>1, MovedStable
<1> DEFINE Gained(j, a) == IF \E i \in 1..j : order[i] = a THEN p ELSE 0
           N == {j \in Nat : j <= k => \A a \in Accounts :
                   Moved(ledger', n + j, a) = Moved(ledger, n, a) + Gained(j, a)}
<1>10. ASSUME NEW j \in Nat, j + 1 <= k, NEW a \in Accounts
       PROVE  /\ Moved(ledger', n + j, a) \in Int
              /\ Moved(ledger', n + j + 1, a) = Moved(ledger', n + j, a)
                   + (IF order[j + 1] = a THEN p ELSE 0)
  <2>1. n + j \in Nat /\ n + j + 1 <= Len(ledger') /\ j + 1 \in 1..k
        /\ n + j + 1 = n + (j + 1)
    BY <1>3, <1>7, <1>10
  <2>2. /\ Moved(ledger', n + j, a) \in Int
        /\ Moved(ledger', n + j + 1, a) =
             Moved(ledger', n + j, a) + Effect(ledger', ledger'[n + j + 1], a)
    BY <1>3, <1>8, <2>1, MovedNext
  <2>3. ledger'[n + j + 1] = row(j + 1)
    BY <1>7, <2>1
  <2>4. Effect(ledger', row(j + 1), a) = IF order[j + 1] = a THEN p ELSE 0
    BY <1>4 DEF Effect, OwnDelta, PlainDelta
  <2>5. QED BY <2>2, <2>3, <2>4
<1>11. ASSUME NEW a PROVE Moved(ledger, n, a) \in Int
  <2>1. CASE n = 0
    <3>1. Moved(ledger, n, a) = 0
      BY <1>3, <2>1, MovedNothing
    <3>2. QED BY <3>1
  <2>2. CASE n # 0
    <3>1. n - 1 \in Nat /\ (n - 1) + 1 = n
      BY <1>3, <2>2
    <3>2. /\ Moved(ledger, n - 1, a) \in Int
          /\ Moved(ledger, (n - 1) + 1, a) =
               Moved(ledger, n - 1, a) + Effect(ledger, ledger[(n - 1) + 1], a)
      BY <1>3, <1>8, <3>1, MovedNext
    <3>3. Effect(ledger, ledger[n], a) \in Int
      <4>1. n \in DOMAIN ledger /\ ledger[n] \in Rows
        BY <1>3, <3>1
      <4>2. ledger[n].reversalOf # 0 => ledger[n].reversalOf \in DOMAIN ledger
        BY <1>3, <1>8, <4>1 DEF PointsBack
      <4>3. QED BY <1>3, <4>1, <4>2, EffectType
    <3>4. QED BY <3>1, <3>2, <3>3
  <2>3. QED BY <2>1, <2>2
<1>12. 0 \in N
  BY <1>3, <1>9, <1>11
<1>13. ASSUME NEW j \in Nat, j \in N PROVE j + 1 \in N
  <2> SUFFICES ASSUME j + 1 <= k, NEW a \in Accounts
               PROVE  Moved(ledger', n + (j + 1), a)
                        = Moved(ledger, n, a) + Gained(j + 1, a)
    OBVIOUS
  <2>1. Moved(ledger', n + j, a) = Moved(ledger, n, a) + Gained(j, a)
    BY <1>13
  <2>2. Moved(ledger', n + (j + 1), a) = Moved(ledger', n + j, a)
          + (IF order[j + 1] = a THEN p ELSE 0)
    <3>1. n + (j + 1) = n + j + 1
      BY <1>3
    <3>2. QED BY <1>10, <3>1
  <2>3. 1..(j + 1) = (1..j) \cup {j + 1} /\ j + 1 \in 1..k /\ 1..j \subseteq 1..k
    OBVIOUS
  <2>4. Gained(j + 1, a) = Gained(j, a) + (IF order[j + 1] = a THEN p ELSE 0)
    <3>1. CASE order[j + 1] = a
      <4>1. ~ \E i \in 1..j : order[i] = a
        BY <1>2, <2>3, <3>1
      <4>2. QED BY <1>4, <2>3, <3>1, <4>1
    <3>2. CASE order[j + 1] # a
      <4>1. (\E i \in 1..(j + 1) : order[i] = a) <=> (\E i \in 1..j : order[i] = a)
        BY <2>3, <3>2
      <4>2. QED BY <1>4, <3>2, <4>1
    <3>3. QED BY <3>1, <3>2
  <2> HIDE DEF Gained, N
  <2>5. Gained(j, a) \in Int /\ (IF order[j + 1] = a THEN p ELSE 0) \in Int
    BY <1>4 DEF Gained
  <2>6. QED BY <1>11, <2>1, <2>2, <2>4, <2>5
<1>14. ASSUME NEW j \in 0..k, NEW a \in Accounts
       PROVE  Moved(ledger', n + j, a) = Moved(ledger, n, a) + Gained(j, a)
  <2>1. \A i \in Nat : i \in N
    <3> HIDE DEF N
    <3>1. \A i \in Nat : i \in N => i + 1 \in N
      BY <1>13
    <3>2. QED BY <1>12, <3>1, AllNumbers
  <2>2. j \in Nat /\ j <= k
    OBVIOUS
  <2>3. QED BY <2>1, <2>2
<1>15. ASSUME NEW a \in Accounts
       PROVE  balance'[a] - Moved(ledger', n + k, a)
                = balance[a] - Moved(ledger, n, a)
  <2>1. Moved(ledger', n + k, a) = Moved(ledger, n, a) + Gained(k, a)
    BY <1>14
  <2>2. balance'[a] = balance[a] + Gained(k, a) /\ Gained(k, a) \in Int
    BY <1>2, <1>3, <1>4, <1>5
  <2> HIDE DEF Gained
  <2>3. QED BY <1>3, <1>11, <2>1, <2>2
<1>16. \A a \in Accounts : status'[a] # "none" => status[a] # "none"
  BY <1>3, <1>5
<1>17. BooksAddUp'
  <2> SUFFICES ASSUME NEW a \in Accounts, status'[a] # "none"
               PROVE  balance'[a] - Moved(ledger', n + k, a) \in OpeningBalances
    BY <1>7 DEF BooksAddUp
  <2>1. balance[a] - Moved(ledger, n, a) \in OpeningBalances
    BY <1>1, <1>16 DEF BooksAddUp
  <2>2. QED BY <1>15, <2>1
<1>21. DOMAIN ledger' = 1..(n + k)
  BY <1>3, <1>7
<1>18. PassbookAddsUp'
  <2> SUFFICES ASSUME NEW i \in 1..(n + k)
               PROVE  LET q == ledger'[i] IN
                      q.after - OwnDelta(ledger', q)
                        - Moved(ledger', i - 1, q.account) \in OpeningBalances
    BY <1>21 DEF PassbookAddsUp, Moved
  <2>1. CASE i > n
    <3> DEFINE j == i - n
               a == order[j]
    <3>1. j \in 1..k /\ i = n + j /\ i - 1 = n + (j - 1) /\ j - 1 \in 0..k
      BY <1>3, <2>1
    <3>2. ledger'[i] = row(j) /\ a \in Accounts
      BY <1>2, <1>7, <3>1
    <3>3. Gained(j - 1, a) = 0
      <4>1. 1..(j - 1) \subseteq 1..k /\ j \notin 1..(j - 1)
        BY <3>1
      <4>2. ~ \E h \in 1..(j - 1) : order[h] = a
        BY <1>2, <3>1, <4>1
      <4>3. QED BY <4>2
    <3>4. Moved(ledger', i - 1, a) = Moved(ledger, n, a)
      <4>1. Moved(ledger', n + (j - 1), a) = Moved(ledger, n, a) + Gained(j - 1, a)
        BY <1>14, <3>1, <3>2
      <4>2. QED BY <1>11, <3>1, <3>3, <4>1
    <3>5. balance[a] - Moved(ledger, n, a) \in OpeningBalances
      <4>1. a \in Range(order)
        BY <1>2, <3>1
      <4>2. status[a] # "none"
        BY <1>5, <4>1
      <4>3. QED BY <1>1, <3>2, <4>2 DEF BooksAddUp
    <3>6. OwnDelta(ledger', row(j)) = p
      BY DEF OwnDelta, PlainDelta
    <3>7. row(j).after - p = balance[a] /\ row(j).account = a
      BY <1>3, <1>4, <3>2
    <3> HIDE DEF j, a, row
    <3>8. QED BY <3>2, <3>4, <3>5, <3>6, <3>7
  <2>2. CASE i <= n
    <3>1. i \in 1..n /\ i - 1 \in 0..n /\ i \in DOMAIN ledger
      BY <1>3, <2>2
    <3>2. ledger'[i] = ledger[i]
      BY <1>7, <3>1
    <3>3. OwnDelta(ledger', ledger[i]) = OwnDelta(ledger, ledger[i])
      <4>1. ledger[i].reversalOf # 0 =>
              ledger'[ledger[i].reversalOf] = ledger[ledger[i].reversalOf]
        <5>1. ledger[i].reversalOf # 0 => ledger[i].reversalOf \in 1..n
          BY <1>3, <1>8, <3>1 DEF PointsBack
        <5> HIDE DEF row
        <5>2. QED BY <1>7, <5>1
      <4>2. QED BY <4>1 DEF OwnDelta
    <3>4. Moved(ledger', i - 1, ledger[i].account)
            = Moved(ledger, i - 1, ledger[i].account)
      BY <1>9, <3>1
    <3>5. ledger[i].after - OwnDelta(ledger, ledger[i])
            - Moved(ledger, i - 1, ledger[i].account) \in OpeningBalances
      BY <1>1, <3>1 DEF PassbookAddsUp, Moved
    <3>6. QED BY <3>2, <3>3, <3>4, <3>5
  <2>3. QED BY <1>3, <2>1, <2>2
<1>19. ASSUME NEW a \in Accounts PROVE Unexplained(a)' = Unexplained(a)
  BY <1>7, <1>15 DEF Unexplained
<1>20. QED BY <1>17, <1>18, <1>19

LEMMA PassbookInvInit == Init => PassbookInv
<1>1. Init => BooksAddUp /\ PassbookAddsUp
  BY DEF Init, BookInit, BooksAddUp, PassbookAddsUp
<1>2. QED BY <1>1, SoundInvInit DEF PassbookInv

LEMMA PassbookInvNext == PassbookInv /\ [Next]_vars => PassbookInv'
<1> SUFFICES ASSUME PassbookInv, [Next]_vars PROVE PassbookInv'
  OBVIOUS
<1>1. SoundInv' /\ RowsSound' /\ TypeOK'
  BY SoundInvNext DEF PassbookInv, SoundInv, IInv
<1>2. [BookNext]_bookVars
  BY StepIsSerial DEF PassbookInv, SoundInv
<1>3. ASSUME NEW a \in Accounts, NEW opening \in OpeningBalances,
             Open(a, opening)
      PROVE  BooksAddUp' /\ PassbookAddsUp'
  BY <1>3, OpenAddsUp DEF PassbookInv, PassbookAddsUp, Open
<1>4. ASSUME NEW c \in Calls(Len(ledger)), Post(c)
      PROVE  BooksAddUp' /\ PassbookAddsUp'
  BY <1>1, <1>4, PostAddsUp
<1>5. ASSUME NEW a \in Accounts, Sleep(a)
      PROVE  BooksAddUp' /\ PassbookAddsUp'
  BY <1>5 DEF PassbookInv, SoundInv, IInv, TypeOK, Sleep, BooksAddUp, PassbookAddsUp
<1>6. ASSUME UNCHANGED bookVars PROVE BooksAddUp' /\ PassbookAddsUp'
  BY <1>6 DEF PassbookInv, bookVars, BooksAddUp, PassbookAddsUp
<1>7. ASSUME NEW n \in 0..Cardinality(Accounts), NEW p \in Amounts,
             NEW order \in Injection(1..n, Accounts), LinkLoan(order, p)
      PROVE  BooksAddUp' /\ PassbookAddsUp'
  BY <1>1, <1>7, LinkAddsUp
<1>8. BooksAddUp' /\ PassbookAddsUp'
  BY <1>2, <1>3, <1>4, <1>5, <1>6, <1>7 DEF BookNext
<1>9. QED BY <1>1, <1>8 DEF PassbookInv

\* Every line of a passbook adds up from the opening balance, for any number
\* of rows and of sessions that post, transfer and reverse at the same time.
THEOREM PassbookCorrect == Spec => []PassbookAddsUp
<1>1. Spec => []PassbookInv
  BY PassbookInvInit, PassbookInvNext, PTL DEF Spec
<1>2. PassbookInv => PassbookAddsUp
  BY DEF PassbookInv
<1>3. QED BY <1>1, <1>2, PTL

\* The balance of an opened account moves by exactly what the rows of the step
\* move: no posting, transfer, rollback or crash leaves a balance change without
\* its row in the passbook, or a row without its change.
THEOREM BalanceMovesByRows ==
  Spec => [][\A a \in Accounts :
                status[a] # "none" => Unexplained(a)' = Unexplained(a)]_vars
<1>1. Spec => []PassbookInv
  BY PassbookInvInit, PassbookInvNext, PTL DEF Spec
<1>2. PassbookInv /\ PassbookInv' /\ [Next]_vars =>
        [\A a \in Accounts :
           status[a] # "none" => Unexplained(a)' = Unexplained(a)]_vars
  <2> SUFFICES ASSUME PassbookInv, PassbookInv', [Next]_vars,
                      NEW a \in Accounts, status[a] # "none"
               PROVE  Unexplained(a)' = Unexplained(a)
    OBVIOUS
  <2>1. RowsSound' /\ TypeOK'
    BY DEF PassbookInv, SoundInv, IInv
  <2>2. [BookNext]_bookVars
    BY StepIsSerial DEF PassbookInv, SoundInv
  <2>3. ASSUME NEW b \in Accounts, NEW opening \in OpeningBalances,
               Open(b, opening)
        PROVE  UNCHANGED ledger /\ balance'[a] = balance[a]
    BY <2>3 DEF Open, PassbookInv, SoundInv, IInv, TypeOK
  <2>4. ASSUME NEW c \in Calls(Len(ledger)), Post(c)
        PROVE  Unexplained(a)' = Unexplained(a)
    BY <2>1, <2>4, PostAddsUp
  <2>5. ASSUME UNCHANGED ledger, balance'[a] = balance[a]
        PROVE  Unexplained(a)' = Unexplained(a)
    BY <2>5 DEF Unexplained
  <2>6. ASSUME NEW n \in 0..Cardinality(Accounts), NEW p \in Amounts,
               NEW order \in Injection(1..n, Accounts), LinkLoan(order, p)
        PROVE  Unexplained(a)' = Unexplained(a)
    BY <2>1, <2>6, LinkAddsUp
  <2>7. QED
    BY <2>2, <2>3, <2>4, <2>5, <2>6 DEF BookNext, Sleep, bookVars
<1>3. QED BY <1>1, <1>2, PTL DEF Spec

\* recompute_balance adds up the effects of the rows on an account all of
\* whose rows it reads as they were posted.
LEMMA ReportIsMoved ==
  ASSUME SoundInv, NEW a \in Accounts,
         \A i \in DOMAIN ledger : ReadsRight(i, a)
  PROVE  RecomputeBalance(ledger, a) = Moved(ledger, Len(ledger), a)
<1> DEFINE reversed(i) == \E j \in DOMAIN ledger : ledger[j].reversalOf = i
           signed(i) ==
             LET r == ledger[i] IN
             IF reversed(i) \/ a \notin {r.account, r.to} THEN 0
             ELSE IF \/ r.type \in {"deposit", "interest"}
                     \/ r.type = "transfer" /\ r.account # a
                  THEN r.amount ELSE -r.amount
<1>1. ASSUME NEW i \in DOMAIN ledger
      PROVE  signed(i) = Effect(ledger, ledger[i], a)
  <2> DEFINE r == ledger[i]
  <2>1. /\ r.account \in Accounts /\ r.amount \in Int /\ r.type \in TxTypes
    <3>1. r \in Rows
      BY DEF SoundInv, IInv, TypeOK
    <3>2. QED BY <3>1, AmountsPositive DEF Rows
  <2>2. CASE a \notin {r.account, r.to}
    <3>1. signed(i) = 0
      BY <2>2
    <3> HIDE DEF r, signed
    <3>2. QED BY <2>2, <3>1 DEF Effect, r
  <2>3. CASE a \in {r.account, r.to}
    <3>1. /\ ~reversed(i) /\ r.reversalOf = 0
          /\ IF r.type = "transfer" THEN r.to # r.account ELSE r.account = a
      BY <2>3 DEF ReadsRight
    <3>2. Effect(ledger, r, a) =
              (IF r.account = a THEN PlainDelta(r.type, r.amount) ELSE 0)
            + (IF r.type = "transfer" /\ r.to = a THEN r.amount ELSE 0)
      BY <3>1 DEF Effect, OwnDelta
    <3>3. CASE r.type = "transfer"
      <4>1. signed(i) = IF r.account = a THEN -r.amount ELSE r.amount
        BY <2>3, <3>1, <3>3
      <4>2. PlainDelta(r.type, r.amount) = -r.amount
        BY <3>3 DEF PlainDelta
      <4> HIDE DEF r, signed, reversed
      <4>3. QED BY <2>1, <2>3, <3>1, <3>2, <3>3, <4>1, <4>2 DEF r
    <3>4. CASE r.type # "transfer"
      <4>1. signed(i) = IF r.type \in {"deposit", "interest"} THEN r.amount ELSE -r.amount
        BY <2>3, <3>1, <3>4
      <4>2. PlainDelta(r.type, r.amount) = IF r.type \in {"deposit", "interest"}
                                            THEN r.amount ELSE -r.amount
        BY <2>1, <3>4 DEF PlainDelta, TxTypes
      <4> HIDE DEF r, signed, reversed
      <4>3. QED BY <2>1, <3>1, <3>2, <3>4, <4>1, <4>2 DEF r
    <3>5. QED BY <3>3, <3>4
  <2>4. QED BY <2>2, <2>3
<1>2. DOMAIN ledger = 1..Len(ledger)
  BY DEF SoundInv, IInv, TypeOK
<1>3. RecomputeBalance(ledger, a) = SumFunction([i \in DOMAIN ledger |-> signed(i)])
  BY DEF RecomputeBalance
<1> HIDE DEF signed
<1>4. QED BY <1>1, <1>2, <1>3 DEF Moved

\* The integrity report finds the stored balance of every account whose rows it
\* reads as they were posted.
THEOREM ReportCorrect == Spec => []ReportAgrees
<1>1. Spec => []PassbookInv
  BY PassbookInvInit, PassbookInvNext, PTL DEF Spec
<1>2. PassbookInv => ReportAgrees
  BY ReportIsMoved DEF PassbookInv, BooksAddUp, ReportAgrees
<1>3. QED BY <1>1, <1>2, PTL

-----------------------------------------------------------------------------
(* Waiting for row locks *)

\* The guards of Commit and of Fail.
MayCommit(s) ==
  /\ InTx(s)
  /\ \A w \in Workers : ~Waits(s, w)
  /\ KeyFree(ledger, tx[s].call)
  /\ Len(ledger) < MaxRows

MayFail(s) == InTx(s) /\ (Deadlocked(s) \/ Refused(s))

\* The guards of LinkPost, LinkCommit and LinkFail.
MayPostNext(m) ==
  LET c == LinkDeposit(NextLinked(m), link[m].principal) IN
  /\ Unposted(m)
  /\ Unlocked(c.account)
  /\ Accepted(c, balance[c.account] + OwnDelta(ledger, c))

MayCommitLink(m) ==
  Linking(m) /\ ~Unposted(m) /\ Len(ledger) + Len(link[m].rows) <= MaxRows

MayFailLink(m) == Linking(m) /\ (Deadlocked(m) \/ LinkRefused(m))

\* The transaction of worker w is open, and its next step can be taken.
IsOpen(w) == IF w \in Sessions THEN InTx(w) ELSE Linking(w)

GoesOn(w) ==
  IF w \in Sessions THEN MayCommit(w) \/ MayFail(w)
                    ELSE MayPostNext(w) \/ MayCommitLink(w) \/ MayFailLink(w)

\* Open transactions that wait only for one another.
WaitsWithin(W) ==
  /\ W # {} /\ W \subseteq Workers
  /\ \A w \in W : IsOpen(w) /\ \A u \in Workers : Waits(w, u) => u \in W

SomebodyGoesOn ==
  \A W \in SUBSET Workers : WaitsWithin(W) => \E w \in W : GoesOn(w)

LEMMA SmallestSet ==
  ASSUME NEW F, F # {}, \A S \in F : IsFiniteSet(S)
  PROVE  \E S \in F : \A T \in F : T \subseteq S => T = S
<1> DEFINE sizes == {Cardinality(S) : S \in F}
<1>1. sizes \subseteq Nat /\ sizes # {}
  BY FS_CardinalityType
<1>2. PICK x \in sizes : \A y \in sizes : ~(<<y, x>> \in OpToRel(<, Nat))
  BY <1>1, NatLessThanWellFounded, WFMin
<1>3. PICK S \in F : Cardinality(S) = x
  BY <1>2
<1>4. ASSUME NEW T \in F, T \subseteq S PROVE T = S
  <2>1. Cardinality(T) \in Nat /\ x \in Nat /\ Cardinality(T) \in sizes
    BY <1>1
  <2>2. ~(Cardinality(T) < x)
    BY <1>2, <2>1 DEF OpToRel
  <2>3. T \in SUBSET S /\ IsFiniteSet(S)
    BY <1>4
  <2>4. Cardinality(T) <= x /\ (x = Cardinality(T) => S = T)
    BY <1>3, <2>3, FS_Subset
  <2>5. QED BY <2>1, <2>2, <2>4
<1>5. QED BY <1>4

\* Open transactions that all wait for one of them hold a deadlock: in a
\* smallest such set each of them is also waited for.
LEMMA WaitersDeadlock ==
  ASSUME NEW W \in SUBSET Workers, W # {},
         \A s \in W : \E u \in W : Waits(s, u)
  PROVE  \E s \in W : Deadlocked(s)
<1> DEFINE F == {S \in SUBSET W : S # {} /\ \A s \in S : \E u \in S : Waits(s, u)}
<1>1. F # {} /\ \A S \in F : IsFiniteSet(S)
  <2>1. W \in F
    OBVIOUS
  <2>2. IsFiniteSet(Workers)
    BY LedgerConstants, FS_Union DEF LedgerConstants, Workers
  <2>3. ASSUME NEW S \in F PROVE IsFiniteSet(S)
    BY <2>2, FS_Subset
  <2>4. QED BY <2>1, <2>3
<1>2. \E S \in F : \A T \in F : T \subseteq S => T = S
  <2> HIDE DEF F
  <2>1. QED BY <1>1, SmallestSet
<1>3. PICK S \in F : \A T \in F : T \subseteq S => T = S
  BY <1>2
<1> DEFINE T == {u \in S : \E s \in S : Waits(s, u)}
<1>4. T \in F /\ T \subseteq S
  <2>1. T # {}
    <3>1. PICK s \in S : TRUE
      OBVIOUS
    <3>2. PICK u \in S : Waits(s, u)
      BY <3>1
    <3>3. QED BY <3>2
  <2>2. ASSUME NEW s \in T PROVE \E u \in T : Waits(s, u)
    <3>1. PICK u \in S : Waits(s, u)
      OBVIOUS
    <3>2. QED BY <3>1
  <2>3. T \in SUBSET W /\ T \subseteq S
    OBVIOUS
  <2>4. QED BY <2>1, <2>2, <2>3
<1>5. T = S
  BY <1>3, <1>4
<1>6. PICK s \in S : TRUE
  OBVIOUS
<1>7. Deadlocked(s)
  BY <1>5 DEF Deadlocked
<1>8. QED BY <1>6, <1>7

\* A request that does not wait can commit or is refused.
LEMMA SessionGoesOn ==
  ASSUME IInv, NEW s \in Sessions, InTx(s), \A w \in Workers : ~Waits(s, w)
  PROVE  MayCommit(s) \/ MayFail(s)
<1>1. Len(ledger) \in Nat /\ Len(ledger) <= MaxRows /\ MaxRows \in Nat
  BY LedgerConstants DEF LedgerConstants, IInv, TypeOK
<1>2. CASE Refused(s)
  BY <1>2 DEF MayFail
<1>3. CASE ~Refused(s)
  BY <1>1, <1>3 DEF Refused, MayCommit
<1>4. QED BY <1>2, <1>3

\* The trigger goes on unless somebody else holds its next account.
LEMMA TriggerGoesOn ==
  ASSUME IInv, NEW m \in Members, Linking(m), \A w \in Workers : ~Waits(m, w)
  PROVE  MayPostNext(m) \/ MayCommitLink(m) \/ MayFailLink(m)
<1> DEFINE a == NextLinked(m)
           c == LinkDeposit(a, link[m].principal)
           after == balance[c.account] + OwnDelta(ledger, c)
<1>1. CASE ~Unposted(m)
  <2>1. /\ Len(link[m].rows) \in Nat /\ Len(link[m].order) \in Nat
        /\ Len(link[m].rows) <= Len(link[m].order)
        /\ ~(Len(link[m].rows) < Len(link[m].order))
    BY <1>1, LinkedType DEF Activation, Unposted, IInv, LinksStand
  <2>2. Len(link[m].rows) = Len(link[m].order)
    BY <2>1
  <2>3. Len(ledger) + Len(link[m].rows) \in Int /\ MaxRows \in Int
    BY <2>1, LedgerConstants DEF LedgerConstants, IInv, TypeOK
  <2>4. QED
    BY <1>1, <2>2, <2>3 DEF MayCommitLink, MayFailLink, LinkRefused
<1>2. CASE Unposted(m)
  <2>1. a \in Accounts /\ a \notin Linked(m) /\ c.account = a
    BY <1>2, NextLinkedType
  <2>2. m \in Workers /\ m \notin Sessions /\ AsksFor(m) = {a}
    BY <1>2, LedgerConstants DEF LedgerConstants, Workers, AsksFor
  <2>3. Unlocked(a)
    <3>1. ASSUME NEW s \in Sessions, InTx(s) PROVE Source(s) # a
      <4>1. s \in Workers /\ s # m /\ Holds(s) = {Source(s)}
        BY <2>2, <3>1 DEF Workers, Holds
      <4>2. QED BY <2>2, <4>1 DEF Waits
    <3>2. ASSUME NEW k \in Members, Linking(k) PROVE a \notin Linked(k)
      <4>1. CASE k = m
        BY <2>1, <4>1
      <4>2. CASE k # m
        <5>1. k \in Workers /\ k \notin Sessions /\ Holds(k) = Linked(k)
          BY <3>2, LedgerConstants DEF LedgerConstants, Workers, Holds
        <5>2. QED BY <2>2, <4>2, <5>1 DEF Waits
      <4>3. QED BY <4>1, <4>2
    <3>3. QED BY <3>1, <3>2 DEF Unlocked
  <2>4. CASE Accepted(c, after)
    BY <1>2, <2>1, <2>3, <2>4 DEF MayPostNext
  <2>5. CASE ~Accepted(c, after)
    BY <1>2, <2>5 DEF MayFailLink, LinkRefused
  <2>6. QED BY <2>4, <2>5
<1>3. QED BY <1>1, <1>2

\* Row locks never stop the ledger: of open transactions that wait only for one
\* another, whatever transfers they make and loans they activate, one takes its
\* next step, is refused or is in a cycle the database ends, without anybody's
\* connection being lost.
THEOREM NobodyIsStuck == Spec => []SomebodyGoesOn
<1>1. Spec => []IInv
  BY InitInv, NextInv, PTL DEF Spec
<1>2. IInv => SomebodyGoesOn
  <2> SUFFICES ASSUME IInv, NEW W \in SUBSET Workers, WaitsWithin(W),
                      \A w \in W : ~GoesOn(w)
               PROVE  FALSE
    BY DEF SomebodyGoesOn
  <2>1. ASSUME NEW w \in W PROVE \E u \in W : Waits(w, u)
    <3> SUFFICES ASSUME \A u \in Workers : ~Waits(w, u) PROVE FALSE
      BY DEF WaitsWithin
    <3>1. IsOpen(w) /\ ~GoesOn(w)
      BY DEF WaitsWithin
    <3>2. CASE w \in Sessions
      BY <3>1, <3>2, SessionGoesOn DEF IsOpen, GoesOn
    <3>3. CASE w \notin Sessions
      <4>1. w \in Members
        BY <3>3 DEF Workers
      <4>2. QED BY <3>1, <3>3, <4>1, TriggerGoesOn DEF IsOpen, GoesOn
    <3>4. QED BY <3>2, <3>3
  <2>2. PICK w \in W : Deadlocked(w)
    BY <2>1, WaitersDeadlock DEF WaitsWithin
  <2>3. IsOpen(w)
    BY DEF WaitsWithin
  <2>4. GoesOn(w)
    BY <2>2, <2>3 DEF GoesOn, IsOpen, MayFail, MayFailLink
  <2>5. QED BY <2>4
<1>3. QED BY <1>1, <1>2, PTL
=============================================================================

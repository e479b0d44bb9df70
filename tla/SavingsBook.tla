----------------------------- MODULE SavingsBook -----------------------------
(***************************************************************************)
(* What the savings ledger promises: a serial book. Every accepted posting *)
(* is one step, made against the balances of the moment, and moves them by *)
(* exactly the effect of the row it appends.  SavingsLedger, where a       *)
(* posting is a database transaction of several statements that interleave *)
(* with other transactions, implements this module.                        *)
(***************************************************************************)
EXTENDS SavingsRows

CONSTANTS
  MinBalance,       \* savings_products.min_balance, per account
  OpeningBalances   \* opening balances the staff enters

VARIABLES
  balance,  \* savings_accounts.balance
  status,   \* savings_accounts.status; "none" before the account is opened
  ledger    \* savings_transactions, in commit order

bookVars == <<balance, status, ledger>>

BookInit ==
  /\ balance = [a \in Accounts |-> 0]
  /\ status = [a \in Accounts |-> "none"]
  /\ ledger = <<>>

Open(a, opening) ==
  /\ status[a] = "none"
  /\ balance' = [balance EXCEPT ![a] = opening]
  /\ status' = [status EXCEPT ![a] = "active"]
  /\ UNCHANGED ledger

Post(c) ==
  LET after == balance[c.account] + OwnDelta(ledger, c)
      row   == RowOf(c, after)
  IN  /\ status[c.account] \in {"active", "dormant"}
      /\ MayReverse(ledger, c)
      /\ KeyFree(ledger, c)
      /\ after >= MinBalance[c.account]
      /\ ledger' = Append(ledger, row)
      /\ balance' = [a \in Accounts |-> balance[a] + Effect(ledger, row, a)]
      /\ status' = [status EXCEPT ![c.account] = StatusAfter(c.type, @)]

\* The principal of a loan is deposited in each of the accounts named in
\* order, all in one step.
LinkLoan(order, principal) ==
  LET after(a) == balance[a] + principal
      rows == [i \in DOMAIN order |->
                 [account |-> order[i], to |-> NoAccount, type |-> "deposit",
                  amount |-> principal, reversalOf |-> 0, key |-> NoKey,
                  after |-> after(order[i])]]
  IN  /\ \A a \in Range(order) : /\ status[a] \in {"active", "dormant"}
                                 /\ after(a) >= MinBalance[a]
      /\ ledger' = ledger \o rows
      /\ balance' = [a \in Accounts |-> IF a \in Range(order) THEN after(a)
                                                            ELSE balance[a]]
      /\ status' = [a \in Accounts |-> IF a \in Range(order)
                                       THEN StatusAfter("deposit", status[a])
                                       ELSE status[a]]

Sleep(a) ==
  /\ status[a] = "active"
  /\ status' = [status EXCEPT ![a] = "dormant"]
  /\ UNCHANGED <<balance, ledger>>

BookNext ==
  \/ \E a \in Accounts, opening \in OpeningBalances : Open(a, opening)
  \/ \E c \in Calls(Len(ledger)) : Post(c)
  \/ \E n \in 0..Cardinality(Accounts), p \in Amounts :
       \E order \in Injection(1..n, Accounts) : LinkLoan(order, p)
  \/ \E a \in Accounts : Sleep(a)

BookSpec == BookInit /\ [][BookNext]_bookVars
=============================================================================

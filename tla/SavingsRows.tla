----------------------------- MODULE SavingsRows -----------------------------
(***************************************************************************)
(* The rows of the savings ledger and the arithmetic the code does on      *)
(* them.                                                                   *)
(*                                                                         *)
(* A row of table savings_transactions (0010) is a record                  *)
(*   account, to   the account posted to, and a transfer's destination     *)
(*   type, amount  transaction_type and amount                             *)
(*   reversalOf    position in the ledger of the row being reversed, or 0  *)
(*   key           interest_period of an interest row, or the reference    *)
(*                 'Compulsory weekly ...' of an automatic deposit         *)
(*   after         balance_after                                           *)
(* Reference texts, notes, approvers and timestamps are left out: the      *)
(* order of the rows is the order in which their transactions commit.      *)
(***************************************************************************)
EXTENDS Integers, Sequences, FiniteSets, Functions

CONSTANTS
  Accounts,     \* savings accounts of one organization
  NoAccount,    \* null to_account_id
  Amounts,      \* amounts, in whole units of money
  Keys,         \* interest periods and weekly references
  NoKey         \* null interest_period and ordinary reference

ASSUME RowConstants ==
  /\ NoAccount \notin Accounts
  /\ NoKey \notin Keys
  /\ Amounts \subseteq Nat \ {0}

\* The check constraint on transaction_type.
TxTypes == {"deposit", "withdrawal", "interest", "transfer", "adjustment",
            "closure"}

\* "none" stands for an account that is not opened yet; no code sets 'frozen'.
Statuses == {"none", "active", "dormant", "closed"}

\* The arguments of post_savings_transaction when the ledger has n rows.
Calls(n) == [account : Accounts, to : Accounts \cup {NoAccount},
             type : TxTypes, amount : Amounts, reversalOf : 0..n,
             key : Keys \cup {NoKey}]

Rows == [account : Accounts, to : Accounts \cup {NoAccount}, type : TxTypes,
         amount : Amounts, reversalOf : Nat, key : Keys \cup {NoKey},
         after : Nat]

\* The row that call c leaves when the balance after it is n.
RowOf(c, n) == [account |-> c.account, to |-> c.to, type |-> c.type,
                amount |-> c.amount, reversalOf |-> c.reversalOf,
                key |-> c.key, after |-> n]

-----------------------------------------------------------------------------
(* What post_savings_transaction does to a balance *)

\* The elsif/else branches of v_delta.
PlainDelta(type, amount) ==
  IF type \in {"withdrawal", "adjustment", "closure", "transfer"}
  THEN -amount ELSE amount

\* The reversal branch: the original's amount, with the sign the code gives
\* it. A reversed transfer is in the ELSE and is debited once more.
ReversalDelta(original) ==
  IF original.type \in {"withdrawal", "adjustment", "closure"}
  THEN original.amount ELSE -original.amount

\* v_delta: the change of the source account's balance by call or row c.
OwnDelta(rows, c) ==
  IF c.reversalOf # 0 THEN ReversalDelta(rows[c.reversalOf])
                      ELSE PlainDelta(c.type, c.amount)

\* Only a row of the same account that is not itself a reversal may be
\* reversed. The function does not look for an earlier reversal of it.
MayReverse(rows, c) ==
  c.reversalOf # 0 =>
    /\ c.reversalOf \in DOMAIN rows
    /\ rows[c.reversalOf].account = c.account
    /\ rows[c.reversalOf].reversalOf = 0

\* The unique indexes on (account_id, interest_period) and on
\* (account_id, reference) of weekly deposits.
KeyFree(rows, c) ==
  c.key # NoKey =>
    \A i \in DOMAIN rows :
      ~ (/\ rows[i].account = c.account
         /\ rows[i].key = c.key
         /\ rows[i].type = c.type)

\* What row r, posted on top of rows, changes in the balance of account a:
\* its own delta and, for a transfer, the credit of the destination.
Effect(rows, r, a) ==
    (IF r.account = a THEN OwnDelta(rows, r) ELSE 0)
  + (IF r.type = "transfer" /\ r.to = a THEN r.amount ELSE 0)

\* The status the post leaves on its account.
StatusAfter(type, status) ==
  IF type = "closure" THEN "closed"
  ELSE IF status = "dormant" THEN "active" ELSE status

-----------------------------------------------------------------------------
(* The balance the code recomputes from the ledger *)

\* Variant that leaves out transfers from other accounts.
RecomputeOwn(rows, a) ==
  LET signed(r) ==
        IF r.account # a THEN 0
        ELSE IF r.type \in {"deposit", "interest"} THEN r.amount ELSE -r.amount
  IN  SumFunction([i \in DOMAIN rows |-> signed(rows[i])])

\* recompute_balance(a) of 0011: reversed originals are left out, their
\* reversals are not.
RecomputeBalance(rows, a) ==
  LET reversed(i) == \E j \in DOMAIN rows : rows[j].reversalOf = i
      signed(i) ==
        LET r == rows[i] IN
        IF reversed(i) \/ a \notin {r.account, r.to} THEN 0
        ELSE IF \/ r.type \in {"deposit", "interest"}
                \/ r.type = "transfer" /\ r.account # a
             THEN r.amount ELSE -r.amount
  IN  SumFunction([i \in DOMAIN rows |-> signed(i)])
=============================================================================

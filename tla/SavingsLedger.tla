---------------------------- MODULE SavingsLedger ----------------------------
(***************************************************************************)
(* The savings ledger as the database keeps it: post_savings_transaction   *)
(* of 0010_savings_transactions.sql, called by POST /savings/transactions, *)
(* by the interest run, by the scheduled job and by the trigger on loans,  *)
(* with the accounts it updates.                                           *)
(*                                                                         *)
(* The function runs as one READ COMMITTED transaction per call.  It takes *)
(* the row lock of its account (SELECT ... FOR UPDATE), makes its checks,  *)
(* and then inserts the row and updates one or two accounts.  What the     *)
(* checks read of other rows is not locked, so the transactions of other   *)
(* sessions run between the checks and the writes.  A session in a         *)
(* transaction therefore has two steps: Begin (lock, read, check) and      *)
(* Commit (write, unlock).  A call that a check refuses is rolled back and *)
(* changes nothing: it is no step.                                         *)
(*                                                                         *)
(* The trigger on loans posts to every linked account of the member, one   *)
(* after the other in the transaction that activates the loan: StartLink   *)
(* finds the accounts, LinkPost locks one and computes its row, and the    *)
(* rows become visible together with LinkCommit.                           *)
(*                                                                         *)
(* Two other places of the code write balances without this function, the  *)
(* reversal of a collection entry and the savings adjustment of a loan in  *)
(* arrears.  They are not part of this module: see README.md.              *)
(***************************************************************************)
EXTENDS SavingsBook

CONSTANTS
  Sessions,     \* database sessions serving concurrent requests
  Members,
  Holder,       \* member holding each account
  LoanLocked,   \* accounts whose product has lock_while_loan_active
  AutoLinked,   \* accounts of compulsory products with auto_link_loan
  Sleepers,     \* accounts whose product has dormant_after_months > 0
  Types,        \* transaction types clients post (a subset of TxTypes)
  Strays,       \* types other than transfers they send with a destination
  Reversals,    \* whether clients post reversals
  Principals,   \* amounts of the loans that are activated
  NoTx,         \* an idle session
  MaxRows       \* bound on the length of the ledger

ASSUME LedgerConstants ==
  /\ IsFiniteSet(Sessions) /\ IsFiniteSet(Members) /\ IsFiniteSet(Accounts)
  /\ Sessions \cap Members = {}
  /\ MinBalance \in [Accounts -> Nat]
  /\ OpeningBalances \subseteq Nat
  /\ Holder \in [Accounts -> Members]
  /\ LoanLocked \subseteq Accounts /\ AutoLinked \subseteq Accounts
  /\ Sleepers \subseteq Accounts
  /\ Principals \subseteq Amounts
  /\ Types \subseteq TxTypes
  /\ MaxRows \in Nat

VARIABLES
  loans,  \* members with a loan in status active, disbursed or ongoing
  tx,     \* the open transaction of each session, or NoTx
  link    \* the open transaction that activates a member's loan, or NoTx

vars == <<balance, status, ledger, loans, tx, link>>

\* An open transaction: its call, and v_balance, computed from the balance
\* read under the row lock.
Transaction == [call : Calls(MaxRows), after : Nat]

\* An activation under way: the linked accounts in the order the trigger finds
\* them, and the rows inserted so far.
Activation == [principal : Principals, order : Seq(Accounts), rows : Seq(Rows)]

TypeOK ==
  /\ balance \in [Accounts -> Nat]
  /\ status \in [Accounts -> Statuses]
  /\ ledger \in Seq(Rows)
  /\ Len(ledger) <= MaxRows
  /\ loans \subseteq Members
  /\ tx \in [Sessions -> Transaction \cup {NoTx}]
  /\ link \in [Members -> Activation \cup {NoTx}]

Init ==
  /\ BookInit
  /\ loans = {}
  /\ tx = [s \in Sessions |-> NoTx]
  /\ link = [m \in Members |-> NoTx]

InTx(s) == tx[s] # NoTx
Linking(m) == link[m] # NoTx

\* The account whose row lock session s holds.
Source(s) == tx[s].call.account

\* The accounts the activation of m's loan has posted to, and locked.
Linked(m) == {link[m].order[i] : i \in DOMAIN link[m].rows}

Unlocked(a) ==
  /\ \A s \in Sessions : InTx(s) => Source(s) # a
  /\ \A m \in Members : Linking(m) => a \notin Linked(m)

-----------------------------------------------------------------------------
(* Opening an account: POST /savings/accounts *)

OpenAccount(a, opening) ==
  /\ Open(a, opening)
  /\ UNCHANGED <<loans, tx, link>>

-----------------------------------------------------------------------------
(* Posting *)

\* A call's arguments as the callers send them. POST /transactions passes the
\* client's destination with any type; the interest run and the weekly job,
\* whose rows have a key, pass none, and reversals come from clients only.
WellFormed(c) ==
  /\ c.type \in Types
  /\ c.type = "transfer" => c.to # NoAccount
  /\ c.to # NoAccount => c.type \in Strays \cup {"transfer"}
  /\ c.type = "interest" => c.key # NoKey
  /\ c.reversalOf # 0 => Reversals
  /\ c.key # NoKey => /\ c.type \in {"interest", "deposit"}
                      /\ c.reversalOf = 0
                      /\ c.to = NoAccount

\* The lock on savings while a loan is active. Transfers are not covered.
LoanLockHolds(c) ==
  /\ c.type \in {"withdrawal", "adjustment", "closure"}
  /\ c.account \in LoanLocked
  /\ Holder[c.account] \in loans

\* A transfer's destination is open. Of any other destination only the foreign
\* key asks, and only whether the account exists.
DestinationStands(c) ==
  c.to # NoAccount =>
    status[c.to] \in IF c.type = "transfer" THEN {"active", "dormant"}
                                           ELSE {"active", "dormant", "closed"}

\* Variant without the balance checks.
AcceptedUnchecked(c, after) ==
  /\ status[c.account] \in {"active", "dormant"}
  /\ DestinationStands(c)
  /\ MayReverse(ledger, c)

\* Variant that refuses only overdrafts.
AcceptedToZero(c, after) == AcceptedUnchecked(c, after) /\ after >= 0

\* Everything post_savings_transaction checks before its first write.
Accepted(c, after) ==
  /\ status[c.account] \in {"active", "dormant"}
  /\ DestinationStands(c)
  /\ MayReverse(ledger, c)
  /\ ~LoanLockHolds(c)
  /\ after >= MinBalance[c.account]
  /\ after >= 0

Begin(s, c) ==
  LET after == balance[c.account] + OwnDelta(ledger, c) IN
  /\ ~InTx(s)
  /\ WellFormed(c)
  /\ Unlocked(c.account)
  /\ MayReverse(ledger, c)
  /\ Accepted(c, after)
  /\ tx' = [tx EXCEPT ![s] = [call |-> c, after |-> after]]
  /\ UNCHANGED <<balance, status, ledger, loans, link>>

\* The sessions of requests, and the transactions that activate loans.
Workers == Sessions \cup Members

\* The row locks a worker holds, and those its next statement asks for: the
\* insert of a row with a destination takes that account's (for its foreign
\* key and the credit), the trigger that of its next linked account.
Holds(w) ==
  IF w \in Sessions THEN IF InTx(w) THEN {Source(w)} ELSE {}
                    ELSE IF Linking(w) THEN Linked(w) ELSE {}

Unposted(m) == Linking(m) /\ Len(link[m].rows) < Len(link[m].order)

\* The account the trigger comes to next.
NextLinked(m) == link[m].order[Len(link[m].rows) + 1]

AsksFor(w) ==
  IF w \in Sessions THEN IF InTx(w) THEN {tx[w].call.to} ELSE {}
                    ELSE IF Unposted(w) THEN {NextLinked(w)} ELSE {}

\* Variant in which nobody waits for the lock on a destination.
NeverWaits(w, v) == w \in Members /\ w # v /\ AsksFor(w) \cap Holds(v) # {}

Waits(w, v) == w # v /\ AsksFor(w) \cap Holds(v) # {}

\* Variant that forgets the credit of a transfer's destination.
UpdatedSource(t) == [balance EXCEPT ![t.call.account] = t.after]

\* The balances after the two updates at the end of the function.
Updated(t) ==
  LET own == [balance EXCEPT ![t.call.account] = t.after] IN
  IF t.call.type = "transfer"
  THEN [own EXCEPT ![t.call.to] = @ + t.call.amount] ELSE own

Commit(s) ==
  LET t == tx[s] IN
  /\ InTx(s)
  /\ \A w \in Workers : ~Waits(s, w)
  /\ KeyFree(ledger, t.call)
  /\ Len(ledger) < MaxRows
  /\ ledger' = Append(ledger, RowOf(t.call, t.after))
  /\ balance' = Updated(t)
  /\ status' = [status EXCEPT ![t.call.account] = StatusAfter(t.call.type, @)]
  /\ tx' = [tx EXCEPT ![s] = NoTx]
  /\ UNCHANGED <<loans, link>>

-----------------------------------------------------------------------------
(* Transactions that do not commit *)

Rollback(s) ==
  /\ tx' = [tx EXCEPT ![s] = NoTx]
  /\ UNCHANGED <<balance, status, ledger, loans, link>>

\* A set of transactions each of which waits for another of the set. The
\* database finds the cycle and ends one of them.
Deadlocked(w) ==
  \E S \in SUBSET Workers :
    /\ w \in S
    /\ \A v \in S : \E u \in S : Waits(v, u)
    /\ \A v \in S : \E u \in S : Waits(u, v)

\* A unique index refuses the insert (or the bound of the model does).
Refused(s) ==
  \/ ~KeyFree(ledger, tx[s].call)
  \/ Len(ledger) = MaxRows

\* Variant in which a duplicate key does not end the transaction.
FailDeadlocked(s) == InTx(s) /\ Deadlocked(s) /\ Rollback(s)

Fail(s) ==
  /\ InTx(s)
  /\ Deadlocked(s) \/ Refused(s)
  /\ Rollback(s)

\* The connection is lost, the statement times out or the server restarts.
Crash(s) == InTx(s) /\ Rollback(s)

-----------------------------------------------------------------------------
(* Loans, and accounts falling asleep *)

\* The deposit the trigger on loans makes for each linked account.
LinkDeposit(a, principal) ==
  [account |-> a, to |-> NoAccount, type |-> "deposit", amount |-> principal,
   reversalOf |-> 0, key |-> NoKey]

\* A loan is activated (the table loans is written from outside this code):
\* the trigger finds the member's linked accounts.
StartLink(m, principal) ==
  LET found == {a \in AutoLinked : /\ Holder[a] = m
                                   /\ status[a] \in {"active", "dormant"}}
  IN
  /\ ~Linking(m)
  /\ Len(ledger) < MaxRows
  /\ \E order \in Bijection(1..Cardinality(found), found) :
       link' = [link EXCEPT ![m] = [principal |-> principal, order |-> order,
                                    rows |-> <<>>]]
  /\ UNCHANGED <<balance, status, ledger, loans, tx>>

\* Variant whose trigger updates a linked account without its row lock.
LinkPostUnlocked(m) ==
  LET c == LinkDeposit(NextLinked(m), link[m].principal)
      after == balance[c.account] + OwnDelta(ledger, c)
  IN
  /\ Unposted(m)
  /\ Accepted(c, after)
  /\ link' = [link EXCEPT ![m].rows = Append(@, RowOf(c, after))]
  /\ UNCHANGED <<balance, status, ledger, loans, tx>>

\* One turn of the trigger's loop: post_savings_transaction for the next
\* account, whose row nobody else sees yet.
LinkPost(m) ==
  LET c == LinkDeposit(NextLinked(m), link[m].principal)
      after == balance[c.account] + OwnDelta(ledger, c)
  IN
  /\ Unposted(m)
  /\ Unlocked(c.account)
  /\ Accepted(c, after)
  /\ link' = [link EXCEPT ![m].rows = Append(@, RowOf(c, after))]
  /\ UNCHANGED <<balance, status, ledger, loans, tx>>

\* The loan, all the rows and their balances become visible at once.
LinkCommit(m) ==
  LET l == link[m]
      rowOf(a) == CHOOSE r \in Range(l.rows) : r.account = a
  IN
  /\ Linking(m) /\ ~Unposted(m)
  /\ Len(ledger) + Len(l.rows) <= MaxRows
  /\ ledger' = ledger \o l.rows
  /\ balance' = [a \in Accounts |-> IF a \in Linked(m) THEN rowOf(a).after
                                                     ELSE balance[a]]
  /\ status' = [a \in Accounts |-> IF a \in Linked(m)
                                   THEN StatusAfter("deposit", status[a])
                                   ELSE status[a]]
  /\ loans' = loans \cup {m}
  /\ link' = [link EXCEPT ![m] = NoTx]
  /\ UNCHANGED tx

\* A linked account was closed since the trigger found it, or stays below its
\* minimum (or the bound of the model is reached).
LinkRefused(m) ==
  \/ /\ Unposted(m)
     /\ LET c == LinkDeposit(NextLinked(m), link[m].principal)
        IN  ~Accepted(c, balance[c.account] + OwnDelta(ledger, c))
  \/ Len(ledger) + Len(link[m].order) > MaxRows

\* An exception in the trigger, or a lost connection, undoes the activation
\* and all its rows.
LinkUndone(m) ==
  /\ link' = [link EXCEPT ![m] = NoTx]
  /\ UNCHANGED <<balance, status, ledger, loans, tx>>

LinkFail(m) ==
  /\ Linking(m)
  /\ Deadlocked(m) \/ LinkRefused(m)
  /\ LinkUndone(m)

LinkCrash(m) == Linking(m) /\ LinkUndone(m)

CloseLoan(m) ==
  /\ m \in loans
  /\ loans' = loans \ {m}
  /\ UNCHANGED <<balance, status, ledger, tx, link>>

\* mark_dormant_savings_accounts, for an account idle long enough. The update
\* waits for a row lock and then no longer applies.
MarkDormant(a) ==
  /\ Unlocked(a)
  /\ Sleep(a)
  /\ UNCHANGED <<loans, tx, link>>

-----------------------------------------------------------------------------
Next ==
  \/ \E a \in Accounts, opening \in OpeningBalances : OpenAccount(a, opening)
  \/ \E s \in Sessions, c \in Calls(Len(ledger)) : Begin(s, c)
  \/ \E s \in Sessions : Commit(s) \/ Fail(s) \/ Crash(s)
  \/ \E m \in Members, p \in Principals : StartLink(m, p)
  \/ \E m \in Members :
       \/ LinkPost(m) \/ LinkCommit(m) \/ LinkFail(m) \/ LinkCrash(m)
       \/ CloseLoan(m)
  \/ \E a \in Sleepers : MarkDormant(a)

Spec == Init /\ [][Next]_vars

\* The database executes the statements of an open transaction, and grants a
\* row lock in the order of the requests: a commit that can happen again and
\* again happens.
Fairness ==
  /\ \A s \in Sessions : SF_vars(Commit(s)) /\ WF_vars(Fail(s))
  /\ \A m \in Members : /\ SF_vars(LinkPost(m)) /\ WF_vars(LinkCommit(m))
                        /\ WF_vars(LinkFail(m))

FairSpec == Spec /\ Fairness

-----------------------------------------------------------------------------
(* Properties *)

\* Concurrent postings are serializable: each committed transaction is one
\* step of the serial book, made against the current balances although they
\* were read at Begin.
Serial == BookSpec

\* No transaction works on a balance that somebody else has moved: while it
\* is open, v_balance is still the balance plus its own delta.
FreshRead ==
  \A s \in Sessions : InTx(s) =>
    tx[s].after = balance[Source(s)] + OwnDelta(ledger, tx[s].call)

\* The balance a passbook line shows is the opening balance and the sum of the
\* lines up to it: no posting or incoming transfer is lost between two rows.
PassbookAddsUp ==
  \A i \in DOMAIN ledger :
    LET r == ledger[i]
        before == [j \in 1..(i-1) |-> Effect(ledger, ledger[j], r.account)]
    IN  r.after - OwnDelta(ledger, r) - SumFunction(before) \in OpeningBalances

\* Row i is one the integrity report reads as post_savings_transaction meant it
\* for account a: it neither reverses nor is reversed, is no transfer of a to
\* itself, and names a as destination only of a transfer. POST /transactions
\* takes a destination with any type, and the report counts such a row for an
\* account whose balance it never moved.
ReadsRight(i, a) ==
  LET r == ledger[i] IN
  a \in {r.account, r.to} =>
    /\ r.reversalOf = 0
    /\ \A j \in DOMAIN ledger : ledger[j].reversalOf # i
    /\ IF r.type = "transfer" THEN r.to # r.account ELSE r.account = a

\* The integrity report finds what is stored, account by account: whatever was
\* done to the others, the balance is the opening balance plus what
\* recompute_balance makes of the rows, transfers from other accounts included.
ReportAgrees ==
  \A a \in Accounts :
    status[a] # "none" /\ (\A i \in DOMAIN ledger : ReadsRight(i, a)) =>
      balance[a] - RecomputeBalance(ledger, a) \in OpeningBalances

\* Money never leaves an account below the minimum of its product, whatever
\* else was posted to it since the check.
KeepsMinimum ==
  [][\A a \in Accounts : balance'[a] < balance[a] =>
                            balance'[a] >= MinBalance[a]]_vars

\* Every transaction ends, also when transfers in opposite directions, or a
\* transfer and the trigger on loans, wait for each other's row.
TransactionsEnd ==
  /\ \A s \in Sessions : InTx(s) ~> ~InTx(s)
  /\ \A m \in Members : Linking(m) ~> ~Linking(m)
=============================================================================

---------------------------- MODULE MessagingProofs ----------------------------
(***************************************************************************)
(* What holds of SMS for any messages, days, caps, overlapping requests    *)
(* and losses: the state keeps its type, and while requests come one at a  *)
(* time a day's sends stay within its cap and a message is delivered once, *)
(* each lost request, reading and answer of the provider taken into        *)
(* account.                                                                *)
(*                                                                         *)
(* The counters are written back from what was read, so the cap's argument *)
(* follows the one request under way: what it has read, and what it has    *)
(* sent and not yet counted.                                               *)
(***************************************************************************)
EXTENDS Messaging, SumLemmas, TLAPS

-----------------------------------------------------------------------------
(* What losses may cost *)

OrgCap == DailyCap["org"]

\* Every loss lets a day's sends start again.
Charge(n) == OrgCap * n

LEMMA OrgCapCounts == OrgCap \in Nat \ {0}
BY MessagingConstants DEF OrgCap, Rules

LEMMA ChargeGrows ==
  ASSUME NEW n \in Nat
  PROVE  /\ Charge(n) \in Nat
         /\ Charge(n + 1) = Charge(n) + OrgCap
         /\ OrgCap * (1 + n) = OrgCap + Charge(n)
BY OrgCapCounts DEF Charge

-----------------------------------------------------------------------------
(* The inductive invariant *)

\* A send has its own message; a retry has the one it is at.
Shaped ==
  \A r \in Requests : Busy(r) =>
    /\ req[r].message \in req[r].todo
    /\ req[r].kind = "send" => req[r].todo = {req[r].message}

OneAtATime ==
  alone => \A r, s \in Requests : Busy(r) /\ Busy(s) => r = s

Open(m) == rows[m] = None \/ rows[m].status = "retrying"

\* The messages whose row the request is still going to write.
Remaining(q) == IF q.at \in {"read", "bump"} THEN q.todo \ {q.message} ELSE q.todo

\* The provider has accepted the message, and its row does not say so yet.
Delivering(q) == q.at = "record" /\ q.outcome.status = "sent"

\* A send of day d that is not counted yet.
Uncounted(q, d) ==
  q.kind = "send" /\ q.day = d /\ (Delivering(q) \/ q.at \in {"read", "bump"})

\* What a request served alone relies on: nobody else writes its rows, the caps leave
\* room for it, the counters it has read cover what was sent before.
Fits(q) ==
  /\ \A m \in Remaining(q) : Open(m)
  /\ q.at = "cap" /\ q.rules # "org" => sends[q.day] <= Charge(lost)
  /\ q.at = "dispatch" /\ q.kind = "send" => sends[q.day] + 1 <= OrgCap + Charge(lost)
  /\ q.at = "bump" => sends[q.day] <= q.spent.daily + 1 + Charge(lost)

Served == \A r \in Requests : Busy(r) => Fits(req[r])

\* A message that is still to be sent has cost nothing but losses, unless it has just
\* been accepted.
Once ==
  \A m \in Messages :
    /\ delivered[m] <= 1 + lost
    /\ \/ ~Open(m) \/ delivered[m] <= lost
       \/ \E r \in Requests : Busy(r) /\ Delivering(req[r]) /\ req[r].message = m

\* The counters cover the sends of a day, but for losses and one send under way.
Covered(d) ==
  \/ sends[d] <= spendFor(d).daily + Charge(lost)
  \/ /\ sends[d] <= spendFor(d).daily + 1 + Charge(lost)
     /\ \E r \in Requests : Busy(r) /\ Uncounted(req[r], d)

Capped == \A d \in Days : sends[d] <= OrgCap + Charge(lost) /\ Covered(d)

IInv ==
  /\ TypeOK /\ Shaped /\ OneAtATime
  /\ alone => Served /\ Once /\ Capped

-----------------------------------------------------------------------------
(* Requests *)

LEMMA RequestsAreBusy ==
  ASSUME TypeOK, NEW r \in Requests, NEW q \in Request, Becomes(r, q)
  PROVE  /\ req' \in [Requests -> Request \cup {NoRequest}]
         /\ req'[r] = q /\ Busy(r)'
         /\ \A s \in Requests : s # r => req'[s] = req[s]
BY MessagingConstants DEF TypeOK, Becomes, Busy

LEMMA EndsIdle ==
  ASSUME TypeOK, NEW r \in Requests, Ends(r)
  PROVE  /\ req' \in [Requests -> Request \cup {NoRequest}]
         /\ ~Busy(r)'
         /\ \A s \in Requests : s # r => req'[s] = req[s]
BY DEF TypeOK, Ends, Becomes, Busy

LEMMA BusyHasRequest ==
  ASSUME TypeOK, NEW r \in Requests, Busy(r)
  PROVE  req[r] \in Request
BY DEF TypeOK, Busy

\* Nothing, and what counters say, is a spend.
LEMMA SpendsAreCounts ==
  ASSUME TypeOK
  PROVE  /\ Nothing \in Spend
         /\ \A d \in Days : spendFor(d) \in Spend
         /\ \A d \in Days, ok \in BOOLEAN : Read(d, ok) \in Spend
<1>1. Nothing \in Spend
  BY DEF Nothing, Spend
<1>2. \A d \in Days : spendFor(d) \in Spend
  BY <1>1 DEF TypeOK, spendFor
<1> QED
  BY <1>1, <1>2 DEF Read

\* The answer of a query that reads the counters.
LEMMA AnswersCount ==
  ASSUME TypeOK, NEW ok \in BOOLEAN, Answered(ok)
  PROVE  /\ lost' \in 0..MaxLosses /\ lost \in Nat
         /\ IF ok THEN lost' = lost ELSE lost' = lost + 1
         /\ lost' >= lost
BY MessagingConstants DEF TypeOK, Answered

\* What a lost answer may cost.
LEMMA AnswersCharge ==
  ASSUME TypeOK, NEW ok \in BOOLEAN, Answered(ok)
  PROVE  /\ Charge(lost) \in Nat /\ Charge(lost') \in Nat /\ OrgCap \in Nat \ {0}
         /\ IF ok THEN Charge(lost') = Charge(lost) ELSE Charge(lost') = Charge(lost) + OrgCap
         /\ Charge(lost') >= Charge(lost)
<1>1. lost \in Nat /\ lost' \in Nat /\ IF ok THEN lost' = lost ELSE lost' = lost + 1
  BY AnswersCount, MessagingConstants
<1>2. Charge(lost) \in Nat /\ Charge(lost + 1) = Charge(lost) + OrgCap /\ OrgCap \in Nat \ {0}
  BY <1>1, ChargeGrows, OrgCapCounts
<1> QED
  BY <1>1, <1>2

LEMMA RulesAreKnown == \A ok \in BOOLEAN : loadRules(ok) \in Rules /\ (loadRules(ok) = "org" <=> ok)
BY DEF loadRules, Rules

LEMMA OutcomesAreRows ==
  ASSUME NEW n \in Nat, NEW accepted \in BOOLEAN, NEW rules
  PROVE  /\ Outcome(accepted, n, rules) \in Row
         /\ Outcome(accepted, n, rules).status = "sent" <=> accepted
BY DEF Outcome, Row

LEMMA FreshIsTyped == Fresh.day \in Days /\ Fresh.spent \in Spend /\ Fresh.outcome \in Row
BY MessagingConstants DEF Fresh, Days, Nothing, Spend, Row

\* Where a request goes after a message: it ends, or is at the dispatch of another.
LEMMA GoesOnKeeps ==
  ASSUME TypeOK, Shaped, NEW r \in Requests, Busy(r), GoesOn(r, req[r])
  PROVE  \/ Ends(r)
         \/ \E q \in Request :
              /\ Becomes(r, q)
              /\ q.at = "dispatch" /\ q.kind = "retry"
              /\ q.todo = req[r].todo \ {req[r].message} /\ q.message \in q.todo
<1> DEFINE q == req[r]
<1>1. q \in Request /\ q.message \in q.todo
      /\ (q.kind = "send" => q.todo = {q.message})
  BY BusyHasRequest DEF Shaped
<1>2. CASE q.todo = {q.message}
  BY <1>2 DEF GoesOn
<1>3. CASE q.todo # {q.message}
  <2>1. PICK m \in q.todo \ {q.message} :
          Becomes(r, [q EXCEPT !.at = "dispatch", !.todo = @ \ {q.message}, !.message = m,
                               !.attempts[q.message] = 0, !.day = Fresh.day,
                               !.spent = Fresh.spent, !.outcome = Fresh.outcome])
    BY <1>3 DEF GoesOn
  <2> DEFINE p == [q EXCEPT !.at = "dispatch", !.todo = @ \ {q.message}, !.message = m,
                            !.attempts[q.message] = 0, !.day = Fresh.day,
                            !.spent = Fresh.spent, !.outcome = Fresh.outcome]
  <2>2. p \in Request
    <3>1. [q.attempts EXCEPT ![q.message] = 0] \in [Messages -> Nat]
      BY <1>1 DEF Request
    <3> QED
      BY <1>1, <3>1, FreshIsTyped DEF Request
  <2>3. p.at = "dispatch" /\ p.kind = q.kind /\ p.todo = q.todo \ {q.message} /\ p.message = m
    BY <1>1 DEF Request
  <2>4. q.kind = "retry"
    BY <1>1, <1>3 DEF Request
  <2> QED
    BY <2>1, <2>2, <2>3, <2>4
<1> QED
  BY <1>2, <1>3

LEMMA Initially == Init => IInv
<1> SUFFICES ASSUME Init PROVE IInv
  OBVIOUS
<1> USE DEF Init
<1>1. \A r \in Requests : ~Busy(r)
  BY DEF Busy
<1>2. TypeOK
  BY MessagingConstants DEF TypeOK, Days
<1>3. Charge(lost) \in Nat /\ OrgCap \in Nat
  BY ChargeGrows, OrgCapCounts
<1>4. Shaped /\ OneAtATime /\ Served
  BY <1>1 DEF Shaped, OneAtATime, Served
<1>5. Once
  BY DEF Once
<1>6. Capped
  BY <1>3 DEF Capped, Covered, spendFor, Nothing
<1> QED
  BY <1>2, <1>4, <1>5, <1>6 DEF IInv

\* What the request that is served alone may rely on.
LEMMA AloneSoFar ==
  ASSUME IInv, alone, NEW r \in Requests, Busy(r)
  PROVE  /\ Fits(req[r])
         /\ \A s \in Requests : s # r => ~Busy(s)
         /\ \A m \in Messages :
              /\ delivered[m] <= 1 + lost
              /\ Open(m) /\ ~(Delivering(req[r]) /\ req[r].message = m) => delivered[m] <= lost
         /\ \A d \in Days :
              /\ sends[d] <= OrgCap + Charge(lost)
              /\ sends[d] <= spendFor(d).daily + 1 + Charge(lost)
              /\ ~Uncounted(req[r], d) => sends[d] <= spendFor(d).daily + Charge(lost)
<1>1. \A s \in Requests : Busy(s) => s = r
  BY DEF IInv, OneAtATime
<1>2. Fits(req[r])
  BY DEF IInv, Served
<1>3. ASSUME NEW m \in Messages
      PROVE  /\ delivered[m] <= 1 + lost
             /\ Open(m) /\ ~(Delivering(req[r]) /\ req[r].message = m) => delivered[m] <= lost
  BY <1>1 DEF IInv, Once
<1>4. ASSUME NEW d \in Days
      PROVE  /\ sends[d] <= OrgCap + Charge(lost)
             /\ sends[d] <= spendFor(d).daily + 1 + Charge(lost)
             /\ ~Uncounted(req[r], d) => sends[d] <= spendFor(d).daily + Charge(lost)
  <2>1. Charge(lost) \in Nat /\ sends[d] \in Nat /\ spendFor(d).daily \in Nat
    BY ChargeGrows, SpendsAreCounts DEF IInv, TypeOK, Spend
  <2>2. sends[d] <= OrgCap + Charge(lost) /\ Covered(d)
    BY DEF IInv, Capped
  <2> QED
    BY <1>1, <2>1, <2>2 DEF Covered
<1> QED
  BY <1>1, <1>2, <1>3, <1>4

\* While nobody is served, everything is counted.
LEMMA QuietSoFar ==
  ASSUME IInv, alone, \A r \in Requests : ~Busy(r)
  PROVE  /\ \A m \in Messages :
              delivered[m] <= 1 + lost /\ (Open(m) => delivered[m] <= lost)
         /\ \A d \in Days :
              sends[d] <= OrgCap + Charge(lost) /\ sends[d] <= spendFor(d).daily + Charge(lost)
BY DEF IInv, Once, Capped, Covered

\* What is counted stays so when a request begins and only an answer is lost.
LEMMA QuietStays ==
  ASSUME IInv, alone, \A r \in Requests : ~Busy(r),
         UNCHANGED <<rows, spend, delivered, sends>>, NEW ok \in BOOLEAN, Answered(ok)
  PROVE  Once' /\ Capped'
<1>1. TypeOK /\ lost \in Nat /\ lost' \in Nat /\ lost' >= lost
  BY AnswersCount, MessagingConstants DEF IInv
<1>2. Charge(lost) \in Nat /\ Charge(lost') \in Nat /\ Charge(lost') >= Charge(lost)
      /\ OrgCap \in Nat
  BY <1>1, AnswersCharge
<1>3. ASSUME NEW m \in Messages
      PROVE  delivered[m] <= 1 + lost' /\ (~Open(m) \/ delivered[m] <= lost')
  <2>1. delivered[m] \in Nat /\ delivered[m] <= 1 + lost /\ (Open(m) => delivered[m] <= lost)
    BY <1>1, QuietSoFar DEF TypeOK
  <2> QED
    BY <1>1, <2>1
<1>4. ASSUME NEW d \in Days
      PROVE  sends[d] <= OrgCap + Charge(lost') /\ sends[d] <= spendFor(d).daily + Charge(lost')
  <2>1. sends[d] \in Nat /\ spendFor(d).daily \in Nat
    BY <1>1, SpendsAreCounts DEF TypeOK, Spend
  <2>2. sends[d] <= OrgCap + Charge(lost) /\ sends[d] <= spendFor(d).daily + Charge(lost)
    BY QuietSoFar
  <2> QED
    BY <1>2, <2>1, <2>2
<1>5. Once'
  BY <1>3 DEF Once, Open
<1>6. Capped'
  BY <1>4 DEF Capped, Covered, spendFor
<1> QED
  BY <1>5, <1>6

\* The shape of requests after one of them went on or ended.
LEMMA StepShapes ==
  ASSUME IInv, NEW r \in Requests, alone' = alone,
         Busy(r) \/ (alone => \A s \in Requests : ~Busy(s)),
         \/ Ends(r)
         \/ \E q \in Request :
              /\ Becomes(r, q) /\ q.message \in q.todo
              /\ q.kind = "send" => q.todo = {q.message}
  PROVE  /\ req' \in [Requests -> Request \cup {NoRequest}]
         /\ Shaped' /\ OneAtATime'
<1>1. TypeOK /\ Shaped /\ OneAtATime
  BY DEF IInv
<1>2. CASE Ends(r)
  BY <1>1, <1>2, EndsIdle DEF Shaped, OneAtATime, Busy
<1>3. ASSUME NEW q \in Request, Becomes(r, q), q.message \in q.todo,
             q.kind = "send" => q.todo = {q.message}
      PROVE  /\ req' \in [Requests -> Request \cup {NoRequest}]
             /\ Shaped' /\ OneAtATime'
  BY <1>1, <1>3, RequestsAreBusy DEF Shaped, OneAtATime, Busy
<1> QED
  BY <1>2, <1>3

\* Who is served after a request served alone went on or ended.
LEMMA StepServes ==
  ASSUME IInv, NEW r \in Requests, \A s \in Requests : s # r => ~Busy(s),
         Ends(r) \/ \E q \in Request : Becomes(r, q) /\ Fits(q)'
  PROVE  Served'
<1>1. TypeOK
  BY DEF IInv
<1>2. CASE Ends(r)
  BY <1>1, <1>2, EndsIdle DEF Served, Busy
<1>3. ASSUME NEW q \in Request, Becomes(r, q), Fits(q)'
      PROVE  Served'
  BY <1>1, <1>3, RequestsAreBusy DEF Served, Busy
<1> QED
  BY <1>2, <1>3

-----------------------------------------------------------------------------
(* The steps *)

LEMMA MidnightKeeps == IInv /\ Midnight => IInv'
<1> SUFFICES ASSUME IInv, Midnight PROVE IInv'
  OBVIOUS
<1>1. UNCHANGED <<alone, rows, spend, delivered, sends, lost, req>>
  BY DEF Midnight
<1>2. TypeOK'
  BY <1>1, MessagingConstants DEF IInv, TypeOK, Midnight, Days
<1>3. Shaped' /\ OneAtATime'
  BY <1>1 DEF IInv, Shaped, OneAtATime, Busy
<1>4. alone => Served' /\ Once' /\ Capped'
  BY <1>1 DEF IInv, Served, Fits, Once, Capped, Covered, spendFor, Open, Busy, Charge
<1> QED
  BY <1>1, <1>2, <1>3, <1>4 DEF IInv

LEMMA LoseKeeps ==
  ASSUME IInv, NEW r \in Requests, Lose(r)
  PROVE  IInv'
<1>1. /\ UNCHANGED <<alone, today, rows, spend, delivered, sends>>
      /\ Ends(r) /\ Busy(r) /\ lost' = lost + 1
      /\ TypeOK /\ lost \in Nat
  BY DEF Lose, IInv, TypeOK
<1>2. Shaped' /\ OneAtATime' /\ req' \in [Requests -> Request \cup {NoRequest}]
  BY <1>1, StepShapes
<1>3. TypeOK'
  BY <1>1, <1>2, MessagingConstants DEF TypeOK, Lose
<1>4. ASSUME alone
      PROVE  Served' /\ Once' /\ Capped'
  <2>1. \A s \in Requests : s # r => ~Busy(s)
    BY <1>1, <1>4, AloneSoFar
  <2>2. Served'
    BY <1>1, <2>1, StepServes
  <2>3. Once'
    BY <1>1, <1>4, AloneSoFar DEF Once, TypeOK
  <2>4. ASSUME NEW d \in Days
        PROVE  sends[d] <= OrgCap + Charge(lost') /\ Covered(d)'
    <3>1. /\ Charge(lost) \in Nat /\ Charge(lost') = Charge(lost) + OrgCap
          /\ sends[d] \in Nat /\ spendFor(d).daily \in Nat
          /\ OrgCap \in Nat \ {0}
      BY <1>1, ChargeGrows, OrgCapCounts, SpendsAreCounts, MessagingConstants DEF TypeOK, Spend
    <3>2. /\ sends[d] <= OrgCap + Charge(lost)
          /\ sends[d] <= spendFor(d).daily + 1 + Charge(lost)
      BY <1>1, <1>4, AloneSoFar
    <3>3. sends[d] <= spendFor(d).daily + Charge(lost')
      BY <3>1, <3>2
    <3> QED
      BY <1>1, <3>1, <3>2, <3>3 DEF Covered, spendFor
  <2> QED
    BY <1>1, <2>2, <2>3, <2>4 DEF Capped
<1> QED
  BY <1>1, <1>2, <1>3, <1>4 DEF IInv

LEMMA SendKeeps ==
  ASSUME IInv, NEW r \in Requests, NEW m \in Messages, NEW verdict \in {"queued", "blocked"},
         NEW ok \in BOOLEAN, Send(r, m, verdict, ok)
  PROVE  IInv'
<1>1. /\ UNCHANGED <<alone, today, rows, spend, delivered, sends>>
      /\ TypeOK /\ rows[m] = None /\ Answered(ok)
      /\ ~Busy(r) /\ (alone => \A s \in Requests : ~Busy(s))
  BY DEF Send, Starts, IInv
<1>2. PICK q \in Request :
        /\ Becomes(r, q) /\ q.kind = "send" /\ q.todo = {m} /\ q.message = m
        /\ q.at \in {"cap", "record"} /\ q.outcome.status # "sent"
        /\ (q.rules = "org" <=> ok) /\ q.day \in Days
  <2> DEFINE q == [kind |-> "send", rules |-> loadRules(ok),
                   at |-> IF verdict = "queued" THEN "cap" ELSE "record",
                   todo |-> {m}, attempts |-> [n \in Messages |-> 0], message |-> m,
                   day |-> today, spent |-> Nothing,
                   outcome |-> [status |-> "blocked", attempts |-> 1]]
  <2>1. Becomes(r, q)
    BY DEF Send, Starts
  <2>2. q.outcome \in Row /\ q.outcome.status # "sent"
    BY DEF Row
  <2>3. Nothing \in Spend
    BY <1>1, SpendsAreCounts
  <2>4. q \in Request
    BY <1>1, <2>2, <2>3, RulesAreKnown DEF Request, TypeOK
  <2>5. q.day \in Days /\ (q.rules = "org" <=> ok)
    BY <1>1, RulesAreKnown DEF TypeOK
  <2> QED
    BY <2>1, <2>2, <2>4, <2>5
<1>3. Shaped' /\ OneAtATime' /\ req' \in [Requests -> Request \cup {NoRequest}]
  BY <1>1, <1>2, StepShapes
<1>4. TypeOK'
  BY <1>1, <1>3, AnswersCount DEF TypeOK
<1>5. ASSUME alone
      PROVE  Served' /\ Once' /\ Capped'
  <2>1. q.rules # "org" => sends[q.day] <= Charge(lost')
    <3>1. sends[q.day] <= OrgCap + Charge(lost) /\ sends[q.day] \in Nat
      BY <1>1, <1>2, <1>5, QuietSoFar DEF TypeOK
    <3> QED
      BY <1>1, <1>2, <3>1, AnswersCharge
  <2>2. Fits(q)'
    BY <1>1, <1>2, <2>1 DEF Fits, Remaining, Open
  <2>3. Served'
    BY <1>1, <1>2, <1>5, <2>2, StepServes
  <2>4. Once' /\ Capped'
    BY <1>1, <1>5, QuietStays
  <2> QED
    BY <2>3, <2>4
<1> QED
  BY <1>1, <1>3, <1>4, <1>5 DEF IInv

LEMMA RetryKeeps ==
  ASSUME IInv, NEW r \in Requests, NEW due \in SUBSET Messages, NEW ok \in BOOLEAN,
         Retry(r, due, ok)
  PROVE  IInv'
<1>1. /\ UNCHANGED <<alone, today, rows, spend, delivered, sends>>
      /\ TypeOK /\ due \subseteq Retrying /\ Answered(ok)
      /\ ~Busy(r) /\ (alone => \A s \in Requests : ~Busy(s))
  BY DEF Retry, Starts, IInv
<1>2. PICK q \in Request :
        /\ Becomes(r, q) /\ q.kind = "retry" /\ q.todo = due /\ q.message \in due
        /\ q.at = "dispatch"
  <2>1. PICK m \in due :
          Becomes(r, [kind |-> "retry", rules |-> loadRules(ok), at |-> "dispatch",
                   todo |-> due, message |-> m,
                   attempts |-> [n \in Messages |-> IF n \in due THEN rows[n].attempts ELSE 0],
                   day |-> Fresh.day, spent |-> Fresh.spent, outcome |-> Fresh.outcome])
    BY DEF Retry, Starts
  <2> DEFINE q == [kind |-> "retry", rules |-> loadRules(ok), at |-> "dispatch",
                   todo |-> due, message |-> m,
                   attempts |-> [n \in Messages |-> IF n \in due THEN rows[n].attempts ELSE 0],
                   day |-> Fresh.day, spent |-> Fresh.spent, outcome |-> Fresh.outcome]
  <2>2. q.attempts \in [Messages -> Nat]
    <3>1. \A n \in due : rows[n].attempts \in Nat
      BY <1>1 DEF Retrying, TypeOK, Row
    <3> QED
      BY <3>1
  <2>3. q \in Request
    BY <1>1, <2>2, FreshIsTyped, RulesAreKnown DEF Request
  <2> QED
    BY <2>1, <2>3
<1>3. Shaped' /\ OneAtATime' /\ req' \in [Requests -> Request \cup {NoRequest}]
  BY <1>1, <1>2, StepShapes
<1>4. TypeOK'
  BY <1>1, <1>3, AnswersCount DEF TypeOK
<1>5. ASSUME alone
      PROVE  Served' /\ Once' /\ Capped'
  <2>1. Fits(q)'
    BY <1>1, <1>2 DEF Fits, Remaining, Open, Retrying
  <2>2. Served'
    BY <1>1, <1>2, <1>5, <2>1, StepServes
  <2>3. Once' /\ Capped'
    BY <1>1, <1>5, QuietStays
  <2> QED
    BY <2>2, <2>3
<1> QED
  BY <1>1, <1>3, <1>4, <1>5 DEF IInv

LEMMA CheckCapsKeeps ==
  ASSUME IInv, NEW r \in Requests, NEW ok \in BOOLEAN, CheckCaps(r, ok)
  PROVE  IInv'
<1> DEFINE p == req[r]
           read == Read(p.day, ok)
           fits == assertWithinCaps(read, p.rules)
<1>1. /\ UNCHANGED <<alone, today, rows, spend, delivered, sends>>
      /\ TypeOK /\ Busy(r) /\ p.at = "cap" /\ p \in Request /\ Answered(ok)
      /\ p.message \in p.todo /\ (p.kind = "send" => p.todo = {p.message})
  BY BusyHasRequest DEF CheckCaps, At, IInv, Shaped
<1>2. lost' \in 0..MaxLosses /\ lost \in Nat /\ IF ok THEN lost' = lost ELSE lost' = lost + 1
  BY <1>1, AnswersCount DEF CheckCaps, TypeOK
<1>3. PICK q \in Request :
        /\ Becomes(r, q) /\ q.kind = p.kind /\ q.todo = p.todo /\ q.message = p.message
        /\ q.day = p.day
        /\ \/ q.at = "dispatch" /\ fits
           \/ q.at = "record" /\ q.outcome.status = "blocked"
  <2>1. CASE fits
    <3> DEFINE q == [p EXCEPT !.at = "dispatch"]
    <3>1. q \in Request /\ Becomes(r, q)
      BY <1>1, <2>1 DEF CheckCaps, Request
    <3> QED
      BY <1>1, <2>1, <3>1 DEF Request
  <2>2. CASE ~fits
    <3> DEFINE q == [p EXCEPT !.at = "record", !.outcome.status = "blocked"]
    <3>1. Becomes(r, q)
      BY <2>2 DEF CheckCaps
    <3>2. [p.outcome EXCEPT !.status = "blocked"] \in Row
      BY <1>1 DEF Request, Row
    <3>3. q \in Request
      BY <1>1, <3>2 DEF Request
    <3>4. q.outcome.status = "blocked"
      BY <1>1 DEF Request, Row
    <3> QED
      BY <1>1, <3>1, <3>3, <3>4 DEF Request
  <2> QED
    BY <2>1, <2>2
<1>4. Shaped' /\ OneAtATime' /\ req' \in [Requests -> Request \cup {NoRequest}]
  BY <1>1, <1>3, StepShapes
<1>5. TypeOK'
  BY <1>1, <1>2, <1>4 DEF TypeOK
<1>6. ASSUME alone
      PROVE  Served' /\ Once' /\ Capped'
  <2>1. /\ Charge(lost) \in Nat /\ Charge(lost') \in Nat /\ OrgCap \in Nat \ {0}
        /\ IF ok THEN Charge(lost') = Charge(lost) ELSE Charge(lost') = Charge(lost) + OrgCap
    BY <1>1, AnswersCharge
  <2>2. \A d \in Days :
          /\ sends[d] \in Nat /\ spendFor(d).daily \in Nat
          /\ sends[d] <= OrgCap + Charge(lost)
          /\ sends[d] <= spendFor(d).daily + Charge(lost)
    BY <1>1, <1>6, AloneSoFar, SpendsAreCounts DEF Uncounted, Delivering, TypeOK, Spend
  <2>3. p.day \in Days
    BY <1>1 DEF Request
  <2>4. fits => sends[p.day] + 1 <= OrgCap + Charge(lost')
    <3>1. CASE ok /\ p.rules = "org"
      <4>1. fits => spendFor(p.day).daily + 1 <= OrgCap
        BY <3>1 DEF assertWithinCaps, Read, OrgCap
      <4> QED
        BY <2>1, <2>2, <2>3, <3>1, <4>1
    <3>2. CASE ~ok
      BY <2>1, <2>2, <2>3, <3>2
    <3>3. CASE p.rules # "org"
      <4>1. sends[p.day] <= Charge(lost)
        BY <1>1, <1>6, <3>3, AloneSoFar DEF Fits
      <4> QED
        BY <2>1, <2>2, <2>3, <4>1
    <3> QED
      BY <3>1, <3>2, <3>3
  <2>5. \A m \in p.todo : Open(m)
    BY <1>1, <1>6, AloneSoFar DEF Fits, Remaining
  <2>6. Fits(q)'
    BY <1>1, <1>3, <2>4, <2>5 DEF Fits, Remaining, Open
  <2>7. Served'
    BY <1>1, <1>3, <1>6, <2>6, AloneSoFar, StepServes
  <2>8. Once'
    <3>1. \A m \in Messages :
            delivered[m] \in Nat /\ delivered[m] <= 1 + lost /\ (Open(m) => delivered[m] <= lost)
      BY <1>1, <1>6, AloneSoFar DEF Delivering, TypeOK
    <3> QED
      BY <1>1, <1>2, <3>1 DEF Once, Open
  <2>9. Capped'
    BY <1>1, <2>1, <2>2 DEF Capped, Covered, spendFor
  <2> QED
    BY <2>7, <2>8, <2>9
<1> QED
  BY <1>1, <1>4, <1>5, <1>6 DEF IInv

LEMMA DispatchKeeps ==
  ASSUME IInv, NEW r \in Requests, NEW taken \in BOOLEAN, NEW ok \in BOOLEAN,
         Dispatch(r, taken, ok)
  PROVE  IInv'
<1> DEFINE p == req[r]
           out == Outcome(ok, p.attempts[p.message] + 1, p.rules)
           counts == taken /\ p.kind = "send"
<1>1. /\ UNCHANGED <<alone, today, rows, spend>>
      /\ TypeOK /\ Busy(r) /\ p.at = "dispatch" /\ p \in Request
      /\ p.message \in p.todo /\ (p.kind = "send" => p.todo = {p.message})
      /\ p.message \in Messages /\ p.day \in Days
      /\ (ok => taken) /\ Answered(taken => ok)
  BY BusyHasRequest DEF Dispatch, At, IInv, Shaped, Request
<1>2. out \in Row /\ (out.status = "sent" <=> ok)
  <2>1. p.attempts[p.message] + 1 \in Nat
    BY <1>1 DEF Request
  <2> QED
    BY <2>1, OutcomesAreRows
<1>3. PICK q \in Request :
        /\ Becomes(r, q) /\ q.kind = p.kind /\ q.todo = p.todo /\ q.message = p.message
        /\ q.day = p.day /\ q.at = "record" /\ (q.outcome.status = "sent" <=> ok)
  <2> DEFINE q == [p EXCEPT !.at = "record", !.outcome = out]
  <2>1. Becomes(r, q)
    BY DEF Dispatch
  <2>2. q \in Request
    BY <1>1, <1>2 DEF Request
  <2>3. q.outcome = out /\ q.at = "record" /\ q.kind = p.kind /\ q.todo = p.todo
        /\ q.message = p.message /\ q.day = p.day
    BY <1>1 DEF Request
  <2> QED
    BY <1>2, <2>1, <2>2, <2>3
<1>4. Shaped' /\ OneAtATime' /\ req' \in [Requests -> Request \cup {NoRequest}]
  BY <1>1, <1>3, StepShapes
<1>5. /\ delivered' \in [Messages -> Nat]
      /\ \A m \in Messages :
           delivered'[m] = IF taken /\ m = p.message THEN delivered[m] + 1 ELSE delivered[m]
  BY <1>1 DEF Dispatch, TypeOK
<1>6. /\ sends' \in [Days -> Nat]
      /\ \A d \in Days : sends'[d] = IF counts /\ d = p.day THEN sends[d] + 1 ELSE sends[d]
  BY <1>1 DEF Dispatch, TypeOK
<1>9. /\ lost' \in 0..MaxLosses /\ lost \in Nat /\ lost' >= lost
      /\ taken /\ ~ok => lost' = lost + 1
  <2>1. (taken => ok) \in BOOLEAN
    OBVIOUS
  <2> QED
    BY <1>1, <2>1, AnswersCount
<1>10. /\ Charge(lost) \in Nat /\ Charge(lost') \in Nat /\ OrgCap \in Nat \ {0}
       /\ Charge(lost') >= Charge(lost)
       /\ taken /\ ~ok => Charge(lost') = Charge(lost) + OrgCap
  <2>1. (taken => ok) \in BOOLEAN
    OBVIOUS
  <2> QED
    BY <1>1, <2>1, AnswersCharge
<1>7. TypeOK'
  BY <1>1, <1>4, <1>5, <1>6, <1>9 DEF TypeOK
<1>8. ASSUME alone
      PROVE  Served' /\ Once' /\ Capped'
  <2>1. Busy(r)' /\ req'[r] = q
    BY <1>1, <1>3, RequestsAreBusy
  <2>2. Fits(p) /\ ~Delivering(p) /\ \A s \in Requests : s # r => ~Busy(s)
    BY <1>1, <1>8, AloneSoFar DEF Delivering
  <2>3. Served'
    <3>1. Fits(q)'
      BY <1>1, <1>3, <2>2 DEF Fits, Remaining, Open
    <3> QED
      BY <1>3, <2>2, <3>1, StepServes
  <2>4. Once'
    <3> SUFFICES ASSUME NEW m \in Messages
                 PROVE  /\ delivered'[m] <= 1 + lost'
                        /\ \/ ~Open(m) \/ delivered'[m] <= lost'
                           \/ Delivering(q) /\ q.message = m
      BY <1>1, <2>1 DEF Once, Open
    <3>1. /\ delivered[m] \in Nat /\ lost \in Nat /\ lost' \in Nat
          /\ delivered[m] <= 1 + lost /\ (Open(m) => delivered[m] <= lost)
      BY <1>1, <1>8, <1>9, <2>2, AloneSoFar, MessagingConstants DEF TypeOK
    <3>2. Open(p.message)
      BY <1>1, <2>2 DEF Fits, Remaining
    <3>3. CASE taken /\ ok /\ m = p.message
      <4>1. Delivering(q) /\ q.message = m
        BY <1>3, <3>3 DEF Delivering
      <4> QED
        BY <1>5, <1>9, <3>1, <3>2, <3>3, <4>1
    <3>4. CASE taken /\ ~ok /\ m = p.message
      BY <1>5, <1>9, <3>1, <3>2, <3>4
    <3>5. CASE ~(taken /\ m = p.message)
      BY <1>5, <1>9, <3>1, <3>5
    <3> QED
      BY <3>3, <3>4, <3>5
  <2>5. Capped'
    <3> SUFFICES ASSUME NEW d \in Days
                 PROVE  /\ sends'[d] <= OrgCap + Charge(lost')
                        /\ \/ sends'[d] <= spendFor(d).daily + Charge(lost')
                           \/ /\ sends'[d] <= spendFor(d).daily + 1 + Charge(lost')
                              /\ Uncounted(q, d)
      BY <1>1, <2>1 DEF Capped, Covered, spendFor
    <3>1. /\ sends[d] \in Nat /\ spendFor(d).daily \in Nat
          /\ sends[d] <= OrgCap + Charge(lost)
          /\ sends[d] <= spendFor(d).daily + Charge(lost)
      BY <1>1, <1>8, <2>2, AloneSoFar, SpendsAreCounts DEF Uncounted, TypeOK, Spend
    <3>2. CASE counts /\ d = p.day /\ ok
      <4>1. sends[d] + 1 <= OrgCap + Charge(lost)
        BY <1>1, <2>2, <3>2 DEF Fits
      <4>2. Uncounted(q, d)
        BY <1>3, <3>2 DEF Uncounted, Delivering
      <4> QED
        BY <1>6, <1>10, <3>1, <3>2, <4>1, <4>2
    <3>3. CASE counts /\ d = p.day /\ ~ok
      BY <1>6, <1>10, <3>1, <3>3
    <3>4. CASE ~(counts /\ d = p.day)
      BY <1>6, <1>10, <3>1, <3>4
    <3> QED
      BY <3>2, <3>3, <3>4
  <2> QED
    BY <2>3, <2>4, <2>5
<1> QED
  BY <1>1, <1>4, <1>7, <1>8 DEF IInv

LEMMA RecordKeeps ==
  ASSUME IInv, NEW r \in Requests, Record(r)
  PROVE  IInv'
<1> DEFINE p == req[r]
<1>1. /\ UNCHANGED <<alone, today, spend, delivered, sends, lost>>
      /\ TypeOK /\ Shaped /\ Busy(r) /\ p.at = "record" /\ p \in Request
      /\ p.message \in p.todo /\ (p.kind = "send" => p.todo = {p.message})
      /\ p.message \in Messages /\ p.todo \subseteq Messages /\ p.outcome \in Row
  BY BusyHasRequest DEF Record, At, IInv, Shaped, Request
<1>2. /\ rows' \in [Messages -> Row \cup {None}]
      /\ rows'[p.message] = p.outcome /\ p.outcome # None
      /\ \A m \in Messages : m # p.message => rows'[m] = rows[m]
  BY <1>1, MessagingConstants DEF Record, TypeOK
<1>3. \/ /\ p.outcome.status = "sent"
         /\ \E q \in Request :
              /\ Becomes(r, q) /\ q.kind = p.kind /\ q.todo = p.todo /\ q.message = p.message
              /\ q.day = p.day /\ q.at = "read"
      \/ /\ p.outcome.status # "sent"
         /\ \/ Ends(r)
            \/ \E q \in Request :
                 /\ Becomes(r, q) /\ q.at = "dispatch" /\ q.kind = "retry"
                 /\ q.todo = p.todo \ {p.message} /\ q.message \in q.todo
  <2>1. CASE p.outcome.status = "sent"
    <3> DEFINE q == [p EXCEPT !.at = "read"]
    <3>1. Becomes(r, q) /\ q \in Request
      BY <1>1, <2>1 DEF Record, Request
    <3> QED
      BY <1>1, <2>1, <3>1 DEF Request
  <2>2. CASE p.outcome.status # "sent"
    BY <1>1, <2>2, GoesOnKeeps DEF Record
  <2> QED
    BY <2>1, <2>2
<1>4. Shaped' /\ OneAtATime' /\ req' \in [Requests -> Request \cup {NoRequest}]
  <2>1. \/ Ends(r)
        \/ \E q \in Request :
             /\ Becomes(r, q) /\ q.message \in q.todo
             /\ q.kind = "send" => q.todo = {q.message}
    BY <1>1, <1>3
  <2> QED
    BY <1>1, <2>1, StepShapes
<1>5. TypeOK'
  BY <1>1, <1>2, <1>4 DEF TypeOK
<1>6. ASSUME alone
      PROVE  Served' /\ Once' /\ Capped'
  <2>1. \A s \in Requests : s # r => ~Busy(s)
    BY <1>1, <1>6, AloneSoFar
  <2>2. \A m \in p.todo : Open(m)
    BY <1>1, <1>6, AloneSoFar DEF Fits, Remaining
  <2>3. \A m \in p.todo \ {p.message} : Open(m)'
    BY <1>1, <1>2, <2>2 DEF Open
  <2>4. Served'
    <3>1. ASSUME NEW q \in Request, Becomes(r, q), q.at = "read",
                 q.todo = p.todo, q.message = p.message
          PROVE  Fits(q)'
      BY <2>3, <3>1 DEF Fits, Remaining
    <3>2. ASSUME NEW q \in Request, q.at = "dispatch", q.kind = "retry",
                 q.todo = p.todo \ {p.message}
          PROVE  Fits(q)'
      BY <2>3, <3>2 DEF Fits, Remaining
    <3>3. Ends(r) \/ \E q \in Request : Becomes(r, q) /\ Fits(q)'
      BY <1>3, <3>1, <3>2
    <3> QED
      BY <2>1, <3>3, StepServes
  <2>5. Once'
    <3> SUFFICES ASSUME NEW m \in Messages
                 PROVE  delivered[m] <= 1 + lost /\ (Open(m)' => delivered[m] <= lost)
      BY <1>1 DEF Once
    <3>1. /\ delivered[m] <= 1 + lost
          /\ Open(m) /\ ~(Delivering(p) /\ p.message = m) => delivered[m] <= lost
      BY <1>1, <1>6, AloneSoFar
    <3>2. CASE m = p.message /\ p.outcome.status = "sent"
      BY <1>2, <3>1, <3>2 DEF Open
    <3>3. CASE m = p.message /\ p.outcome.status # "sent"
      BY <1>1, <2>2, <3>1, <3>3 DEF Delivering
    <3>4. CASE m # p.message
      BY <1>2, <3>1, <3>4 DEF Open
    <3> QED
      BY <3>2, <3>3, <3>4
  <2>6. Capped'
    <3> SUFFICES ASSUME NEW d \in Days
                 PROVE  sends[d] <= OrgCap + Charge(lost) /\ Covered(d)'
      BY <1>1 DEF Capped
    <3>1. /\ sends[d] <= OrgCap + Charge(lost)
          /\ sends[d] <= spendFor(d).daily + 1 + Charge(lost)
          /\ ~Uncounted(p, d) => sends[d] <= spendFor(d).daily + Charge(lost)
      BY <1>1, <1>6, AloneSoFar
    <3>2. CASE Uncounted(p, d)
      <4>1. p.outcome.status = "sent" /\ p.kind = "send" /\ p.day = d
        BY <1>1, <3>2 DEF Uncounted, Delivering
      <4>2. PICK q \in Request :
              /\ Becomes(r, q) /\ q.kind = "send" /\ q.day = d /\ q.at = "read"
        BY <1>3, <4>1
      <4>3. Busy(r)' /\ req'[r] = q
        BY <1>1, <4>2, RequestsAreBusy
      <4>4. Uncounted(q, d)
        BY <4>2 DEF Uncounted
      <4> QED
        BY <1>1, <3>1, <4>3, <4>4 DEF Covered, spendFor
    <3>3. CASE ~Uncounted(p, d)
      BY <1>1, <3>1, <3>3 DEF Covered, spendFor
    <3> QED
      BY <3>1, <3>2, <3>3
  <2> QED
    BY <2>4, <2>5, <2>6
<1> QED
  BY <1>1, <1>4, <1>5, <1>6 DEF IInv

LEMMA ReadSpendKeeps ==
  ASSUME IInv, NEW r \in Requests, NEW ok \in BOOLEAN, ReadSpend(r, ok)
  PROVE  IInv'
<1> DEFINE p == req[r]
           d == IF p.kind = "send" THEN p.day ELSE today
           read == Read(d, ok)
<1>1. /\ UNCHANGED <<alone, today, rows, spend, delivered, sends>>
      /\ TypeOK /\ Busy(r) /\ p.at = "read" /\ p \in Request /\ Answered(ok)
      /\ p.message \in p.todo /\ (p.kind = "send" => p.todo = {p.message})
  BY BusyHasRequest DEF ReadSpend, At, IInv, Shaped
<1>2. lost' \in 0..MaxLosses /\ lost \in Nat /\ IF ok THEN lost' = lost ELSE lost' = lost + 1
  BY <1>1, AnswersCount DEF ReadSpend, TypeOK
<1>3. d \in Days /\ read \in Spend
  BY <1>1, SpendsAreCounts DEF TypeOK, Request
<1>4. PICK q \in Request :
        /\ Becomes(r, q) /\ q.kind = p.kind /\ q.todo = p.todo /\ q.message = p.message
        /\ q.at = "bump" /\ q.day = d /\ q.spent = read
  <2> DEFINE q == [p EXCEPT !.at = "bump", !.day = d, !.spent = read]
  <2>1. Becomes(r, q)
    BY DEF ReadSpend
  <2>2. q \in Request
    BY <1>1, <1>3 DEF Request
  <2>3. q.kind = p.kind /\ q.todo = p.todo /\ q.message = p.message
        /\ q.at = "bump" /\ q.day = d /\ q.spent = read
    BY <1>1 DEF Request
  <2> QED
    BY <2>1, <2>2, <2>3
<1>5. Shaped' /\ OneAtATime' /\ req' \in [Requests -> Request \cup {NoRequest}]
  BY <1>1, <1>4, StepShapes
<1>6. TypeOK'
  BY <1>1, <1>2, <1>5 DEF TypeOK
<1>7. ASSUME alone
      PROVE  Served' /\ Once' /\ Capped'
  <2>1. /\ Charge(lost) \in Nat /\ Charge(lost') \in Nat /\ OrgCap \in Nat \ {0}
        /\ IF ok THEN Charge(lost') = Charge(lost) ELSE Charge(lost') = Charge(lost) + OrgCap
    BY <1>1, AnswersCharge
  <2>2. \A x \in Days :
          /\ sends[x] \in Nat /\ spendFor(x).daily \in Nat
          /\ sends[x] <= OrgCap + Charge(lost)
          /\ sends[x] <= spendFor(x).daily + 1 + Charge(lost)
          /\ ~Uncounted(p, x) => sends[x] <= spendFor(x).daily + Charge(lost)
    BY <1>1, <1>7, AloneSoFar, SpendsAreCounts DEF TypeOK, Spend
  <2>3. sends[d] <= q.spent.daily + 1 + Charge(lost')
    <3>1. CASE ok
      BY <1>3, <1>4, <2>1, <2>2, <3>1 DEF Read
    <3>2. CASE ~ok
      BY <1>3, <1>4, <2>1, <2>2, <3>2 DEF Read, Nothing
    <3> QED
      BY <3>1, <3>2
  <2>4. \A m \in p.todo \ {p.message} : Open(m)
    BY <1>1, <1>7, AloneSoFar DEF Fits, Remaining
  <2>5. Fits(q)'
    BY <1>1, <1>4, <2>3, <2>4 DEF Fits, Remaining, Open
  <2>6. Served'
    BY <1>1, <1>4, <1>7, <2>5, AloneSoFar, StepServes
  <2>7. Once'
    <3>1. \A m \in Messages :
            delivered[m] \in Nat /\ delivered[m] <= 1 + lost /\ (Open(m) => delivered[m] <= lost)
      BY <1>1, <1>7, AloneSoFar DEF Delivering, TypeOK
    <3> QED
      BY <1>1, <1>2, <3>1 DEF Once, Open
  <2>8. Capped'
    <3> SUFFICES ASSUME NEW x \in Days
                 PROVE  sends[x] <= OrgCap + Charge(lost') /\ Covered(x)'
      BY <1>1 DEF Capped
    <3>1. Busy(r)' /\ req'[r] = q
      BY <1>1, <1>4, RequestsAreBusy
    <3>2. Uncounted(p, x) => Uncounted(q, x)
      BY <1>1, <1>4 DEF Uncounted, Delivering
    <3>3. sends[x] <= OrgCap + Charge(lost')
      BY <2>1, <2>2
    <3>4. CASE Uncounted(p, x)
      <4>1. sends[x] <= spendFor(x).daily + 1 + Charge(lost')
        BY <2>1, <2>2
      <4> QED
        BY <1>1, <3>1, <3>2, <3>3, <3>4, <4>1 DEF Covered, spendFor
    <3>5. CASE ~Uncounted(p, x)
      <4>1. sends[x] <= spendFor(x).daily + Charge(lost')
        BY <2>1, <2>2, <3>5
      <4> QED
        BY <1>1, <3>3, <4>1 DEF Covered, spendFor
    <3> QED
      BY <3>4, <3>5
  <2> QED
    BY <2>6, <2>7, <2>8
<1> QED
  BY <1>1, <1>5, <1>6, <1>7 DEF IInv

LEMMA WriteSpendKeeps ==
  ASSUME IInv, NEW r \in Requests, WriteSpend(r)
  PROVE  IInv'
<1> DEFINE p == req[r]
           written == [daily |-> p.spent.daily + 1, monthly |-> p.spent.monthly + 1]
<1>1. /\ UNCHANGED <<alone, today, rows, delivered, sends, lost>>
      /\ TypeOK /\ Shaped /\ Busy(r) /\ p.at = "bump" /\ p \in Request
      /\ p.day \in Days /\ p.spent \in Spend
  BY BusyHasRequest DEF WriteSpend, At, IInv, Request
<1>2. written \in Spend /\ written # None
  BY <1>1, MessagingConstants DEF Spend
<1>3. /\ spend' \in [Days -> Spend \cup {None}]
      /\ \A d \in Days : spendFor(d)' = IF d = p.day THEN written ELSE spendFor(d)
  <2>1. spend' = [spend EXCEPT ![p.day] = written]
    BY DEF WriteSpend
  <2>2. spend \in [Days -> Spend \cup {None}]
    BY <1>1 DEF TypeOK
  <2> HIDE DEF written
  <2>3. spend' \in [Days -> Spend \cup {None}]
    BY <1>1, <1>2, <2>1, <2>2
  <2>4. spend'[p.day] = written /\ \A d \in Days : d # p.day => spend'[d] = spend[d]
    BY <1>1, <2>1, <2>2
  <2> QED
    BY <1>2, <2>3, <2>4 DEF spendFor
<1>4. \/ Ends(r)
      \/ \E q \in Request :
           /\ Becomes(r, q) /\ q.at = "dispatch" /\ q.kind = "retry"
           /\ q.todo = p.todo \ {p.message} /\ q.message \in q.todo
  BY <1>1, GoesOnKeeps DEF WriteSpend
<1>5. Shaped' /\ OneAtATime' /\ req' \in [Requests -> Request \cup {NoRequest}]
  <2>1. \/ Ends(r)
        \/ \E q \in Request :
             /\ Becomes(r, q) /\ q.message \in q.todo
             /\ q.kind = "send" => q.todo = {q.message}
    BY <1>4
  <2> QED
    BY <1>1, <2>1, StepShapes
<1>6. TypeOK'
  BY <1>1, <1>3, <1>5 DEF TypeOK
<1>7. ASSUME alone
      PROVE  Served' /\ Once' /\ Capped'
  <2>1. Fits(p) /\ \A s \in Requests : s # r => ~Busy(s)
    BY <1>1, <1>7, AloneSoFar
  <2>2. Served'
    <3>1. \A m \in p.todo \ {p.message} : Open(m)'
      BY <1>1, <2>1 DEF Fits, Remaining, Open
    <3>2. ASSUME NEW q \in Request, q.at = "dispatch", q.kind = "retry",
                 q.todo = p.todo \ {p.message}
          PROVE  Fits(q)'
      BY <3>1, <3>2 DEF Fits, Remaining
    <3>3. Ends(r) \/ \E q \in Request : Becomes(r, q) /\ Fits(q)'
      BY <1>4, <3>2
    <3> QED
      BY <2>1, <3>3, StepServes
  <2>3. Once'
    BY <1>1, <1>7, AloneSoFar DEF Once, Open, Delivering
  <2>4. ASSUME NEW d \in Days
        PROVE  sends[d] <= OrgCap + Charge(lost) /\ sends[d] <= spendFor(d)'.daily + Charge(lost)
    <3>1. /\ sends[d] <= OrgCap + Charge(lost)
          /\ ~Uncounted(p, d) => sends[d] <= spendFor(d).daily + Charge(lost)
      BY <1>1, <1>7, AloneSoFar
    <3>2. CASE d = p.day
      <4>1. sends[d] <= p.spent.daily + 1 + Charge(lost)
        BY <1>1, <2>1, <3>2 DEF Fits
      <4>2. spendFor(d)' = written
        BY <1>3, <3>2
      <4> QED
        BY <3>1, <4>1, <4>2
    <3>3. CASE d # p.day
      BY <1>3, <3>1, <3>3 DEF Uncounted
    <3> QED
      BY <3>2, <3>3
  <2>5. Capped'
    BY <1>1, <2>4 DEF Capped, Covered, Charge
  <2> QED
    BY <2>2, <2>3, <2>5
<1> QED
  BY <1>1, <1>5, <1>6, <1>7 DEF IInv

LEMMA StepsKeep == IInv /\ [Next]_vars => IInv'
<1> SUFFICES ASSUME IInv, [Next]_vars PROVE IInv'
  OBVIOUS
<1>1. CASE Midnight
  BY <1>1, MidnightKeeps
<1>2. ASSUME NEW r \in Requests, NEW m \in Messages, NEW verdict \in {"queued", "blocked"},
             NEW ok \in BOOLEAN, Send(r, m, verdict, ok)
      PROVE  IInv'
  BY <1>2, SendKeeps
<1>3. CASE RetryDue
  BY <1>3, RetryKeeps DEF RetryDue
<1>4. ASSUME NEW r \in Requests, Serve(r)
      PROVE  IInv'
  BY <1>4, CheckCapsKeeps, ReadSpendKeeps, DispatchKeeps, RecordKeeps, WriteSpendKeeps DEF Serve
<1>5. ASSUME NEW r \in Requests, Lose(r)
      PROVE  IInv'
  BY <1>5, LoseKeeps
<1>6. CASE UNCHANGED vars
  BY <1>6 DEF vars, IInv, TypeOK, Shaped, OneAtATime, Served, Fits, Once, Capped, Covered,
              spendFor, Open, Busy, Charge
<1> QED
  BY <1>1, <1>2, <1>3, <1>4, <1>5, <1>6 DEF Next

LEMMA Invariance == Spec => []IInv
BY Initially, StepsKeep, PTL DEF Spec

-----------------------------------------------------------------------------
(* Theorems *)

\* Whatever overlaps or is lost, rows, counters and requests keep their type.
THEOREM TypeCorrect == Spec => []TypeOK
<1>1. IInv => TypeOK
  BY DEF IInv
<1> QED
  BY <1>1, Invariance, PTL

\* While requests come one at a time, the messages the provider takes on a day stay
\* within the organization's cap, once more for each loss: a send that follows the
\* default rules exceeds it by one message, counters that were not read start again,
\* and a message whose answer is lost is one that no counter has.
THEOREM CapStaysBounded == Spec => []CapBounded
<1>1. IInv => CapBounded
  <2> SUFFICES ASSUME IInv, alone, NEW d \in Days PROVE sends[d] <= OrgCap * (1 + lost)
    BY DEF CapBounded, OrgCap
  <2>1. sends[d] <= OrgCap + Charge(lost)
    BY DEF IInv, Capped
  <2>2. OrgCap * (1 + lost) = OrgCap + Charge(lost)
    BY ChargeGrows DEF IInv, TypeOK
  <2> QED
    BY <2>1, <2>2
<1> QED
  BY <1>1, Invariance, PTL

\* While requests come one at a time, a retry sends again only what no earlier request
\* has delivered, unless that was lost before it wrote so, or the provider's answer was.
THEOREM DeliveredStaysOnce == Spec => []DeliveredOnce
<1>1. IInv => DeliveredOnce
  BY DEF IInv, Once, DeliveredOnce
<1> QED
  BY <1>1, Invariance, PTL

-----------------------------------------------------------------------------
(* The counters and the provider *)

\* One for a request whose message the provider has and whose counters it has
\* not read yet, and one until they are written.
InTransit(r) ==
  IF Busy(r) /\ (Delivering(req[r]) \/ req[r].at = "read") THEN 1 ELSE 0

Uncredited(r) ==
  IF Busy(r) /\ (Delivering(req[r]) \/ req[r].at \in {"read", "bump"}) THEN 1 ELSE 0

Transits == SumFunction([r \in Requests |-> InTransit(r)])

Uncredits == SumFunction([r \in Requests |-> Uncredited(r)])

\* Every reading of a day's counters is backed by a delivery of its own: h
\* counts the readings by day, and neither the counters nor what a request is
\* going to write in them is more than that.
Backed(h) ==
  /\ SumFunctionOnSet(h, Days) + Transits <= Deliveries
  /\ \A d \in Days : spendFor(d).daily <= h[d]
  /\ \A r \in Requests : At(r, "bump") => req[r].spent.daily + 1 <= h[req[r].day]

NeverOver == \E h \in [Days -> Nat] : Backed(h)

\* One at a time and without losses, only a request under way keeps the
\* counters from what the provider was given.
Exact ==
  alone /\ lost = 0 =>
    /\ Recorded + Uncredits = Deliveries
    /\ \A r \in Requests : At(r, "bump") =>
         req[r].spent.daily = spendFor(req[r].day).daily

SpendInv == IInv /\ NeverOver /\ Exact

\* The ways in which a step of request r matters to the counters.
OnlyMoves(r) == \A s \in Requests : s # r => req'[s] = req[s]

Passes(r) ==
  /\ UNCHANGED <<delivered, spend>> /\ lost' >= lost /\ ~At(r, "bump")'
  /\ InTransit(r)' = InTransit(r) /\ Uncredited(r)' = Uncredited(r)

Accepts(r) ==
  /\ UNCHANGED <<spend, lost>> /\ ~At(r, "bump")'
  /\ \E m \in Messages : delivered' = [delivered EXCEPT ![m] = @ + 1]
  /\ InTransit(r) = 0 /\ InTransit(r)' = 1
  /\ Uncredited(r) = 0 /\ Uncredited(r)' = 1

Reads(r) ==
  /\ UNCHANGED <<delivered, spend>> /\ lost' >= lost
  /\ \E d \in Days :
       /\ req'[r].day = d /\ req'[r].spent.daily \in Nat
       /\ req'[r].spent.daily <= spendFor(d).daily
       /\ lost' = lost => req'[r].spent.daily = spendFor(d).daily
  /\ InTransit(r) = 1 /\ InTransit(r)' = 0
  /\ Uncredited(r)' = Uncredited(r)

Writes(r) ==
  /\ UNCHANGED <<delivered, lost>> /\ ~At(r, "bump")'
  /\ At(r, "bump")
  /\ spend' = [spend EXCEPT ![req[r].day] = [daily |-> req[r].spent.daily + 1,
                                             monthly |-> req[r].spent.monthly + 1]]
  /\ InTransit(r) = 0 /\ InTransit(r)' = 0
  /\ Uncredited(r) = 1 /\ Uncredited(r)' = 0

\* The provider has the message, and the request does not know.
Misses(r) ==
  /\ UNCHANGED spend /\ lost' = lost + 1 /\ ~At(r, "bump")'
  /\ \E m \in Messages : delivered' = [delivered EXCEPT ![m] = @ + 1]
  /\ InTransit(r) = 0 /\ InTransit(r)' = 0

Drops(r) ==
  /\ UNCHANGED <<delivered, spend>> /\ lost' = lost + 1 /\ ~At(r, "bump")'
  /\ InTransit(r)' = 0

Kinds(r) ==
  OnlyMoves(r) /\ (Passes(r) \/ Accepts(r) \/ Misses(r) \/ Reads(r) \/ Writes(r) \/ Drops(r))

\* An idle request is neither at a place nor under way.
LEMMA GoneIsDone ==
  ASSUME TypeOK, NEW r \in Requests, Ends(r)
  PROVE  OnlyMoves(r) /\ ~At(r, "bump")' /\ InTransit(r)' = 0 /\ Uncredited(r)' = 0
BY EndsIdle DEF OnlyMoves, At, InTransit, Uncredited

LEMMA MovedTo ==
  ASSUME TypeOK, NEW r \in Requests, NEW q \in Request, Becomes(r, q)
  PROVE  /\ OnlyMoves(r)
         /\ At(r, "bump")' <=> q.at = "bump"
         /\ InTransit(r)' = IF Delivering(q) \/ q.at = "read" THEN 1 ELSE 0
         /\ Uncredited(r)' =
              IF Delivering(q) \/ q.at \in {"read", "bump"} THEN 1 ELSE 0
<1>1. /\ req'[r] = q /\ Busy(r)' /\ \A s \in Requests : s # r => req'[s] = req[s]
  BY RequestsAreBusy
<1> QED
  BY <1>1 DEF OnlyMoves, At, InTransit, Uncredited, Delivering

LEMMA SendKind ==
  ASSUME IInv, NEW r \in Requests, NEW m \in Messages, NEW verdict \in {"queued", "blocked"},
         NEW ok \in BOOLEAN, Send(r, m, verdict, ok)
  PROVE  Kinds(r)
<1> DEFINE q == [kind |-> "send", rules |-> loadRules(ok),
                   at |-> IF verdict = "queued" THEN "cap" ELSE "record",
                   todo |-> {m}, attempts |-> [n \in Messages |-> 0], message |-> m,
                   day |-> today, spent |-> Nothing,
                   outcome |-> [status |-> "blocked", attempts |-> 1]]
<1>1. TypeOK /\ ~Busy(r) /\ Becomes(r, q) /\ UNCHANGED <<delivered, spend>> /\ Answered(ok)
  BY DEF Send, Starts, IInv
<1>2. q \in Request
  BY <1>1, SpendsAreCounts, RulesAreKnown DEF Request, Row, TypeOK
<1>3. ~Delivering(q) /\ q.at \notin {"read", "bump"}
  BY DEF Delivering
<1> HIDE DEF q
<1>4. InTransit(r) = 0 /\ Uncredited(r) = 0
  BY <1>1 DEF InTransit, Uncredited
<1>5. /\ OnlyMoves(r) /\ ~At(r, "bump")'
      /\ InTransit(r)' = 0 /\ Uncredited(r)' = 0
  BY <1>1, <1>2, <1>3, MovedTo
<1>6. lost' >= lost
  BY <1>1, AnswersCount
<1> QED
  BY <1>1, <1>4, <1>5, <1>6 DEF Kinds, Passes

LEMMA RetryKind ==
  ASSUME IInv, NEW r \in Requests, NEW due \in SUBSET Messages, NEW ok \in BOOLEAN,
         Retry(r, due, ok)
  PROVE  Kinds(r)
<1> DEFINE Q(m) == [kind |-> "retry", rules |-> loadRules(ok), at |-> "dispatch",
                   todo |-> due, message |-> m,
                   attempts |-> [n \in Messages |-> IF n \in due THEN rows[n].attempts ELSE 0],
                   day |-> Fresh.day, spent |-> Fresh.spent, outcome |-> Fresh.outcome]
<1>1. PICK m \in due : Starts(r, Q(m))
  BY DEF Retry
<1>2. /\ TypeOK /\ ~Busy(r) /\ Becomes(r, Q(m)) /\ UNCHANGED <<delivered, spend>>
      /\ Answered(ok)
  BY <1>1 DEF Retry, Starts, IInv
<1>3. Q(m) \in Request
  <2>1. [n \in Messages |-> IF n \in due THEN rows[n].attempts ELSE 0] \in [Messages -> Nat]
    BY <1>2 DEF Retry, Retrying, TypeOK, Row
  <2> QED
    BY <1>2, <2>1, FreshIsTyped, RulesAreKnown DEF Request
<1>4. ~Delivering(Q(m)) /\ Q(m).at \notin {"read", "bump"}
  BY DEF Delivering
<1> HIDE DEF Q
<1>5. InTransit(r) = 0 /\ Uncredited(r) = 0
  BY <1>2 DEF InTransit, Uncredited
<1>6. /\ OnlyMoves(r) /\ ~At(r, "bump")'
      /\ InTransit(r)' = 0 /\ Uncredited(r)' = 0
  BY <1>2, <1>3, <1>4, MovedTo
<1>7. lost' >= lost
  BY <1>2, AnswersCount
<1> QED
  BY <1>2, <1>5, <1>6, <1>7 DEF Kinds, Passes

LEMMA CheckCapsKind ==
  ASSUME IInv, NEW r \in Requests, NEW ok \in BOOLEAN, CheckCaps(r, ok)
  PROVE  Kinds(r)
<1> DEFINE p == req[r]
           go == [p EXCEPT !.at = "dispatch"]
           stop == [p EXCEPT !.at = "record", !.outcome.status = "blocked"]
<1>1. /\ TypeOK /\ Busy(r) /\ p.at = "cap" /\ p \in Request
      /\ UNCHANGED <<delivered, spend>> /\ lost' >= lost
  <2>1. TypeOK /\ Busy(r) /\ p.at = "cap" /\ UNCHANGED <<delivered, spend>>
    BY DEF CheckCaps, At, IInv
  <2>2. lost' >= lost
    BY <2>1, AnswersCount DEF CheckCaps, TypeOK
  <2> QED
    BY <2>1, <2>2, BusyHasRequest
<1>2. go \in Request /\ go.at = "dispatch"
  BY <1>1 DEF Request
<1>3. stop \in Request /\ stop.at = "record" /\ stop.outcome.status = "blocked"
  BY <1>1 DEF Request, Row
<1>4. Becomes(r, go) \/ Becomes(r, stop)
  BY DEF CheckCaps
<1>5. InTransit(r) = 0 /\ Uncredited(r) = 0
  BY <1>1 DEF InTransit, Uncredited, Delivering
<1> HIDE DEF go, stop
<1>6. /\ OnlyMoves(r) /\ ~At(r, "bump")'
      /\ InTransit(r)' = 0 /\ Uncredited(r)' = 0
  <2>1. CASE Becomes(r, go)
    BY <1>1, <1>2, <2>1, MovedTo DEF Delivering
  <2>2. CASE Becomes(r, stop)
    BY <1>1, <1>3, <2>2, MovedTo DEF Delivering
  <2> QED
    BY <1>4, <2>1, <2>2
<1> QED
  BY <1>1, <1>5, <1>6 DEF Kinds, Passes

LEMMA DispatchKind ==
  ASSUME IInv, NEW r \in Requests, NEW taken \in BOOLEAN, NEW ok \in BOOLEAN,
         Dispatch(r, taken, ok)
  PROVE  Kinds(r)
<1> DEFINE p == req[r]
           out == Outcome(ok, p.attempts[p.message] + 1, p.rules)
           q == [p EXCEPT !.at = "record", !.outcome = out]
<1>1. /\ TypeOK /\ Busy(r) /\ p.at = "dispatch" /\ p \in Request
      /\ UNCHANGED spend /\ p.message \in Messages
      /\ (ok => taken) /\ Answered(taken => ok)
  BY BusyHasRequest DEF Dispatch, At, IInv, Request
<1>2. out \in Row /\ (out.status = "sent" <=> ok)
  <2>1. p.attempts[p.message] + 1 \in Nat
    BY <1>1 DEF Request
  <2> QED
    BY <2>1, OutcomesAreRows
<1> HIDE DEF out
<1>3. q \in Request /\ Becomes(r, q) /\ q.at = "record" /\ q.outcome = out
  BY <1>1, <1>2 DEF Request, Dispatch, out
<1> HIDE DEF q
<1>4. InTransit(r) = 0 /\ Uncredited(r) = 0
  BY <1>1 DEF InTransit, Uncredited, Delivering
<1>5. Delivering(q) <=> ok
  BY <1>2, <1>3 DEF Delivering
<1>6. /\ OnlyMoves(r) /\ ~At(r, "bump")'
      /\ InTransit(r)' = (IF ok THEN 1 ELSE 0)
      /\ Uncredited(r)' = (IF ok THEN 1 ELSE 0)
  BY <1>1, <1>3, <1>5, MovedTo
<1>9. lost' >= lost /\ IF taken => ok THEN lost' = lost ELSE lost' = lost + 1
  <2>1. (taken => ok) \in BOOLEAN
    OBVIOUS
  <2> QED
    BY <1>1, <2>1, AnswersCount
<1>7. CASE taken
  <2>1. delivered' = [delivered EXCEPT ![p.message] = @ + 1]
    BY <1>7 DEF Dispatch
  <2>2. CASE ok
    <3>1. Accepts(r)
      BY <1>1, <1>4, <1>6, <1>9, <2>1, <2>2 DEF Accepts
    <3> QED
      BY <1>6, <3>1 DEF Kinds
  <2>3. CASE ~ok
    <3>1. lost' = lost + 1
      BY <1>7, <1>9, <2>3
    <3>2. Misses(r)
      BY <1>1, <1>4, <1>6, <2>1, <2>3, <3>1 DEF Misses
    <3> QED
      BY <1>6, <3>2 DEF Kinds
  <2> QED
    BY <2>2, <2>3
<1>8. CASE ~taken
  <2>1. UNCHANGED delivered /\ ~ok
    BY <1>1, <1>8 DEF Dispatch
  <2>2. Passes(r)
    BY <1>1, <1>4, <1>6, <1>9, <2>1 DEF Passes
  <2> QED
    BY <1>6, <2>2 DEF Kinds
<1> QED
  BY <1>7, <1>8

\* A request that is done with a message is at the next one or gone.
LEMMA GoneOn ==
  ASSUME IInv, NEW r \in Requests, Busy(r), GoesOn(r, req[r])
  PROVE  OnlyMoves(r) /\ ~At(r, "bump")' /\ InTransit(r)' = 0 /\ Uncredited(r)' = 0
<1>1. TypeOK /\ Shaped
  BY DEF IInv
<1>2. CASE Ends(r)
  BY <1>1, <1>2, GoneIsDone
<1>3. ASSUME NEW q \in Request, Becomes(r, q), q.at = "dispatch"
      PROVE  OnlyMoves(r) /\ ~At(r, "bump")' /\ InTransit(r)' = 0 /\ Uncredited(r)' = 0
  <2>1. ~Delivering(q) /\ q.at \notin {"read", "bump"}
    BY <1>3 DEF Delivering
  <2> QED
    BY <1>1, <1>3, <2>1, MovedTo
<1> QED
  BY <1>1, <1>2, <1>3, GoesOnKeeps

LEMMA RecordKind ==
  ASSUME IInv, NEW r \in Requests, Record(r)
  PROVE  Kinds(r)
<1> DEFINE p == req[r]
           q == [p EXCEPT !.at = "read"]
<1>1. /\ TypeOK /\ Busy(r) /\ p.at = "record" /\ p \in Request
      /\ UNCHANGED <<delivered, spend>> /\ lost' >= lost
  BY BusyHasRequest DEF Record, At, IInv, TypeOK
<1>2. CASE p.outcome.status = "sent"
  <2>1. q \in Request /\ Becomes(r, q) /\ q.at = "read"
    BY <1>1, <1>2 DEF Record, Request
  <2>2. InTransit(r) = 1 /\ Uncredited(r) = 1
    BY <1>1, <1>2 DEF InTransit, Uncredited, Delivering
  <2> HIDE DEF q
  <2>3. /\ OnlyMoves(r) /\ ~At(r, "bump")'
        /\ InTransit(r)' = 1 /\ Uncredited(r)' = 1
    BY <1>1, <2>1, MovedTo
  <2> QED
    BY <1>1, <2>2, <2>3 DEF Kinds, Passes
<1>3. CASE p.outcome.status # "sent"
  <2>1. InTransit(r) = 0 /\ Uncredited(r) = 0
    BY <1>1, <1>3 DEF InTransit, Uncredited, Delivering
  <2>2. /\ OnlyMoves(r) /\ ~At(r, "bump")'
        /\ InTransit(r)' = 0 /\ Uncredited(r)' = 0
    BY <1>1, <1>3, GoneOn DEF Record
  <2> QED
    BY <1>1, <2>1, <2>2 DEF Kinds, Passes
<1> QED
  BY <1>2, <1>3

LEMMA ReadSpendKind ==
  ASSUME IInv, NEW r \in Requests, NEW ok \in BOOLEAN, ReadSpend(r, ok)
  PROVE  Kinds(r)
<1> DEFINE p == req[r]
           d == IF p.kind = "send" THEN p.day ELSE today
           q == [p EXCEPT !.at = "bump", !.day = d, !.spent = Read(d, ok)]
<1>1. /\ TypeOK /\ Busy(r) /\ p.at = "read" /\ p \in Request
      /\ UNCHANGED <<delivered, spend>> /\ Answered(ok)
  BY BusyHasRequest DEF ReadSpend, At, IInv
<1>2. d \in Days /\ Read(d, ok) \in Spend /\ spendFor(d) \in Spend
  BY <1>1, SpendsAreCounts DEF TypeOK, Request
<1>3. Becomes(r, q)
  BY DEF ReadSpend
<1> HIDE DEF d
<1>4. q \in Request /\ q.at = "bump" /\ q.day = d /\ q.spent = Read(d, ok)
  BY <1>1, <1>2 DEF Request
<1>5. InTransit(r) = 1 /\ Uncredited(r) = 1
  BY <1>1 DEF InTransit, Uncredited
<1> HIDE DEF q
<1>6. OnlyMoves(r) /\ InTransit(r)' = 0 /\ Uncredited(r)' = 1 /\ req'[r] = q
  <2>1. ~Delivering(q)
    BY <1>4 DEF Delivering
  <2> QED
    BY <1>1, <1>3, <1>4, <2>1, MovedTo, RequestsAreBusy
<1>7. lost' >= lost /\ (lost' = lost => ok)
  BY <1>1, AnswersCount DEF TypeOK
<1>8. /\ Read(d, ok).daily \in Nat /\ Read(d, ok).daily <= spendFor(d).daily
      /\ ok => Read(d, ok) = spendFor(d)
  BY <1>2 DEF Read, Nothing, Spend
<1>9. Reads(r)
  BY <1>1, <1>2, <1>4, <1>5, <1>6, <1>7, <1>8 DEF Reads
<1> QED
  BY <1>6, <1>9 DEF Kinds

LEMMA WriteSpendKind ==
  ASSUME IInv, NEW r \in Requests, WriteSpend(r)
  PROVE  Kinds(r)
<1>1. /\ At(r, "bump") /\ Busy(r) /\ req[r].at = "bump" /\ GoesOn(r, req[r])
      /\ UNCHANGED <<delivered, lost>>
  BY DEF WriteSpend, At
<1>2. InTransit(r) = 0 /\ Uncredited(r) = 1
  BY <1>1 DEF InTransit, Uncredited, Delivering
<1>3. OnlyMoves(r) /\ ~At(r, "bump")' /\ InTransit(r)' = 0 /\ Uncredited(r)' = 0
  BY <1>1, GoneOn
<1>4. Writes(r)
  BY <1>1, <1>2, <1>3 DEF Writes, WriteSpend
<1> QED
  BY <1>3, <1>4 DEF Kinds

LEMMA LoseKind ==
  ASSUME IInv, NEW r \in Requests, Lose(r)
  PROVE  Kinds(r)
<1>1. TypeOK /\ Ends(r) /\ UNCHANGED <<delivered, spend>> /\ lost' = lost + 1
  BY DEF Lose, IInv
<1> QED
  BY <1>1, GoneIsDone DEF Kinds, Drops

\* Every step is of one request, and of one of these kinds, or does not matter.
LEMMA StepKinds ==
  ASSUME IInv, [Next]_vars
  PROVE  /\ alone' = alone
         /\ \/ UNCHANGED <<delivered, spend, lost, req>>
            \/ \E r \in Requests : Kinds(r)
<1>1. ASSUME NEW r \in Requests, NEW m \in Messages, NEW verdict \in {"queued", "blocked"},
             NEW ok \in BOOLEAN, Send(r, m, verdict, ok)
      PROVE  alone' = alone /\ Kinds(r)
  BY <1>1, SendKind DEF Send
<1>2. ASSUME NEW r \in Requests, NEW due \in SUBSET Messages, NEW ok \in BOOLEAN,
             Retry(r, due, ok)
      PROVE  alone' = alone /\ Kinds(r)
  BY <1>2, RetryKind DEF Retry
<1>3. ASSUME NEW r \in Requests, Serve(r)
      PROVE  alone' = alone /\ Kinds(r)
  <2>1. ASSUME NEW ok \in BOOLEAN, CheckCaps(r, ok) PROVE alone' = alone /\ Kinds(r)
    BY <2>1, CheckCapsKind DEF CheckCaps
  <2>2. ASSUME NEW ok \in BOOLEAN, ReadSpend(r, ok) PROVE alone' = alone /\ Kinds(r)
    BY <2>2, ReadSpendKind DEF ReadSpend
  <2>3. ASSUME NEW taken \in BOOLEAN, NEW ok \in BOOLEAN, Dispatch(r, taken, ok)
        PROVE  alone' = alone /\ Kinds(r)
    BY <2>3, DispatchKind DEF Dispatch
  <2>4. ASSUME Record(r) PROVE alone' = alone /\ Kinds(r)
    BY <2>4, RecordKind DEF Record
  <2>5. ASSUME WriteSpend(r) PROVE alone' = alone /\ Kinds(r)
    BY <2>5, WriteSpendKind DEF WriteSpend
  <2> QED
    BY <1>3, <2>1, <2>2, <2>3, <2>4, <2>5 DEF Serve
<1>4. ASSUME NEW r \in Requests, Lose(r)
      PROVE  alone' = alone /\ Kinds(r)
  BY <1>4, LoseKind DEF Lose
<1>5. CASE Midnight
  BY <1>5 DEF Midnight
<1>6. CASE UNCHANGED vars
  BY <1>6 DEF vars
<1> QED
  BY <1>1, <1>2, <1>3, <1>4, <1>5, <1>6 DEF Next, RetryDue

-----------------------------------------------------------------------------
(* How a step changes the totals *)

LEMMA AllFinite == IsFiniteSet(Days) /\ IsFiniteSet(Requests) /\ IsFiniteSet(Messages)
BY MessagingConstants, FS_Interval DEF Days

\* Totals over requests and their sums over sets.
LEMMA TotalsOver ==
  ASSUME TypeOK
  PROVE  /\ Deliveries = SumFunctionOnSet(delivered, Messages)
         /\ Deliveries \in Nat
         /\ Transits = SumFunctionOnSet([r \in Requests |-> InTransit(r)], Requests)
         /\ Transits \in Nat
         /\ Uncredits = SumFunctionOnSet([r \in Requests |-> Uncredited(r)], Requests)
         /\ Uncredits \in Nat
         /\ Recorded = SumFunctionOnSet([d \in Days |-> spendFor(d).daily], Days)
         /\ Recorded \in Nat
<1>1. /\ \A m \in Messages : delivered[m] \in Nat
      /\ DOMAIN delivered = Messages
  BY DEF TypeOK
<1>2. /\ \A r \in Requests : [s \in Requests |-> InTransit(s)][r] \in Nat
      /\ \A r \in Requests : [s \in Requests |-> Uncredited(s)][r] \in Nat
  BY DEF InTransit, Uncredited
<1>3. \A d \in Days : [e \in Days |-> spendFor(e).daily][d] \in Nat
  BY SpendsAreCounts DEF Spend
<1>4. Deliveries = SumFunctionOnSet(delivered, Messages) /\ Deliveries \in Nat
  BY <1>1, AllFinite, SumNat DEF Deliveries, SumFunction
<1>5. /\ Transits = SumFunctionOnSet([r \in Requests |-> InTransit(r)], Requests)
      /\ Transits \in Nat
  BY <1>2, AllFinite, SumNat DEF Transits, SumFunction
<1>6. /\ Uncredits = SumFunctionOnSet([r \in Requests |-> Uncredited(r)], Requests)
      /\ Uncredits \in Nat
  BY <1>2, AllFinite, SumNat DEF Uncredits, SumFunction
<1>7. /\ Recorded = SumFunctionOnSet([d \in Days |-> spendFor(d).daily], Days)
      /\ Recorded \in Nat
  BY <1>3, AllFinite, SumNat DEF Recorded, SumFunction
<1> QED
  BY <1>4, <1>5, <1>6, <1>7

TotalsTyped == Deliveries \in Nat /\ Transits \in Nat /\ Uncredits \in Nat /\ Recorded \in Nat

LEMMA TotalsAreCounts == TypeOK => TotalsTyped
BY TotalsOver DEF TotalsTyped

LEMMA LaterTotals == TypeOK' => TotalsTyped'
BY TotalsAreCounts, PTL

\* Only the request that moves changes what is under way.
LEMMA MoveTotals ==
  ASSUME TypeOK, TypeOK', NEW r \in Requests, OnlyMoves(r)
  PROVE  /\ Transits' = Transits - InTransit(r) + InTransit(r)'
         /\ Uncredits' = Uncredits - Uncredited(r) + Uncredited(r)'
<1> DEFINE f == [s \in Requests |-> InTransit(s)]
           g == [s \in Requests |-> Uncredited(s)]
<1>1. ASSUME NEW s \in Requests \ {r}
      PROVE  InTransit(s)' = InTransit(s) /\ Uncredited(s)' = Uncredited(s)
  BY DEF OnlyMoves, InTransit, Uncredited, Busy
<1>2. /\ \A s \in Requests : f[s] \in Int
      /\ \A s \in Requests \ {r} : f'[s] = f[s]
      /\ f'[r] \in Int
  BY <1>1 DEF InTransit
<1>5. /\ \A s \in Requests : g[s] \in Int
      /\ \A s \in Requests \ {r} : g'[s] = g[s]
      /\ g'[r] \in Int
  BY <1>1 DEF Uncredited
<1>6. /\ f[r] = InTransit(r) /\ f'[r] = InTransit(r)'
      /\ g[r] = Uncredited(r) /\ g'[r] = Uncredited(r)'
  OBVIOUS
<1>3. /\ Transits = SumFunctionOnSet(f, Requests)
      /\ Transits' = SumFunctionOnSet(f', Requests)
      /\ Uncredits = SumFunctionOnSet(g, Requests)
      /\ Uncredits' = SumFunctionOnSet(g', Requests)
  BY DEF Transits, Uncredits, SumFunction
<1> HIDE DEF f, g
<1>4. SumFunctionOnSet(f', Requests) = SumFunctionOnSet(f, Requests) - f[r] + f'[r]
  BY <1>2, AllFinite, SumChange
<1>7. SumFunctionOnSet(g', Requests) = SumFunctionOnSet(g, Requests) - g[r] + g'[r]
  BY <1>5, AllFinite, SumChange
<1> QED
  BY <1>3, <1>4, <1>6, <1>7

Delivers(m) == delivered' = [delivered EXCEPT ![m] = @ + 1]

\* A delivery counts one.
LEMMA DeliveryTotals ==
  ASSUME TypeOK, NEW m \in Messages, Delivers(m)
  PROVE  Deliveries' = Deliveries + 1
<1>1. /\ delivered \in [Messages -> Nat] /\ DOMAIN delivered = Messages
      /\ DOMAIN delivered' = Messages
      /\ \A n \in Messages : delivered[n] \in Int
      /\ \A n \in Messages \ {m} : delivered'[n] = delivered[n]
      /\ delivered'[m] \in Int
  BY DEF TypeOK, Delivers
<1>4. delivered'[m] = delivered[m] + 1 /\ delivered[m] \in Int
  BY DEF TypeOK, Delivers
<1>2. SumFunctionOnSet(delivered', Messages)
        = SumFunctionOnSet(delivered, Messages) - delivered[m] + delivered'[m]
  BY <1>1, AllFinite, SumChange
<1>3. /\ Deliveries = SumFunctionOnSet(delivered, Messages)
      /\ Deliveries' = SumFunctionOnSet(delivered', Messages)
      /\ Deliveries \in Nat
  BY <1>1, TotalsOver DEF Deliveries, SumFunction
<1> QED
  BY <1>2, <1>3, <1>4

\* Writing the counters of a day sets its part of what is recorded.
LEMMA WriteTotals ==
  ASSUME TypeOK, TypeOK', NEW r \in Requests, Writes(r)
  PROVE  /\ req[r].day \in Days /\ req[r].spent.daily \in Nat
         /\ (\A d \in Days : spendFor(d)'.daily =
               IF d = req[r].day THEN req[r].spent.daily + 1 ELSE spendFor(d).daily)
         /\ Recorded' = Recorded - spendFor(req[r].day).daily + (req[r].spent.daily + 1)
<1> DEFINE e == req[r].day
           n == req[r].spent.daily + 1
           f == [d \in Days |-> spendFor(d).daily]
<1>1. e \in Days /\ req[r].spent.daily \in Nat
  BY BusyHasRequest DEF Writes, At, Request, Spend
<1>2. /\ spend \in [Days -> Spend \cup {None}] /\ spend' \in [Days -> Spend \cup {None}]
      /\ spend' = [spend EXCEPT ![e] = [daily |-> n, monthly |-> req[r].spent.monthly + 1]]
  BY DEF TypeOK, Writes
<1> HIDE DEF e, n
<1>3. spend'[e] # None /\ spend'[e].daily = n
  <2>1. spend'[e] = [daily |-> n, monthly |-> req[r].spent.monthly + 1]
    BY <1>1, <1>2
  <2>2. [daily |-> n, monthly |-> req[r].spent.monthly + 1] \in Spend
    BY <1>1, BusyHasRequest DEF Writes, At, Request, Spend, n
  <2> QED
    BY <2>1, <2>2, MessagingConstants
<1>4. ASSUME NEW d \in Days
      PROVE  spendFor(d)'.daily = IF d = e THEN n ELSE spendFor(d).daily
  BY <1>1, <1>2, <1>3 DEF spendFor
<1>5. /\ \A d \in Days : f[d] \in Int
      /\ \A d \in Days \ {e} : f'[d] = f[d]
      /\ f'[e] \in Int
  BY <1>1, <1>4, SpendsAreCounts DEF Spend, n
<1>8. f[e] = spendFor(e).daily /\ f'[e] = n
  BY <1>1, <1>4
<1>6. Recorded = SumFunctionOnSet(f, Days) /\ Recorded' = SumFunctionOnSet(f', Days)
  BY DEF Recorded, SumFunction
<1> HIDE DEF f
<1>7. SumFunctionOnSet(f', Days) = SumFunctionOnSet(f, Days) - f[e] + f'[e]
  BY <1>1, <1>5, AllFinite, SumChange
<1> QED
  BY <1>1, <1>4, <1>6, <1>7, <1>8 DEF e, n

-----------------------------------------------------------------------------
(* The counters never claim more than was delivered *)

\* A step without a reading keeps the backing as it is.
LEMMA BackedStays ==
  ASSUME TypeOK, TypeOK', NEW r \in Requests, OnlyMoves(r), ~At(r, "bump")',
         NEW h \in [Days -> Nat], Backed(h),
         Deliveries' - Deliveries >= InTransit(r)' - InTransit(r),
         \A d \in Days : spendFor(d)'.daily <= h[d]
  PROVE  NeverOver'
<1>1. SumFunctionOnSet(h, Days) \in Nat
  BY AllFinite, SumNat
<1>2. /\ Transits' = Transits - InTransit(r) + InTransit(r)'
      /\ Transits \in Nat /\ Deliveries \in Nat /\ Transits' \in Nat /\ Deliveries' \in Nat
      /\ InTransit(r) \in Int /\ InTransit(r)' \in Int
  <2>1. InTransit(r) \in Int /\ InTransit(r)' \in Int
    BY DEF InTransit
  <2> QED
    BY <2>1, MoveTotals, TotalsAreCounts, LaterTotals DEF TotalsTyped
<1>3. SumFunctionOnSet(h, Days) + Transits' <= Deliveries'
  BY <1>1, <1>2 DEF Backed
<1>4. \A s \in Requests : At(s, "bump")' =>
        req'[s].spent.daily + 1 <= h[req'[s].day]
  BY DEF OnlyMoves, At, Busy, Backed
<1> QED
  BY <1>3, <1>4 DEF NeverOver, Backed

LEMMA NeverOverStep ==
  ASSUME TypeOK, TypeOK', NEW r \in Requests, Kinds(r), NeverOver
  PROVE  NeverOver'
<1> PICK h \in [Days -> Nat] : Backed(h)
  BY DEF NeverOver
<1>1. /\ OnlyMoves(r)
      /\ \A d \in Days : spendFor(d).daily <= h[d]
      /\ Deliveries \in Nat /\ Deliveries' \in Nat
      /\ InTransit(r) \in {0, 1}
  BY TotalsAreCounts, LaterTotals DEF Kinds, Backed, InTransit, TotalsTyped
<1>2. CASE Passes(r)
  <2>1. UNCHANGED <<Deliveries, spend>> /\ InTransit(r)' = InTransit(r) /\ ~At(r, "bump")'
    BY <1>2 DEF Passes, Deliveries
  <2>2. \A d \in Days : spendFor(d)' = spendFor(d)
    BY <2>1 DEF spendFor
  <2> QED
    BY <1>1, <2>1, <2>2, BackedStays
<1>3. CASE Accepts(r)
  <2>1. /\ Deliveries' = Deliveries + 1
        /\ UNCHANGED spend /\ InTransit(r) = 0 /\ InTransit(r)' = 1 /\ ~At(r, "bump")'
    BY <1>3, DeliveryTotals DEF Accepts, Delivers
  <2>2. \A d \in Days : spendFor(d)' = spendFor(d)
    BY <2>1 DEF spendFor
  <2>3. Deliveries' - Deliveries >= InTransit(r)' - InTransit(r)
    BY <1>1, <2>1
  <2> QED
    BY <1>1, <2>1, <2>2, <2>3, BackedStays
<1>7. CASE Misses(r)
  <2>1. /\ Deliveries' = Deliveries + 1
        /\ UNCHANGED spend /\ InTransit(r) = 0 /\ InTransit(r)' = 0 /\ ~At(r, "bump")'
    BY <1>7, DeliveryTotals DEF Misses, Delivers
  <2>2. \A d \in Days : spendFor(d)' = spendFor(d)
    BY <2>1 DEF spendFor
  <2>3. Deliveries' - Deliveries >= InTransit(r)' - InTransit(r)
    BY <1>1, <2>1
  <2> QED
    BY <1>1, <2>1, <2>2, <2>3, BackedStays
<1>4. CASE Reads(r)
  <2>1. PICK d \in Days : /\ req'[r].day = d /\ req'[r].spent.daily \in Nat
                          /\ req'[r].spent.daily <= spendFor(d).daily
    BY <1>4 DEF Reads
  <2> DEFINE g == [h EXCEPT ![d] = @ + 1]
  <2>2. /\ UNCHANGED <<Deliveries, spend>>
        /\ InTransit(r) = 1 /\ InTransit(r)' = 0
    BY <1>4 DEF Reads, Deliveries
  <2>3. Transits' = Transits - 1 /\ Transits \in Nat
    <3>1. Transits' = Transits - InTransit(r) + InTransit(r)' /\ Transits \in Nat
      BY <1>1, MoveTotals, TotalsAreCounts DEF TotalsTyped
    <3> QED
      BY <2>2, <3>1
  <2>4. /\ g \in [Days -> Nat] /\ g[d] = h[d] + 1
        /\ \A e \in Days : h[e] <= g[e] /\ h[e] \in Nat /\ g[e] \in Nat
        /\ \A e \in Days \ {d} : g[e] = h[e]
    OBVIOUS
  <2> HIDE DEF g
  <2>5. SumFunctionOnSet(g, Days) = SumFunctionOnSet(h, Days) + 1
        /\ SumFunctionOnSet(h, Days) \in Nat
    <3>1. SumFunctionOnSet(g, Days) = SumFunctionOnSet(h, Days) - h[d] + g[d]
      BY <2>4, AllFinite, SumChange
    <3>2. SumFunctionOnSet(h, Days) \in Nat
      BY <2>4, AllFinite, SumNat
    <3> QED
      BY <2>4, <3>1, <3>2
  <2>6. SumFunctionOnSet(g, Days) + Transits' <= Deliveries'
    BY <1>1, <2>2, <2>3, <2>5 DEF Backed
  <2>7. ASSUME NEW e \in Days PROVE spendFor(e)'.daily <= g[e]
    <3>1. spendFor(e)' = spendFor(e) /\ spendFor(e).daily \in Nat
      BY <2>2, SpendsAreCounts DEF spendFor, Spend
    <3> QED
      BY <1>1, <2>4, <3>1
  <2>8. ASSUME NEW s \in Requests, At(s, "bump")'
        PROVE  req'[s].spent.daily + 1 <= g[req'[s].day]
    <3>1. CASE s = r
      <4>1. spendFor(d).daily <= h[d] /\ spendFor(d).daily \in Nat
        BY <1>1, SpendsAreCounts DEF Spend
      <4> QED
        BY <2>1, <2>4, <3>1, <4>1
    <3>2. CASE s # r
      <4>1. At(s, "bump") /\ req'[s] = req[s]
        BY <1>1, <2>8, <3>2 DEF OnlyMoves, At, Busy
      <4>2. req[s].day \in Days /\ req[s].spent.daily \in Nat
        BY <4>1, BusyHasRequest DEF At, Request, Spend
      <4>3. req[s].spent.daily + 1 <= h[req[s].day]
        BY <4>1 DEF Backed
      <4> QED
        BY <2>4, <4>1, <4>2, <4>3
    <3> QED
      BY <3>1, <3>2
  <2> QED
    BY <2>4, <2>6, <2>7, <2>8 DEF NeverOver, Backed
<1>5. CASE Writes(r)
  <2>1. /\ UNCHANGED Deliveries /\ InTransit(r) = 0 /\ InTransit(r)' = 0
        /\ ~At(r, "bump")' /\ At(r, "bump")
    BY <1>5 DEF Writes, Deliveries
  <2>2. req[r].spent.daily + 1 <= h[req[r].day]
    BY <2>1 DEF Backed
  <2>3. \A d \in Days : spendFor(d)'.daily <= h[d]
    BY <1>1, <1>5, <2>2, WriteTotals
  <2> QED
    BY <1>1, <2>1, <2>3, BackedStays
<1>6. CASE Drops(r)
  <2>1. /\ UNCHANGED <<Deliveries, spend>> /\ InTransit(r)' = 0 /\ ~At(r, "bump")'
    BY <1>6 DEF Drops, Deliveries
  <2>2. \A d \in Days : spendFor(d)' = spendFor(d)
    BY <2>1 DEF spendFor
  <2>3. Deliveries' - Deliveries >= InTransit(r)' - InTransit(r)
    BY <1>1, <2>1
  <2> QED
    BY <1>1, <2>1, <2>2, <2>3, BackedStays
<1> QED
  BY <1>2, <1>3, <1>4, <1>5, <1>6, <1>7 DEF Kinds

-----------------------------------------------------------------------------
(* One at a time, they claim all that was delivered *)

\* What Exact says about a request that is going to write the counters.
AboutToWrite(r) ==
  At(r, "bump") => req[r].spent.daily = spendFor(req[r].day).daily

\* A step that keeps the counters and the other requests keeps what these are
\* going to write.
LEMMA OthersKeep ==
  ASSUME NEW r \in Requests, OnlyMoves(r), UNCHANGED spend,
         \A s \in Requests : AboutToWrite(s)
  PROVE  \A s \in Requests : s # r => AboutToWrite(s)'
BY DEF OnlyMoves, AboutToWrite, At, Busy, spendFor

LEMMA ExactStep ==
  ASSUME IInv, IInv', alone' = alone, NEW r \in Requests, Kinds(r), Exact
  PROVE  Exact'
<1> SUFFICES ASSUME alone, lost' = 0
             PROVE  /\ Recorded' + Uncredits' = Deliveries'
                    /\ \A s \in Requests : AboutToWrite(s)'
  BY DEF Exact, AboutToWrite
<1>1. /\ TypeOK /\ TypeOK' /\ lost \in Nat
      /\ OnlyMoves(r)
      /\ Uncredited(r) \in {0, 1} /\ Uncredited(r)' \in {0, 1}
  BY DEF IInv, TypeOK, Kinds, Uncredited
<1>2. /\ Recorded \in Nat /\ Uncredits \in Nat /\ Deliveries \in Nat
      /\ Uncredits' = Uncredits - Uncredited(r) + Uncredited(r)'
  BY <1>1, TotalsAreCounts, MoveTotals DEF TotalsTyped
<1>3. ASSUME lost = 0
      PROVE  /\ Recorded + Uncredits = Deliveries
             /\ \A s \in Requests : AboutToWrite(s)
  BY <1>3 DEF Exact, AboutToWrite
<1>4. CASE Passes(r)
  <2>1. /\ lost = 0 /\ UNCHANGED <<Deliveries, Recorded, spend>>
        /\ Uncredited(r)' = Uncredited(r) /\ ~At(r, "bump")'
    BY <1>1, <1>4 DEF Passes, Deliveries, Recorded, spendFor
  <2>2. Recorded' + Uncredits' = Deliveries'
    <3>1. Uncredits' = Uncredits
      BY <1>1, <1>2, <2>1
    <3>2. Recorded' = Recorded /\ Deliveries' = Deliveries /\ Recorded + Uncredits = Deliveries
      BY <1>3, <2>1
    <3> QED
      BY <3>1, <3>2
  <2>3. AboutToWrite(r)'
    BY <2>1 DEF AboutToWrite
  <2> QED
    BY <1>1, <1>3, <2>1, <2>2, <2>3, OthersKeep
<1>5. CASE Accepts(r)
  <2>1. /\ lost = 0 /\ Deliveries' = Deliveries + 1 /\ UNCHANGED <<Recorded, spend>>
        /\ Uncredited(r) = 0 /\ Uncredited(r)' = 1 /\ ~At(r, "bump")'
    BY <1>1, <1>5, DeliveryTotals DEF Accepts, Delivers, Recorded, spendFor
  <2>2. Recorded' + Uncredits' = Deliveries'
    BY <1>1, <1>2, <1>3, <2>1
  <2>3. AboutToWrite(r)'
    BY <2>1 DEF AboutToWrite
  <2> QED
    BY <1>1, <1>3, <2>1, <2>2, <2>3, OthersKeep
<1>6. CASE Reads(r)
  <2>1. /\ lost = 0 /\ UNCHANGED <<Deliveries, Recorded, spend>>
        /\ Uncredited(r)' = Uncredited(r)
    BY <1>1, <1>6 DEF Reads, Deliveries, Recorded, spendFor
  <2>2. Recorded' + Uncredits' = Deliveries'
    <3>1. Uncredits' = Uncredits
      BY <1>1, <1>2, <2>1
    <3>2. Recorded' = Recorded /\ Deliveries' = Deliveries /\ Recorded + Uncredits = Deliveries
      BY <1>3, <2>1
    <3> QED
      BY <3>1, <3>2
  <2>3. AboutToWrite(r)'
    <3>1. req'[r].spent.daily = spendFor(req'[r].day).daily
      BY <1>6, <2>1 DEF Reads
    <3> QED
      BY <2>1, <3>1 DEF AboutToWrite, spendFor
  <2> QED
    BY <1>1, <1>3, <2>1, <2>2, <2>3, OthersKeep
<1>7. CASE Writes(r)
  <2>1. /\ lost = 0 /\ UNCHANGED Deliveries /\ At(r, "bump") /\ ~At(r, "bump")'
        /\ Uncredited(r) = 1 /\ Uncredited(r)' = 0
    BY <1>1, <1>7 DEF Writes, Deliveries
  <2>2. Recorded' = Recorded + 1
    <3>1. /\ req[r].spent.daily = spendFor(req[r].day).daily
          /\ req[r].spent.daily \in Nat
      BY <1>1, <1>3, <2>1, BusyHasRequest DEF AboutToWrite, At, Request, Spend
    <3>2. Recorded' = Recorded - spendFor(req[r].day).daily + (req[r].spent.daily + 1)
      BY <1>1, <1>7, WriteTotals
    <3> QED
      BY <1>2, <3>1, <3>2
  <2>3. Recorded' + Uncredits' = Deliveries'
    BY <1>1, <1>2, <1>3, <2>1, <2>2
  <2>4. \A s \in Requests : ~At(s, "bump")'
    <3>1. \A s \in Requests : s # r => ~Busy(s)
      BY <2>1 DEF IInv, OneAtATime, At
    <3> QED
      BY <1>1, <2>1, <3>1 DEF OnlyMoves, At, Busy
  <2> QED
    BY <2>3, <2>4 DEF AboutToWrite
<1>8. CASE Drops(r) \/ Misses(r)
  BY <1>1, <1>8 DEF Drops, Misses
<1> QED
  BY <1>4, <1>5, <1>6, <1>7, <1>8 DEF Kinds

LEMMA SpendInitially == Init => SpendInv
<1> SUFFICES ASSUME Init PROVE SpendInv
  OBVIOUS
<1>1. IInv /\ TypeOK
  BY Initially DEF IInv
<1>2. /\ \A m \in Messages : delivered[m] = 0
      /\ \A r \in Requests : ~Busy(r)
      /\ \A d \in Days : spendFor(d) = Nothing
  BY DEF Init, Busy, spendFor
<1>3. Deliveries = 0
  BY <1>1, <1>2, AllFinite, TotalsOver, SumZero
<1>4. \A r \in Requests : [s \in Requests |-> InTransit(s)][r] = 0
  BY <1>2 DEF InTransit
<1>5. \A r \in Requests : [s \in Requests |-> Uncredited(s)][r] = 0
  BY <1>2 DEF Uncredited
<1>6. \A d \in Days : [e \in Days |-> spendFor(e).daily][d] = 0
  BY <1>2 DEF Nothing
<1>7. Transits = 0
  BY <1>1, <1>4, AllFinite, TotalsOver, SumZero
<1>8. Uncredits = 0
  BY <1>1, <1>5, AllFinite, TotalsOver, SumZero
<1>9. Recorded = 0
  BY <1>1, <1>6, AllFinite, TotalsOver, SumZero
<1>10. NeverOver
  <2> DEFINE none == [d \in Days |-> 0]
  <2>1. none \in [Days -> Nat] /\ \A d \in Days : none[d] = 0
    OBVIOUS
  <2> HIDE DEF none
  <2>2. SumFunctionOnSet(none, Days) = 0
    BY <2>1, AllFinite, SumZero
  <2>3. Backed(none)
    BY <1>2, <1>3, <1>7, <2>1, <2>2 DEF Backed, At, Nothing
  <2> QED
    BY <2>1, <2>3 DEF NeverOver
<1>11. Exact
  BY <1>2, <1>3, <1>8, <1>9 DEF Exact, At
<1> QED
  BY <1>1, <1>10, <1>11 DEF SpendInv

LEMMA SpendKeeps == SpendInv /\ [Next]_vars => SpendInv'
<1> SUFFICES ASSUME SpendInv, [Next]_vars PROVE SpendInv'
  OBVIOUS
<1>1. IInv /\ IInv' /\ TypeOK /\ TypeOK' /\ NeverOver /\ Exact
  BY StepsKeep DEF SpendInv, IInv
<1>2. /\ alone' = alone
      /\ \/ UNCHANGED <<delivered, spend, lost, req>>
         \/ \E r \in Requests : Kinds(r)
  BY <1>1, StepKinds
<1>3. CASE UNCHANGED <<delivered, spend, lost, req>>
  <2>1. UNCHANGED <<Deliveries, Recorded, Transits, Uncredits>>
    BY <1>3 DEF Deliveries, Recorded, Transits, Uncredits, InTransit, Uncredited, spendFor,
                Busy, Delivering
  <2>2. NeverOver'
    BY <1>1, <1>3, <2>1 DEF NeverOver, Backed, At, Busy, spendFor
  <2>3. Exact'
    BY <1>1, <1>2, <1>3, <2>1 DEF Exact, At, Busy, spendFor
  <2> QED
    BY <1>1, <2>2, <2>3 DEF SpendInv
<1>4. ASSUME NEW r \in Requests, Kinds(r)
      PROVE  SpendInv'
  <2>1. NeverOver'
    BY <1>1, <1>4, NeverOverStep
  <2>2. Exact'
    BY <1>1, <1>2, <1>4, ExactStep
  <2> QED
    BY <1>1, <2>1, <2>2 DEF SpendInv
<1> QED
  BY <1>2, <1>3, <1>4

\* However requests overlap and whichever of them, of their readings or of the
\* provider's answers are lost, the counters of the days never claim more messages than
\* the provider has taken; and once requests that came one at a time are done, nothing
\* lost, exactly as many.
THEOREM SpendStaysTrue == Spec => []SpendAgrees
<1>1. SpendInv => SpendAgrees
  <2> SUFFICES ASSUME SpendInv PROVE SpendAgrees
    OBVIOUS
  <2>1. /\ TypeOK /\ Exact
        /\ Deliveries \in Nat /\ Transits \in Nat /\ Uncredits \in Nat /\ Recorded \in Nat
    BY TotalsAreCounts DEF SpendInv, IInv, TotalsTyped
  <2>2. Recorded <= Deliveries
    <3> PICK h \in [Days -> Nat] : Backed(h)
      BY DEF SpendInv, NeverOver
    <3> DEFINE f == [d \in Days |-> spendFor(d).daily]
    <3>1. \A d \in Days : f[d] \in Int /\ h[d] \in Int /\ f[d] <= h[d]
      BY <2>1, SpendsAreCounts DEF Backed, Spend
    <3>2. Recorded = SumFunctionOnSet(f, Days)
      BY <2>1, TotalsOver
    <3> HIDE DEF f
    <3>3. SumFunctionOnSet(f, Days) <= SumFunctionOnSet(h, Days)
      BY <3>1, AllFinite, SumAtMost
    <3>4. SumFunctionOnSet(h, Days) \in Nat
      BY AllFinite, SumNat
    <3> QED
      BY <2>1, <3>2, <3>3, <3>4 DEF Backed
  <2>3. ASSUME alone, Quiet, lost = 0 PROVE Recorded = Deliveries
    <3>1. \A r \in Requests : [s \in Requests |-> Uncredited(s)][r] = 0
      BY <2>3 DEF Quiet, Uncredited
    <3>2. Uncredits = 0
      BY <2>1, <3>1, AllFinite, TotalsOver, SumZero
    <3> QED
      BY <2>1, <2>3, <3>2 DEF Exact
  <2> QED
    BY <2>2, <2>3 DEF SpendAgrees
<1> QED
  BY <1>1, SpendInitially, SpendKeeps, PTL DEF Spec
=============================================================================

---------------------- MODULE SubscriptionLedgerProofs ----------------------
(***************************************************************************)
(* Proofs about the usage ledger, for any set of subscriptions, plans and  *)
(* requests.                                                               *)
(*                                                                         *)
(* IInv holds at every isolation level: the rows, and the snapshots that   *)
(* open transactions read, are aligned to the plan's windows and within    *)
(* the plan's limits, and a session, its record and the charge agree.      *)
(* SerialInv needs transactions that fail on a conflict: a row that        *)
(* commits was read as it still is, so that windows only move on, and the  *)
(* counters are the sums of the charges of the current window.             *)
(***************************************************************************)
EXTENDS SubscriptionLedger, SumTheorems

(* The control points of a request with an open transaction, and what such a
   transaction has read *)
TxPoints == {"holding", "settling", "refunding"}
OpenTx == [open : {TRUE}, rows : [Subs -> RowType], at : Nat]
OpenJob == [open : {TRUE}, rows : [Subs -> RowType], at : Nat, s : Subs, clock : Nat]
RoundType == [at : Nat, due : SUBSET [sub : Subs, next : Nat]]

(* The window of row x of subscription s is one of the windows that begin by time t. *)
Aligned(s, x, t) ==
    /\ Plan[s].period = 0 => x.last = 0 /\ x.next = 0
    /\ Plan[s].period > 0 /\ x.last = 0 => x.next = 0 /\ NextReset(s, StartTime) = 0
    /\ Plan[s].period > 0 /\ x.last > 0 =>
         /\ (x.last - StartTime) % Plan[s].period = 0
         /\ x.last <= t /\ (Plan[s].end > 0 => x.last <= Plan[s].end)
         /\ x.next = NextReset(s, x.last)

(* A row stays within the limits of its plan. *)
Bounded(s, x) ==
    /\ Plan[s].amountTotal > 0 => x.amt <= Plan[s].amountTotal
    /\ HasLifetimeLimit(s) => x.cnt <= Plan[s].countTotal
    /\ PeriodLimit(s) > 0 => CurrentCount(s, x) <= PeriodLimit(s)

RowGood(s, x, t) == Aligned(s, x, t) /\ Bounded(s, x)

(* A clock that was read *)
Past(t) == StartTime <= t /\ t <= now

(* The clock of a pre-consume *)
Clocked(q) == q.pc \in {"clocked", "holding"} => Past(q.heldAt)

(* The clock of a round of resets *)
RoundGood == round.due # {} => Past(round.at)

RowsInv ==
    /\ \A s \in Subs : RowGood(s, sub[s], now)
    /\ \A r \in Requests : Clocked(req[r])
    /\ RoundGood
    /\ \A r \in Requests : req[r].pc \in TxPoints =>
         /\ tx[r] \in OpenTx /\ StartTime <= tx[r].at /\ tx[r].at <= now
         /\ \A s \in Subs : RowGood(s, tx[r].rows[s], tx[r].at)
    /\ job.open => /\ job \in OpenJob /\ Past(job.at) /\ Past(job.clock)
                   /\ \A s \in Subs : RowGood(s, job.rows[s], job.at)

(* What a session and the record of a request know of the charge. *)
Knows(p, q, c, d) ==
    /\ d.amt >= 0
    /\ d.sub = NoSub => d = Unpaid
    /\ c.status # "none" => c.sub \in Subs /\ c.created >= StartTime
    /\ p \in {"held", "settling"} => q.sub \in Subs /\ q.sub = d.sub
    /\ p \in {"held", "settling"} => q.pre = d.amt
    /\ p \in {"new", "clocked", "holding"} => q.sub = NoSub
    /\ p \in {"new", "clocked", "holding"} /\ c.status = "none" => d = Unpaid
    /\ p \in {"new", "clocked", "holding", "held", "refunding"} /\ c.status = "consumed" =>
         c.sub = d.sub /\ c.amt = d.amt /\ c.cnt = d.cnt
    /\ p = "held" => /\ q.ws <= q.heldAt \/ q.ws <= q.readAt
                     /\ q.we > 0 => q.heldAt < q.we
    /\ p \in {"held", "settling"} => q.ws > 0

SessionInv == \A r \in Requests : Knows(req[r].pc, req[r], rec[r], paid[r])

IInv == TypeOK /\ RowsInv /\ SessionInv

(* Before its first window a row with a period has counted nothing. *)
Fresh(s, x) == Plan[s].period > 0 /\ x.last = 0 => x.amt = 0 /\ x.cnt = 0 /\ x.per = 0

(* The charge of request r lies in a window that has begun. *)
Charged(r) ==
    paid[r].sub # NoSub =>
        /\ paid[r].win <= sub[paid[r].sub].last
        /\ Plan[paid[r].sub].period > 0 => paid[r].win > 0

(* The accounts of one subscription: UsageExact, NeverOvercounted and
   LifetimeExact, for s. *)
Accounts(s) ==
    /\ strayed[s] = {} =>
        /\ Plan[s].amountTotal > 0 => sub[s].amt = AmountOf(s)
        /\ PeriodLimit(s) > 0 => CurrentCount(s, sub[s]) = CountOf(s)
    /\ strayed[s] \subseteq {"refund"} =>
        /\ Plan[s].amountTotal > 0 => sub[s].amt <= AmountOf(s)
        /\ PeriodLimit(s) > 0 => CurrentCount(s, sub[s]) <= CountOf(s)
    /\ HasLifetimeLimit(s) => sub[s].cnt = LifetimeCountOf(s)

(* The invariant of transactions that fail on a conflict *)
SerialInv ==
    /\ \A s \in Subs : Fresh(s, sub[s]) /\ Accounts(s) /\ "settle" \notin strayed[s]
    /\ \A r \in Requests : Charged(r)

-----------------------------------------------------------------------------
(* Reset windows *)

(* A multiple of the period is divided by it without remainder. *)
LEMMA Multiple == ASSUME NEW k \in Int, NEW p \in Nat \ {0} PROVE (k * p) % p = 0
OBVIOUS

(* A number without remainder is such a multiple. *)
LEMMA IsMultiple == ASSUME NEW a \in Int, NEW p \in Nat \ {0}, a % p = 0 PROVE a = (a \div p) * p
OBVIOUS

(* Whole periods do not change the remainder. *)
LEMMA AddPeriods ==
  ASSUME NEW a \in Int, NEW k \in Int, NEW p \in Nat \ {0}, a % p = 0
  PROVE  (a + k * p) % p = 0
<1> DEFINE m == a \div p
<1>1. m \in Int /\ a = m * p
  BY IsMultiple
<1>2. a + k * p = (m + k) * p /\ m + k \in Int
  BY <1>1
<1> QED BY <1>2, Multiple

(* The whole periods in a span of time a. *)
LEMMA WholePeriods ==
  ASSUME NEW a \in Nat, NEW p \in Nat \ {0}
  PROVE  /\ a \div p \in Nat /\ (a \div p) * p \in Nat
         /\ (a \div p) * p <= a /\ a < (a \div p) * p + p
OBVIOUS

(* A span shorter than the period has none. *)
LEMMA NoWholePeriod ==
  ASSUME NEW a \in Nat, NEW p \in Nat \ {0}, a < p
  PROVE  (a \div p) * p = 0
OBVIOUS

(* What a plan's numbers are. *)
LEMMA PlanFacts ==
  ASSUME NEW s \in Subs
  PROVE  /\ Plan[s].resource \in {"quota", "request_count"}
         /\ Plan[s].amountTotal \in Nat /\ Plan[s].countTotal \in Nat
         /\ Plan[s].periodTotal \in Nat /\ Plan[s].period \in Nat /\ Plan[s].end \in Nat
         /\ Plan[s].end > 0 => Plan[s].end >= StartTime
         /\ s \in Nat /\ s # NoSub
BY LedgerAssumption DEF PlanType, NoSub

(* The next reset is a time after the base, or none. *)
LEMMA NextResetFacts ==
  ASSUME NEW s \in Subs, NEW b \in Nat
  PROVE  /\ NextReset(s, b) \in Nat
         /\ NextReset(s, b) > 0 =>
              /\ NextReset(s, b) = b + Plan[s].period
              /\ Plan[s].end > 0 => NextReset(s, b) <= Plan[s].end
         /\ NextReset(s, b) = 0 /\ Plan[s].period > 0 =>
              Plan[s].end > 0 /\ b + Plan[s].period > Plan[s].end
BY PlanFacts DEF NextReset

(* The window LastReset finds is a window of the plan and contains t, or is
   the plan's last one. *)
LEMMA LastResetFacts ==
  ASSUME NEW s \in Subs, Plan[s].period > 0, NEW b \in Nat, StartTime <= b, NEW t \in Nat, b <= t,
         Plan[s].end > 0 => b <= Plan[s].end, (b - StartTime) % Plan[s].period = 0
  PROVE  /\ LastReset(s, b, t) \in Nat
         /\ b <= LastReset(s, b, t) /\ LastReset(s, b, t) <= t
         /\ Plan[s].end > 0 => LastReset(s, b, t) <= Plan[s].end
         /\ (LastReset(s, b, t) - StartTime) % Plan[s].period = 0
         /\ NextReset(s, LastReset(s, b, t)) = 0 \/ NextReset(s, LastReset(s, b, t)) > t
         /\ NextReset(s, b) = 0 => LastReset(s, b, t) = b
<1> DEFINE p == Plan[s].period
           e == Plan[s].end
           stop == IF e > 0 /\ e < t THEN e ELSE t
           a == stop - b
           k == a \div p
           l == b + k * p
<1>1. p \in Nat \ {0} /\ e \in Nat
  BY PlanFacts
<1>2. stop \in Nat /\ b <= stop /\ stop <= t /\ (e > 0 => stop <= e) /\ (stop = t \/ (stop = e /\ e > 0))
  BY <1>1
<1> HIDE DEF stop
<1>3. a \in Nat
  BY <1>2
<1> HIDE DEF a
<1>4. k \in Nat /\ k * p \in Nat /\ k * p <= a /\ a < k * p + p
  BY <1>1, <1>3, WholePeriods
<1>5. LastReset(s, b, t) = l
  <2>1. LastReset(s, b, t) = IF stop <= b THEN b ELSE b + ((stop - b) \div p) * p
    BY DEF LastReset, stop
  <2>2. CASE stop <= b
    <3>1. a = 0
      BY <1>2, <2>2 DEF a
    <3>2. k * p = 0
      BY <1>1, <1>3, <3>1, NoWholePeriod
    <3> QED BY <2>1, <2>2, <3>2
  <2>3. CASE ~ (stop <= b)
    BY <2>1, <2>3 DEF a
  <2> QED BY <2>2, <2>3
<1>6. (l - StartTime) % p = 0
  <2>1. b - StartTime \in Int /\ StartTime \in Int /\ (b - StartTime) % p = 0
    BY DEF StartTime
  <2> DEFINE d == b - StartTime
  <2>2. d \in Int /\ k \in Int /\ d % p = 0
    BY <1>4, <2>1
  <2> HIDE DEF k, p, d
  <2>3. (d + k * p) % p = 0
    BY <1>1, <2>2, AddPeriods
  <2>4. d + k * p = l - StartTime
    BY <1>4, <2>1 DEF d
  <2> QED BY <2>3, <2>4
<1> HIDE DEF k
<1> DEFINE kp == k * p
<1>7. kp \in Nat /\ kp <= a /\ a < kp + p /\ l = b + kp
  BY <1>4
<1> HIDE DEF kp, l
<1>8. l \in Nat /\ b <= l /\ l <= stop /\ stop < l + p
  BY <1>1, <1>2, <1>7 DEF a
<1>9. l <= t /\ (e > 0 => l <= e)
  BY <1>1, <1>2, <1>8
<1>10. NextReset(s, l) = 0 \/ NextReset(s, l) > t
  <2>1. NextReset(s, l) \in Nat /\ (NextReset(s, l) > 0 => NextReset(s, l) = l + p
           /\ (e > 0 => NextReset(s, l) <= e))
    BY <1>8, NextResetFacts
  <2> QED BY <1>1, <1>2, <1>8, <2>1
<1>11. NextReset(s, b) = 0 => l = b
  <2> SUFFICES ASSUME NextReset(s, b) = 0 PROVE l = b
    OBVIOUS
  <2>1. e > 0 /\ b + p > e
    BY NextResetFacts, <1>1
  <2>2. a < p
    BY <1>1, <1>2, <2>1 DEF a
  <2>3. kp = 0
    BY <1>1, <1>3, <2>2, NoWholePeriod DEF kp, k
  <2> QED BY <1>7, <2>3
<1> QED BY <1>5, <1>6, <1>8, <1>9, <1>10, <1>11

-----------------------------------------------------------------------------
(* Rows *)

(* The fields of a row *)
LEMMA RowFields ==
  ASSUME NEW x \in RowType
  PROVE  /\ x.amt \in Nat /\ x.cnt \in Nat /\ x.per \in Nat /\ x.next \in Nat /\ x.last \in Nat
         /\ x.status \in {"active", "expired"}
BY DEF RowType

(* Clearing the counters of a row *)
LEMMA ClearFields ==
  ASSUME NEW x \in RowType
  PROVE  /\ LET y == [x EXCEPT !.amt = 0, !.per = 0] IN
              /\ y \in RowType /\ y.last = x.last /\ y.next = x.next /\ y.status = x.status
              /\ y.amt = 0 /\ y.cnt = x.cnt /\ y.per = 0
         /\ LET y == [x EXCEPT !.amt = 0, !.cnt = 0] IN
              /\ y \in RowType /\ y.last = x.last /\ y.next = x.next /\ y.status = x.status
              /\ y.amt = 0 /\ y.cnt = 0 /\ y.per = x.per
BY DEF RowType

(* Row y is row x of subscription s, in the same window or brought to a later
   one, which begins by time t. *)
ResetTo(s, x, y, t) ==
    /\ y \in RowType /\ y.status = x.status /\ RowGood(s, y, t)
    /\ x.last <= y.last
    /\ Plan[s].period > 0 => y.last > 0
    /\ HasLifetimeLimit(s) => y.cnt = x.cnt
    /\ y.last = x.last => y.amt = x.amt /\ y.cnt = x.cnt /\ y.per = x.per
    /\ y.last > x.last /\ Fresh(s, x) => y.amt = 0 /\ CurrentCount(s, y) = 0

(* A row that is aligned at one time is aligned later. *)
LEMMA GoodLater ==
  ASSUME NEW s \in Subs, NEW x \in RowType, NEW t0 \in Nat, NEW t \in Nat, t0 <= t, RowGood(s, x, t0)
  PROVE  RowGood(s, x, t)
BY RowFields, PlanFacts DEF RowGood, Aligned

(* maybeResetUserSubscriptionWithPlanTx moves a row to the window of the time
   given, and starts that window's usage at zero. *)
LEMMA ResetRowFacts ==
  ASSUME NEW s \in Subs, NEW x \in RowType, NEW t0 \in Nat, NEW t \in Nat,
         StartTime <= t0, t0 <= t, RowGood(s, x, t0)
  PROVE  /\ ResetTo(s, x, ResetRow(s, x, t), t)
         /\ Plan[s].period > 0 => ResetRow(s, x, t).next = 0 \/ ResetRow(s, x, t).next > t
<1> DEFINE y == ResetRow(s, x, t)
<1>1. RowGood(s, x, t)
  BY GoodLater
<1>2. Plan[s].period \in Nat /\ x.last \in Nat /\ x.next \in Nat
  BY PlanFacts, RowFields
<1>3. CASE NoWindow(s)
  <2>1. y = x
    BY <1>3 DEF ResetRow
  <2>2. Plan[s].period = 0
    BY <1>3 DEF NoWindow
  <2> QED BY <1>1, <1>2, <2>1, <2>2 DEF ResetTo
<1>4. CASE ~ NoWindow(s) /\ x.next > t
  <2>1. y = x
    BY <1>4 DEF ResetRow
  <2>2. x.last > 0
    BY <1>1, <1>2, <1>4 DEF RowGood, Aligned, NoWindow
  <2> QED BY <1>1, <1>2, <1>4, <2>1, <2>2 DEF ResetTo
<1>5. CASE ~ NoWindow(s) /\ ~ (x.next > t)
  <2> DEFINE b == IF x.last <= 0 THEN StartTime ELSE x.last
             l == LastReset(s, b, t)
             m == [x EXCEPT !.last = l, !.next = NextReset(s, l)]
  <2>1. Plan[s].period > 0
    BY <1>2, <1>5 DEF NoWindow
  <2>2. /\ b \in Nat /\ StartTime <= b /\ b <= t /\ (Plan[s].end > 0 => b <= Plan[s].end)
        /\ (b - StartTime) % Plan[s].period = 0 /\ (x.last = 0 => NextReset(s, b) = 0)
        /\ (x.last > 0 => b = x.last) /\ x.last <= b /\ b > 0
    <3>1. CASE x.last > 0
      BY <1>1, <1>2, <2>1, <3>1 DEF RowGood, Aligned, StartTime
    <3>2. CASE x.last = 0
      <4>1. b = StartTime /\ b - StartTime = 0 /\ StartTime = 1
        BY <3>2 DEF StartTime
      <4>2. (b - StartTime) % Plan[s].period = 0
        BY <1>2, <2>1, <4>1
      <4> QED BY <1>1, <2>1, <3>2, <4>1, <4>2, PlanFacts DEF RowGood, Aligned
    <3> QED BY <1>2, <3>1, <3>2
  <2> HIDE DEF b
  <2>3. /\ l \in Nat /\ b <= l /\ l <= t /\ (Plan[s].end > 0 => l <= Plan[s].end)
        /\ (l - StartTime) % Plan[s].period = 0
        /\ NextReset(s, l) = 0 \/ NextReset(s, l) > t
        /\ NextReset(s, b) = 0 => l = b
    BY <2>1, <2>2, LastResetFacts
  <2> HIDE DEF l
  <2>4. NextReset(s, l) \in Nat
    BY <2>3, NextResetFacts
  <2>5. /\ m \in RowType /\ m.last = l /\ m.next = NextReset(s, l) /\ m.status = x.status
        /\ m.amt = x.amt /\ m.cnt = x.cnt /\ m.per = x.per
    <3> DEFINE n == NextReset(s, l)
    <3> HIDE DEF n
    <3>1. n \in Nat /\ l \in Nat
      BY <2>3, <2>4 DEF n
    <3>2. LET z == [x EXCEPT !.last = l, !.next = n] IN
          /\ z \in RowType /\ z.last = l /\ z.next = n /\ z.status = x.status
          /\ z.amt = x.amt /\ z.cnt = x.cnt /\ z.per = x.per
      BY <3>1 DEF RowType
    <3> QED BY <3>2 DEF n
  <2>6. y = IF l <= b THEN m ELSE IF HasSeparatePeriodCounter(s) THEN [m EXCEPT !.amt = 0, !.per = 0]
            ELSE [m EXCEPT !.amt = 0, !.cnt = 0]
    BY <1>5, Zenon DEF ResetRow, b, l
  <2> HIDE DEF m
  <2>7. CASE l <= b
    <3>1. y = m /\ l = b
      BY <2>2, <2>3, <2>6, <2>7
    <3>2. Bounded(s, y)
      BY <1>1, <2>5, <3>1 DEF RowGood, Bounded, CurrentCount
    <3>3. Aligned(s, y, t)
      BY <2>1, <2>2, <2>3, <2>5, <3>1 DEF Aligned
    <3>4. y.last > x.last /\ Fresh(s, x) => y.amt = 0 /\ CurrentCount(s, y) = 0
      BY <1>2, <2>1, <2>2, <2>5, <3>1 DEF Fresh, CurrentCount
    <3>5. x.last <= y.last /\ y.last > 0 /\ (y.next = 0 \/ y.next > t)
      BY <2>2, <2>3, <2>5, <3>1
    <3> HIDE DEF y
    <3>6. ResetTo(s, x, y, t)
      BY <2>5, <3>1, <3>2, <3>3, <3>4, <3>5 DEF ResetTo, RowGood
    <3> QED BY <3>5, <3>6 DEF y
  <2>8. CASE ~ (l <= b)
    <3>1. x.last > 0 /\ l > x.last /\ b = x.last
      BY <1>2, <2>2, <2>3, <2>8
    <3>2. /\ y \in RowType /\ y.last = l /\ y.next = NextReset(s, l) /\ y.status = x.status
          /\ y.amt = 0 /\ CurrentCount(s, y) = 0
          /\ HasSeparatePeriodCounter(s) => y.cnt = x.cnt
      <4>1. CASE HasSeparatePeriodCounter(s)
        <5>1. y = [m EXCEPT !.amt = 0, !.per = 0]
          BY <2>6, <2>8, <4>1
        <5> QED BY <2>5, <4>1, <5>1, ClearFields DEF CurrentCount
      <4>2. CASE ~ HasSeparatePeriodCounter(s)
        <5>1. y = [m EXCEPT !.amt = 0, !.cnt = 0]
          BY <2>6, <2>8, <4>2
        <5> QED BY <2>5, <4>2, <5>1, ClearFields DEF CurrentCount
      <4> QED BY <4>1, <4>2
    <3>3. HasLifetimeLimit(s) => y.cnt = x.cnt
      BY <2>1, <3>2 DEF HasLifetimeLimit
    <3> HIDE DEF y
    <3>4. Bounded(s, y)
      BY <1>1, <2>1, <3>2, <3>3, PlanFacts DEF RowGood, Bounded, PeriodLimit
    <3>5. Aligned(s, y, t)
      BY <2>1, <2>3, <3>1, <3>2, <1>2 DEF Aligned
    <3>6. x.last <= y.last /\ y.last > 0 /\ (y.next = 0 \/ y.next > t) /\ y.last # x.last
      BY <1>2, <2>3, <3>1, <3>2
    <3>7. ResetTo(s, x, y, t)
      BY <3>2, <3>3, <3>4, <3>5, <3>6 DEF ResetTo, RowGood
    <3> QED BY <3>6, <3>7 DEF y
  <2> QED BY <2>7, <2>8
<1> QED BY <1>3, <1>4, <1>5

(* The clock may have been read before the row, which another transaction has
   moved to a later window in between: then the row stays as it is. *)
LEMMA ResetRowByClock ==
  ASSUME NEW s \in Subs, NEW x \in RowType, NEW t0 \in Nat, NEW t \in Nat, NEW n \in Nat,
         StartTime <= t0, StartTime <= t, t0 <= n, t <= n, RowGood(s, x, t0)
  PROVE  LET y == ResetRow(s, x, t) IN
         /\ ResetTo(s, x, y, n)
         /\ y.last <= t \/ y.last <= t0
         /\ Plan[s].period > 0 => y.next = 0 \/ y.next > t
<1> DEFINE y == ResetRow(s, x, t)
<1>1. x.last \in Nat /\ x.next \in Nat /\ Plan[s].period \in Nat
  BY RowFields, PlanFacts
<1>2. CASE x.last <= t
  <2>1. RowGood(s, x, t)
    BY <1>1, <1>2 DEF RowGood, Aligned
  <2>2. ResetTo(s, x, y, t) /\ (Plan[s].period > 0 => y.next = 0 \/ y.next > t)
    BY <2>1, ResetRowFacts
  <2> HIDE DEF y
  <2>3. y \in RowType /\ RowGood(s, y, t)
    BY <2>2 DEF ResetTo
  <2>4. RowGood(s, y, n)
    BY <2>3, GoodLater
  <2>5. y.last \in Nat /\ (Plan[s].period = 0 => y.last = 0)
    BY <2>3, RowFields DEF RowGood, Aligned
  <2>6. y.last <= t
    BY <1>1, <2>3, <2>5 DEF RowGood, Aligned, StartTime
  <2> QED BY <2>2, <2>4, <2>6 DEF ResetTo, y
<1>3. CASE x.last > t
  <2>1. Plan[s].period > 0 /\ x.last > 0 /\ x.next = NextReset(s, x.last) /\ x.last <= t0
    BY <1>1, <1>3 DEF RowGood, Aligned
  <2>2. x.next = 0 \/ x.next > t
    <3>1. NextReset(s, x.last) > 0 => NextReset(s, x.last) = x.last + Plan[s].period
      BY <1>1, NextResetFacts
    <3> QED BY <1>1, <1>3, <2>1, <3>1
  <2>3. y = x
    <3>1. CASE x.next > t
      BY <3>1 DEF ResetRow
    <3>2. CASE ~ (x.next > t)
      <4> DEFINE l == LastReset(s, x.last, t)
                 m == [x EXCEPT !.last = l, !.next = NextReset(s, l)]
      <4>1. l = x.last
        BY <1>1, <1>3, PlanFacts DEF LastReset
      <4>2. m = x
        BY <2>1, <4>1 DEF RowType
      <4>3. ~ NoWindow(s) /\ ~ (x.last <= 0) /\ l <= x.last
        BY <1>1, <2>1, <4>1 DEF NoWindow
      <4>4. y = m
        BY <3>2, <4>3 DEF ResetRow
      <4> QED BY <4>2, <4>4
    <3> QED BY <3>1, <3>2
  <2>4. RowGood(s, x, n)
    BY GoodLater
  <2> HIDE DEF y
  <2>5. ResetTo(s, x, y, n)
    BY <1>1, <2>1, <2>3, <2>4 DEF ResetTo
  <2> QED BY <2>1, <2>2, <2>3, <2>5 DEF y
<1> QED BY <1>1, <1>2, <1>3

(* Limits and what a request needs of them *)
LEMMA LimitFacts ==
  ASSUME NEW s \in Subs, NEW a \in Nat
  PROVE  /\ PeriodLimit(s) \in Nat /\ RequiredAmount(s, a) \in Nat /\ RequiredCount(s) \in {0, 1}
         /\ Plan[s].amountTotal > 0 => RequiredAmount(s, a) = a
         /\ HasLifetimeLimit(s) \/ PeriodLimit(s) > 0 => RequiredCount(s) = 1
         /\ PeriodLimit(s) > 0 => Plan[s].period > 0
         /\ PeriodLimit(s) > 0 /\ ~ HasSeparatePeriodCounter(s) => ~ HasLifetimeLimit(s)
BY PlanFacts DEF PeriodLimit, RequiredAmount, RequiredCount, HasLifetimeLimit

(* A hold is counted in the row, and an eligible row stays within its limits. *)
LEMMA HoldFacts ==
  ASSUME NEW s \in Subs, NEW x \in RowType, NEW a \in Nat, NEW t, Eligible(s, x, a), RowGood(s, x, t)
  PROVE  LET y == Hold(s, x, a) IN
         /\ y \in RowType /\ RowGood(s, y, t)
         /\ y.last = x.last /\ y.next = x.next /\ y.status = x.status
         /\ y.amt = x.amt + RequiredAmount(s, a)
         /\ HasLifetimeLimit(s) => y.cnt = x.cnt + RequiredCount(s)
         /\ PeriodLimit(s) > 0 => CurrentCount(s, y) = CurrentCount(s, x) + RequiredCount(s)
<1> DEFINE n == RequiredCount(s)
           u == x.amt + RequiredAmount(s, a)
           v == IF HasLifetimeLimit(s) \/ ~ HasSeparatePeriodCounter(s) THEN x.cnt + n ELSE x.cnt
           w == IF HasSeparatePeriodCounter(s) THEN x.per + n ELSE x.per
           y == Hold(s, x, a)
<1>1. y = [x EXCEPT !.amt = u, !.cnt = v, !.per = w]
  BY DEF Hold
<1>2. u \in Nat /\ v \in Nat /\ w \in Nat
  BY LimitFacts, RowFields
<1> HIDE DEF u, v, w, y
<1>3. /\ y \in RowType /\ y.last = x.last /\ y.next = x.next /\ y.status = x.status
      /\ y.amt = u /\ y.cnt = v /\ y.per = w
  BY <1>1, <1>2 DEF RowType
<1>4. HasLifetimeLimit(s) => y.cnt = x.cnt + RequiredCount(s)
  BY <1>3 DEF v
<1>5. PeriodLimit(s) > 0 => CurrentCount(s, y) = CurrentCount(s, x) + RequiredCount(s)
  BY <1>3 DEF v, w, CurrentCount
<1>6. Bounded(s, y)
  <2>1. Plan[s].amountTotal > 0 => y.amt <= Plan[s].amountTotal
    BY <1>3, LimitFacts DEF u, Eligible
  <2>2. HasLifetimeLimit(s) => y.cnt <= Plan[s].countTotal
    BY <1>4, LimitFacts DEF Eligible
  <2>3. PeriodLimit(s) > 0 => CurrentCount(s, y) <= PeriodLimit(s)
    BY <1>5, LimitFacts DEF Eligible
  <2> QED BY <2>1, <2>2, <2>3 DEF Bounded
<1>7. Aligned(s, y, t)
  BY <1>3 DEF RowGood, Aligned
<1>8. y.amt = x.amt + RequiredAmount(s, a)
  BY <1>3 DEF u
<1> QED BY <1>3, <1>4, <1>5, <1>6, <1>7, <1>8 DEF RowGood, y

(* The clamp at zero *)
LEMMA ClampFacts ==
  ASSUME NEW n \in Int
  PROVE  NonNegative(n) \in Nat /\ (n >= 0 => NonNegative(n) = n) /\ (n < 0 => NonNegative(n) = 0)
BY DEF NonNegative

(* A difference is counted in the row, with the clamp at zero. *)
LEMMA DeltaFacts ==
  ASSUME NEW s \in Subs, NEW x \in RowType, NEW da \in Int, NEW dc \in Int, NEW t, RowGood(s, x, t)
  PROVE  LET y == Delta(s, x, da, dc) IN
         /\ y \in RowType
         /\ y.last = x.last /\ y.next = x.next /\ y.status = x.status
         /\ y.amt = NonNegative(x.amt + da)
         /\ HasLifetimeLimit(s) => y.cnt = NonNegative(x.cnt + dc)
         /\ PeriodLimit(s) > 0 => CurrentCount(s, y) = NonNegative(CurrentCount(s, x) + dc)
         /\ dc = 0 => y.cnt = x.cnt /\ y.per = x.per
         /\ dc <= 0 /\ (da <= 0 \/ ~ Exceeds(s, x, da, 0)) => RowGood(s, y, t)
<1> DEFINE u == NonNegative(x.amt + da)
           v == IF dc # 0 /\ (HasLifetimeLimit(s) \/ ~ HasSeparatePeriodCounter(s))
                  THEN NonNegative(x.cnt + dc) ELSE x.cnt
           w == IF dc # 0 /\ (HasSeparatePeriodCounter(s) \/ x.per > 0)
                  THEN NonNegative(x.per + dc) ELSE x.per
           y == Delta(s, x, da, dc)
<1>1. y = [x EXCEPT !.amt = u, !.cnt = v, !.per = w]
  BY DEF Delta
<1>2. x.amt \in Nat /\ x.cnt \in Nat /\ x.per \in Nat
  BY RowFields
<1>3. u \in Nat /\ v \in Nat /\ w \in Nat
  BY <1>2, ClampFacts
<1> HIDE DEF u, v, w, y
<1>4. /\ y \in RowType /\ y.last = x.last /\ y.next = x.next /\ y.status = x.status
      /\ y.amt = u /\ y.cnt = v /\ y.per = w
  BY <1>1, <1>3 DEF RowType
<1>5. HasLifetimeLimit(s) => y.cnt = NonNegative(x.cnt + dc)
  BY <1>2, <1>4, ClampFacts DEF v
<1>6. PeriodLimit(s) > 0 => CurrentCount(s, y) = NonNegative(CurrentCount(s, x) + dc)
  BY <1>2, <1>4, ClampFacts DEF v, w, CurrentCount
<1>7. dc = 0 => y.cnt = x.cnt /\ y.per = x.per
  BY <1>4 DEF v, w
<1>8. y.amt = NonNegative(x.amt + da)
  BY <1>4 DEF u
<1>9. ASSUME dc <= 0, da <= 0 \/ ~ Exceeds(s, x, da, 0) PROVE RowGood(s, y, t)
  <2>1. Plan[s].amountTotal > 0 => y.amt <= Plan[s].amountTotal
    BY <1>2, <1>8, <1>9, ClampFacts, PlanFacts DEF RowGood, Bounded, Exceeds
  <2>2. HasLifetimeLimit(s) => y.cnt <= Plan[s].countTotal
    BY <1>2, <1>5, <1>9, ClampFacts, PlanFacts DEF RowGood, Bounded
  <2>3. PeriodLimit(s) > 0 => CurrentCount(s, y) <= PeriodLimit(s)
    <3>1. CurrentCount(s, x) \in Nat /\ PeriodLimit(s) \in Nat
      BY <1>2, LimitFacts DEF CurrentCount
    <3> QED BY <1>6, <1>9, <3>1, ClampFacts DEF RowGood, Bounded
  <2>4. Aligned(s, y, t)
    BY <1>4 DEF RowGood, Aligned
  <2> QED BY <2>1, <2>2, <2>3, <2>4 DEF RowGood, Bounded
<1> QED BY <1>4, <1>5, <1>6, <1>7, <1>8, <1>9 DEF y

-----------------------------------------------------------------------------
(* Choosing a subscription *)

(* A nonempty set of natural numbers has a least element. *)
LEMMA LeastNat ==
  ASSUME NEW T, T \subseteq Nat, T # {}
  PROVE  \E n \in T : \A m \in T : n <= m
<1>1. PICK n \in T : \A m \in T : ~ (<<m, n>> \in OpToRel(<, Nat))
  BY NatLessThanWellFounded, WFMin, Zenon
<1>2. ASSUME NEW m \in T PROVE n <= m
  <2>1. ~ (<<m, n>> \in {q \in Nat \X Nat : q[1] < q[2]})
    BY <1>1 DEF OpToRel
  <2> QED BY <2>1
<1> QED BY <1>2

(* One subscription of a set ends first, so that FirstOf is one of them. *)
LEMMA FirstIn ==
  ASSUME NEW S, S \subseteq Subs, S # {}
  PROVE  FirstOf(S) \in S
<1> DEFINE E == {Plan[s].end : s \in S}
<1>1. E \subseteq Nat /\ E # {}
  BY PlanFacts
<1>2. PICK e \in E : \A f \in E : e <= f
  BY <1>1, LeastNat
<1> DEFINE F == {s \in S : Plan[s].end = e}
<1>3. F \subseteq Nat /\ F # {}
  BY <1>2, PlanFacts
<1>4. PICK s \in F : \A u \in F : s <= u
  BY <1>3, LeastNat
<1>5. s \in S /\ \A u \in S \ {s} : Earlier(s, u)
  <2>1. s \in S /\ Plan[s].end = e
    BY <1>4
  <2>2. ASSUME NEW u \in S \ {s} PROVE Earlier(s, u)
    <3>1. e <= Plan[u].end
      BY <1>2, <2>2
    <3>2. s \in Nat /\ u \in Nat /\ Plan[u].end \in Nat /\ Plan[s].end \in Nat
      BY <2>1, <2>2, PlanFacts
    <3>3. Plan[u].end = e => s <= u
      BY <1>4, <2>2
    <3> QED BY <2>1, <2>2, <3>1, <3>2, <3>3 DEF Earlier
  <2> QED BY <2>1, <2>2
<1> QED BY <1>5 DEF FirstOf

(* The subscription a request is charged to is active and has enough left, by
   the clock that chose it; the clock of the preferred one is not the earlier. *)
LEMMA SelectFacts ==
  ASSUME NEW r \in Requests, NEW rows, NEW at \in Nat, NEW seen \in Nat, at <= seen,
         Select(r, rows, at, seen) # NoSub
  PROVE  LET s == Select(r, rows, at, seen) IN
         s \in Active(rows, at) /\ Fits(r, s, rows, HoldTime(r, rows, at, seen))
<1>1. CASE PreferredTaken(r, rows, seen)
  <2>1. PICK p \in Preferred(r, rows, seen) : Fits(r, p, rows, seen)
    BY <1>1 DEF PreferredTaken
  <2>2. p = want[r].preferred /\ p \in Active(rows, seen)
    BY <2>1 DEF Preferred
  <2>3. p \in Active(rows, at)
    BY <2>2, PlanFacts DEF Active
  <2> QED BY <1>1, <2>1, <2>2, <2>3 DEF Select, HoldTime
<1>2. CASE ~ PreferredTaken(r, rows, seen)
  <2> DEFINE able == {s \in Candidates(r, rows, at) : Fits(r, s, rows, at)}
             counted == {s \in able : Plan[s].resource = "request_count"}
             z == FirstFitting(r, rows, at)
  <2>1. z = IF counted # {} THEN FirstOf(counted) ELSE IF able # {} THEN FirstOf(able) ELSE NoSub
    BY Zenon DEF FirstFitting
  <2>2. able \subseteq Subs /\ counted \subseteq able
    BY DEF Candidates, Active
  <2>3. (able # {} => FirstOf(able) \in able) /\ (counted # {} => FirstOf(counted) \in able)
    BY <2>2, FirstIn
  <2>4. Select(r, rows, at, seen) = z /\ HoldTime(r, rows, at, seen) = at
    BY <1>2 DEF Select, HoldTime
  <2>5. z \in able
    <3> HIDE DEF able, counted, z
    <3> QED BY <2>1, <2>3, <2>4
  <2> HIDE DEF z
  <2> QED BY <2>4, <2>5 DEF Candidates
<1> QED BY <1>1, <1>2

(* Every row a pre-consume saves is a reset of the one it read, and the row it
   charges is reset first. *)
SavedRows(r, rows, at, seen, s, new) ==
    /\ new[s] = Hold(s, ResetRow(s, rows[s], HoldTime(r, rows, at, seen)), want[r].amount)
    /\ \A u \in Subs \ {s} : \/ new[u] = rows[u]
                             \/ /\ u \in Active(rows, at)
                                /\ \E t \in {at, seen} : new[u] = ResetRow(u, rows[u], t)

(* AfterHold is such a list of rows. *)
LEMMA AfterHoldFacts ==
  ASSUME NEW r \in Requests, NEW rows, NEW at \in Nat, NEW seen \in Nat, at <= seen, NEW s \in Subs
  PROVE  SavedRows(r, rows, at, seen, s, AfterHold(r, rows, at, seen, s))
<1>1. Candidates(r, rows, at) \subseteq Active(rows, at)
  BY DEF Candidates
<1>2. Preferred(r, rows, seen) \subseteq Active(rows, at)
  BY PlanFacts DEF Preferred, Active
<1> QED BY <1>1, <1>2 DEF AfterHold, SavedRows

-----------------------------------------------------------------------------
(* Steps of one request *)

Points == Ends \cup {"new", "clocked", "holding", "held", "settling", "refunding"}
ReqType == [pc : Points, sub : Subs \cup {NoSub}, pre : Nat, ws : Nat, we : Nat, usage : Nat,
            heldAt : Nat, readAt : Nat, tries : Nat]
RecType == [status : {"none", "consumed", "refunded"}, cnt : Nat, amt : Nat,
            sub : Subs \cup {NoSub}, created : Nat, updated : Nat]
PaidType == [sub : Subs \cup {NoSub}, win : Nat, amt : Int, cnt : Nat]

(* The snapshot x of a transaction or a job shows good rows. *)
Snapshot(x) ==
    /\ StartTime <= x.at /\ x.at <= now
    /\ \A s \in Subs : RowGood(s, x.rows[s], x.at)

(* The types by name *)
LEMMA Types ==
  TypeOK <=> /\ now \in StartTime .. MaxTime /\ sub \in [Subs -> RowType]
             /\ rec \in [Requests -> RecType] /\ req \in [Requests -> ReqType]
             /\ want \in [Requests -> Wants] /\ tx \in [Requests -> TxType]
             /\ round \in RoundType /\ (job = NoTx \/ job \in OpenJob)
             /\ faults \in 0 .. MaxFaults /\ paid \in [Requests -> PaidType]
             /\ strayed \in [Subs -> SUBSET {"refund", "settle", "replay"}]
BY DEF TypeOK, RecType, ReqType, PaidType, Points, OpenJob, RoundType

(* The same of the next state *)
LEMMA TypesNext ==
  TypeOK' <=> /\ now' \in StartTime .. MaxTime /\ sub' \in [Subs -> RowType]
              /\ rec' \in [Requests -> RecType] /\ req' \in [Requests -> ReqType]
              /\ want' \in [Requests -> Wants] /\ tx' \in [Requests -> TxType]
              /\ round' \in RoundType /\ (job' = NoTx \/ job' \in OpenJob)
              /\ faults' \in 0 .. MaxFaults /\ paid' \in [Requests -> PaidType]
              /\ strayed' \in [Subs -> SUBSET {"refund", "settle", "replay"}]
BY DEF TypeOK, RecType, ReqType, PaidType, Points, OpenJob, RoundType

(* The clock *)
LEMMA NowFacts ==
  ASSUME IInv
  PROVE  TypeOK /\ now \in Nat /\ StartTime <= now /\ now <= MaxTime /\ sub \in [Subs -> RowType]
<1>1. TypeOK
  BY DEF IInv
<1>2. now \in Nat /\ StartTime <= now /\ now <= MaxTime /\ sub \in [Subs -> RowType]
  BY <1>1, LedgerAssumption DEF TypeOK, StartTime
<1> QED BY <1>1, <1>2

(* Only request r takes the step. *)
Alone(r) ==
    \A q \in Requests \ {r} :
        req'[q] = req[q] /\ rec'[q] = rec[q] /\ tx'[q] = tx[q] /\ paid'[q] = paid[q]

(* A step of request r keeps the invariant if it keeps it for r and the rows. *)
LEMMA RequestFrame ==
  ASSUME IInv, NEW r \in Requests, TypeOK', now' = now, round' = round, job' = job, Alone(r), Clocked(req'[r]),
         \A s \in Subs : RowGood(s, sub'[s], now),
         req'[r].pc \in TxPoints => tx'[r] \in OpenTx /\ Snapshot(tx'[r]),
         Knows(req'[r].pc, req'[r], rec'[r], paid'[r])
  PROVE  IInv'
<1>1. SessionInv'
  <2>1. ASSUME NEW q \in Requests PROVE Knows(req'[q].pc, req'[q], rec'[q], paid'[q])
    BY DEF IInv, SessionInv, Alone
  <2> QED BY <2>1 DEF SessionInv
<1>2. RowsInv'
  <2>1. ASSUME NEW q \in Requests, req'[q].pc \in TxPoints
        PROVE  /\ tx'[q] \in OpenTx /\ StartTime <= tx'[q].at /\ tx'[q].at <= now
               /\ \A s \in Subs : RowGood(s, tx'[q].rows[s], tx'[q].at)
    BY <2>1 DEF IInv, RowsInv, Alone, Snapshot
  <2>2. /\ job.open => /\ job \in OpenJob /\ Past(job.at) /\ Past(job.clock)
                       /\ \A s \in Subs : RowGood(s, job.rows[s], job.at)
        /\ RoundGood
    BY DEF IInv, RowsInv
  <2>3. ASSUME NEW q \in Requests PROVE Clocked(req'[q])
    BY DEF IInv, RowsInv, Alone
  <2>4. \A q \in Requests : Clocked(req[q])'
    BY <2>3 DEF Clocked, Past
  <2> QED BY <2>1, <2>2, <2>4 DEF RowsInv, RoundGood, Past
<1> QED BY <1>1, <1>2 DEF IInv

(* A transaction that begins sees good rows. *)
LEMMA OpenFacts ==
  ASSUME IInv
  PROVE  Open \in OpenTx /\ Snapshot(Open) /\ Open \in TxType /\ Open.rows = sub /\ Open.at = now
<1>1. now \in Nat /\ StartTime <= now /\ sub \in [Subs -> RowType]
  BY DEF IInv, TypeOK, StartTime
<1> QED BY <1>1 DEF IInv, RowsInv, Open, OpenTx, Snapshot, TxType

(* The values of a request *)
LEMMA Values ==
  ASSUME IInv, NEW r \in Requests
  PROVE  /\ req[r] \in ReqType /\ rec[r] \in RecType /\ paid[r] \in PaidType /\ want[r].amount \in Nat
         /\ Knows(req[r].pc, req[r], rec[r], paid[r]) /\ Clocked(req[r])
         /\ req[r].pc \in TxPoints => tx[r] \in OpenTx /\ Snapshot(tx[r])
<1>1. req[r] \in ReqType /\ rec[r] \in RecType /\ paid[r] \in PaidType /\ want[r] \in Wants
  BY Types DEF IInv
<1>2. want[r].amount \in Nat
  BY <1>1, LedgerAssumption DEF Want
<1>3. Knows(req[r].pc, req[r], rec[r], paid[r]) /\ Clocked(req[r])
  BY DEF IInv, RowsInv, SessionInv
<1>4. req[r].pc \in TxPoints => tx[r] \in OpenTx /\ Snapshot(tx[r])
  BY DEF IInv, RowsInv, Snapshot
<1> QED BY <1>1, <1>2, <1>3, <1>4

(* Going to a control point *)
LEMMA PointFacts ==
  ASSUME TypeOK, NEW r \in Requests, NEW p \in Points, Point(r, p)
  PROVE  /\ req' \in [Requests -> ReqType] /\ \A q \in Requests \ {r} : req'[q] = req[q]
         /\ req'[r].pc = p /\ req'[r].sub = req[r].sub /\ req'[r].heldAt = req[r].heldAt
<1>1. req \in [Requests -> ReqType]
  BY Types
<1>2. req' = [req EXCEPT ![r] = [req[r] EXCEPT !.pc = p]]
  BY DEF Point
<1> QED BY <1>1, <1>2 DEF ReqType

(* A session ends. *)
LEMMA EndFacts ==
  ASSUME TypeOK, NEW r \in Requests, NEW p \in Ends, End(r, p)
  PROVE  /\ req' \in [Requests -> ReqType] /\ \A q \in Requests \ {r} : req'[q] = req[q]
         /\ req'[r].pc = p /\ req'[r].sub = NoSub /\ Clocked(req'[r]) /\ req'[r].pc \notin TxPoints
<1> DEFINE z == [NewReq EXCEPT !.pc = p]
<1>1. req \in [Requests -> ReqType] /\ p \in Points
  BY Types DEF Points
<1>2. z \in ReqType /\ z.pc = p /\ z.sub = NoSub
  <2>1. 0 \in Nat
    OBVIOUS
  <2> QED BY <1>1, <2>1 DEF NewReq, ReqType
<1>3. req' = [req EXCEPT ![r] = z]
  BY DEF End
<1> HIDE DEF z
<1> QED BY <1>1, <1>2, <1>3 DEF Clocked, TxPoints, Ends

(* A refusal *)
LEMMA RefuseFacts ==
  ASSUME TypeOK, NEW r \in Requests, Refuse(r)
  PROVE  /\ req' \in [Requests -> ReqType] /\ \A q \in Requests \ {r} : req'[q] = req[q]
         /\ req'[r].pc \in {"new", "refused"} /\ req'[r].sub = NoSub
         /\ Clocked(req'[r]) /\ req'[r].pc \notin TxPoints
<1> DEFINE n == req[r].tries + 1
           y == [NewReq EXCEPT !.tries = n]
           z == [NewReq EXCEPT !.pc = "refused"]
<1>1. req \in [Requests -> ReqType] /\ n \in Nat
  BY Types DEF ReqType
<1>2. req' = [req EXCEPT ![r] = y] \/ req' = [req EXCEPT ![r] = z]
  BY DEF Refuse
<1> HIDE DEF n
<1>3. /\ y \in ReqType /\ y.pc = "new" /\ y.sub = NoSub
      /\ z \in ReqType /\ z.pc = "refused" /\ z.sub = NoSub
  <2>1. 0 \in Nat /\ "new" \in Points /\ "refused" \in Points
    BY DEF Points, Ends
  <2> QED BY <1>1, <2>1 DEF NewReq, ReqType
<1> HIDE DEF y, z
<1> QED BY <1>1, <1>2, <1>3 DEF Clocked, TxPoints

(* The reply to a hold *)
LEMMA HeldFacts ==
  ASSUME TypeOK, NEW r \in Requests, NEW s \in Subs, NEW pre \in Nat, NEW ws \in Nat, NEW we \in Nat,
         NEW at \in Nat, NEW readAt \in Nat, Held(r, s, pre, ws, we, at, readAt)
  PROVE  /\ req' \in [Requests -> ReqType] /\ \A q \in Requests \ {r} : req'[q] = req[q]
         /\ req'[r].pc = "held" /\ req'[r].sub = s /\ req'[r].pre = pre
         /\ req'[r].ws = ws /\ req'[r].we = we /\ req'[r].heldAt = at /\ req'[r].readAt = readAt
         /\ Clocked(req'[r]) /\ req'[r].pc \notin TxPoints
<1>1. req \in [Requests -> ReqType]
  BY Types
<1> DEFINE z == [req[r] EXCEPT !.pc = "held", !.sub = s, !.pre = pre, !.ws = ws,
                               !.we = we, !.heldAt = at, !.readAt = readAt]
<1>2. req' = [req EXCEPT ![r] = z]
  BY DEF Held
<1>3. /\ z \in ReqType /\ z.pc = "held" /\ z.sub = s /\ z.pre = pre
      /\ z.ws = ws /\ z.we = we /\ z.heldAt = at /\ z.readAt = readAt
  <2>1. req[r] \in ReqType
    BY <1>1
  <2> QED BY <2>1 DEF ReqType, Points
<1> HIDE DEF z
<1> QED BY <1>1, <1>2, <1>3 DEF Clocked, TxPoints

(* Ending a transaction *)
LEMMA CloseFacts ==
  ASSUME TypeOK, NEW r \in Requests, Close(r)
  PROVE  tx' \in [Requests -> TxType] /\ \A q \in Requests \ {r} : tx'[q] = tx[q]
BY DEF TypeOK, Close, TxType

(* The outcome of a commit *)
LEMMA CommitFacts ==
  ASSUME TypeOK, NEW t, NEW S, NEW o, Commit(t, S, o)
  PROVE  /\ faults' \in 0 .. MaxFaults
         /\ Isolation = "conflict_fails" /\ o # "lost" => \A s \in S : sub[s] = t.rows[s]
BY LedgerAssumption DEF TypeOK, Commit, Conflict

-----------------------------------------------------------------------------
(* The invariant of all isolation levels *)

(* Rows that a step leaves alone stay good. *)
LEMMA SameRows == ASSUME IInv, sub' = sub PROVE \A s \in Subs : RowGood(s, sub'[s], now)
BY DEF IInv, RowsInv

(* A pre-consume reads the clock. *)
LEMMA I_ReadClock ==
  ASSUME IInv, NEW r \in Requests, ReadClock(r)
  PROVE  IInv'
<1> DEFINE z == [req[r] EXCEPT !.pc = "clocked", !.heldAt = now]
<1>1. req[r].pc = "new" /\ req' = [req EXCEPT ![r] = z]
      /\ UNCHANGED <<now, sub, rec, want, tx, round, job, faults, paid, strayed>>
  BY DEF ReadClock
<1>2. TypeOK /\ req \in [Requests -> ReqType] /\ req[r] \in ReqType /\ now \in Nat /\ Past(now)
  BY Types, Values, NowFacts DEF Past
<1>3. z \in ReqType /\ z.pc = "clocked" /\ z.sub = req[r].sub /\ z.heldAt = now
  BY <1>2 DEF ReqType, Points
<1> HIDE DEF z
<1>4. req' \in [Requests -> ReqType] /\ req'[r] = z /\ \A q \in Requests \ {r} : req'[q] = req[q]
  BY <1>1, <1>2, <1>3
<1>5. TypeOK'
  BY <1>1, <1>2, <1>4, Types, TypesNext
<1>6. Alone(r)
  BY <1>1, <1>4 DEF Alone
<1>7. Knows(req'[r].pc, req'[r], rec'[r], paid'[r])
  BY <1>1, <1>3, <1>4, Values DEF Knows
<1>8. Clocked(req'[r]) /\ req'[r].pc \notin TxPoints
  BY <1>2, <1>3, <1>4 DEF Clocked, TxPoints
<1> QED BY <1>1, <1>5, <1>6, <1>7, <1>8, SameRows, RequestFrame

(* A pre-consume begins. *)
LEMMA I_BeginHold ==
  ASSUME IInv, NEW r \in Requests, BeginHold(r)
  PROVE  IInv'
<1>1. req[r].pc = "clocked" /\ Point(r, "holding") /\ tx' = [tx EXCEPT ![r] = Open]
      /\ UNCHANGED <<now, sub, rec, want, round, job, faults, paid, strayed>>
  BY DEF BeginHold
<1>2. TypeOK /\ "holding" \in Points
  BY DEF IInv, Points
<1>3. TypeOK'
  BY <1>1, <1>2, Types, TypesNext, PointFacts, OpenFacts
<1>4. Alone(r)
  BY <1>1, <1>2, PointFacts, Types DEF Alone
<1>5. tx'[r] = Open
  BY <1>1, <1>2, Types
<1>6. Knows(req'[r].pc, req'[r], rec'[r], paid'[r])
  BY <1>1, <1>2, Values, PointFacts DEF Knows
<1>7. Clocked(req'[r])
  BY <1>1, <1>2, Values, PointFacts DEF Clocked
<1> QED BY <1>1, <1>3, <1>4, <1>5, <1>6, <1>7, OpenFacts, SameRows, RequestFrame

(* The window of a record's time *)
LEMMA WindowFacts ==
  ASSUME NEW s \in Subs, NEW t \in Nat, StartTime <= t
  PROVE  /\ WindowStartAt(s, t) \in Nat /\ WindowEndAt(s, t) \in Nat
         /\ 0 < WindowStartAt(s, t) /\ WindowStartAt(s, t) <= t
         /\ WindowEndAt(s, t) > 0 => t < WindowEndAt(s, t)
<1>1. CASE Plan[s].period = 0
  BY <1>1 DEF WindowStartAt, WindowEndAt, NextReset, StartTime
<1>2. CASE Plan[s].period # 0
  <2> DEFINE l == LastReset(s, StartTime, t)
  <2>1. Plan[s].period > 0 /\ Plan[s].period \in Nat /\ StartTime \in Nat /\ StartTime - StartTime = 0
        /\ (Plan[s].end > 0 => StartTime <= Plan[s].end) /\ StartTime > 0
    BY <1>2, PlanFacts DEF StartTime
  <2>2. (StartTime - StartTime) % Plan[s].period = 0
    BY <2>1
  <2>3. l \in Nat /\ StartTime <= l /\ l <= t /\ (NextReset(s, l) = 0 \/ NextReset(s, l) > t)
    BY <2>1, <2>2, LastResetFacts
  <2>4. WindowStartAt(s, t) = l /\ WindowEndAt(s, t) = NextReset(s, l)
    BY <1>2 DEF WindowStartAt, WindowEndAt
  <2> HIDE DEF l
  <2>5. NextReset(s, l) \in Nat
    BY <2>3, NextResetFacts
  <2> QED BY <2>1, <2>3, <2>4, <2>5
<1> QED BY <1>1, <1>2

(* A repeated pre-consume is answered from its record. *)
LEMMA I_HoldAgain ==
  ASSUME IInv, NEW r \in Requests, HoldAgain(r)
  PROVE  IInv'
<1>1. /\ req[r].pc = "holding" /\ rec[r].status # "none" /\ Close(r)
      /\ UNCHANGED <<now, sub, rec, want, round, job, faults, paid, strayed>>
  BY DEF HoldAgain
<1>2. TypeOK /\ Knows(req[r].pc, req[r], rec[r], paid[r]) /\ rec[r] \in RecType /\ req[r] \in ReqType
      /\ paid[r] \in PaidType
  BY Values DEF IInv
<1>3. CASE Refuse(r) /\ rec[r].status = "refunded"
  <2>1. TypeOK' /\ Alone(r)
    BY <1>1, <1>2, <1>3, Types, TypesNext, RefuseFacts, CloseFacts DEF Alone
  <2>2. /\ req'[r].pc \in {"new", "refused"} /\ req'[r].sub = NoSub
        /\ Clocked(req'[r]) /\ req'[r].pc \notin TxPoints
    BY <1>2, <1>3, RefuseFacts
  <2>3. Knows(req'[r].pc, req'[r], rec'[r], paid'[r])
    BY <1>1, <1>2, <1>3, <2>2 DEF Knows
  <2> QED BY <1>1, <2>1, <2>2, <2>3, SameRows, RequestFrame
<1>4. CASE rec[r].status # "refunded"
  <2> DEFINE s == rec[r].sub
             ws == WindowStartAt(s, rec[r].created)
             we == WindowEndAt(s, rec[r].created)
  <2>1. /\ s \in Subs /\ rec[r].created \in Nat /\ StartTime <= rec[r].created /\ rec[r].amt \in Nat
        /\ rec[r].status = "consumed" /\ s = paid[r].sub /\ rec[r].amt = paid[r].amt
    BY <1>1, <1>2, <1>4 DEF Knows, RecType, StartTime
  <2>2. ws \in Nat /\ we \in Nat /\ 0 < ws /\ ws <= rec[r].created /\ (we > 0 => rec[r].created < we)
    BY <2>1, WindowFacts
  <2>3. Held(r, s, rec[r].amt, ws, we, rec[r].created, rec[r].created)
    BY <1>1, <1>4 DEF HoldAgain
  <2> HIDE DEF ws, we
  <2>4. /\ req' \in [Requests -> ReqType] /\ \A q \in Requests \ {r} : req'[q] = req[q]
        /\ req'[r].pc = "held" /\ req'[r].sub = s /\ req'[r].pre = rec[r].amt
        /\ req'[r].ws = ws /\ req'[r].we = we /\ req'[r].heldAt = rec[r].created
        /\ Clocked(req'[r]) /\ req'[r].pc \notin TxPoints
    BY <1>2, <2>1, <2>2, <2>3, HeldFacts
  <2>5. TypeOK' /\ Alone(r)
    BY <1>1, <1>2, <2>4, Types, TypesNext, CloseFacts DEF Alone
  <2>6. Knows(req'[r].pc, req'[r], rec'[r], paid'[r])
    BY <1>1, <1>2, <2>1, <2>2, <2>4 DEF Knows
  <2> QED BY <1>1, <2>4, <2>5, <2>6, SameRows, RequestFrame
<1> QED BY <1>3, <1>4 DEF HoldAgain

(* No subscription has enough left. *)
LEMMA I_NoneEligible ==
  ASSUME IInv, NEW r \in Requests, NoneEligible(r)
  PROVE  IInv'
<1>1. /\ req[r].pc = "holding" /\ rec[r].status = "none" /\ Close(r) /\ Refuse(r)
      /\ UNCHANGED <<now, sub, rec, want, round, job, faults, paid, strayed>>
  BY DEF NoneEligible
<1>2. TypeOK /\ Knows(req[r].pc, req[r], rec[r], paid[r])
  BY Values DEF IInv
<1>3. TypeOK' /\ Alone(r)
  BY <1>1, <1>2, Types, TypesNext, RefuseFacts, CloseFacts DEF Alone
<1>4. /\ req'[r].pc \in {"new", "refused"} /\ req'[r].sub = NoSub
      /\ Clocked(req'[r]) /\ req'[r].pc \notin TxPoints
  BY <1>1, <1>2, RefuseFacts
<1>5. Knows(req'[r].pc, req'[r], rec'[r], paid'[r])
  BY <1>1, <1>2, <1>4 DEF Knows
<1> QED BY <1>1, <1>3, <1>4, <1>5, SameRows, RequestFrame

(* What a pre-consume that commits by the clock t does: row y is row x, the reset
   of the row it read, with the hold. *)
HoldCommits(r, s, t, x, y, o) ==
    LET at == req[r].heldAt
        old == tx[r].rows
        amt == RequiredAmount(s, want[r].amount)
        cnt == RequiredCount(s)
    IN /\ s \in Active(old, at) /\ ResetTo(s, old[s], x, now)
       /\ x.last <= t \/ x.last <= tx[r].at
       /\ Plan[s].period > 0 => x.next = 0 \/ x.next > t
       /\ RowGood(s, y, now)
       /\ y.last = x.last /\ y.next = x.next /\ y.status = x.status /\ y.amt = x.amt + amt
       /\ HasLifetimeLimit(s) => y.cnt = x.cnt + cnt
       /\ PeriodLimit(s) > 0 => CurrentCount(s, y) = CurrentCount(s, x) + cnt
       /\ Commit(tx[r], Active(old, at), o)
       /\ o = "lost" => UNCHANGED <<sub, rec, paid>>
       /\ o # "lost" =>
            /\ sub' \in [Subs -> RowType] /\ sub'[s] = y
            /\ \A u \in Subs \ {s} : \/ sub'[u] = sub[u]
                                     \/ u \in Active(old, at) /\ ResetTo(u, old[u], sub'[u], now)
            /\ rec' = [rec EXCEPT ![r] = [status |-> "consumed", sub |-> s, amt |-> amt, cnt |-> cnt,
                                          created |-> now, updated |-> now]]
            /\ paid' = [paid EXCEPT ![r] = [sub |-> s, win |-> y.last, amt |-> amt, cnt |-> cnt]]
       /\ IF o # "ok" THEN Refuse(r) ELSE Held(r, s, amt, UsageWindowStart(s, y), y.next, t, tx[r].at)

(* preConsumeUserSubscriptionWithPreference *)
LEMMA HoldCommit ==
  ASSUME IInv, NEW r \in Requests, CommitHold(r)
  PROVE  \E s \in Subs, t \in Nat, x \in RowType, y \in RowType, o \in Outcomes :
            StartTime <= t /\ HoldCommits(r, s, t, x, y, o)
<1>1. req[r].pc = "holding"
  BY DEF CommitHold
<1>2. /\ tx[r] \in OpenTx /\ Snapshot(tx[r]) /\ want[r].amount \in Nat /\ TypeOK
      /\ Past(req[r].heldAt) /\ req[r] \in ReqType /\ now \in Nat
  BY <1>1, Values, NowFacts DEF TxPoints, Clocked
<1> DEFINE old == tx[r].rows
           a == want[r].amount
           b == tx[r].at
<1>3. PICK at \in {req[r].heldAt}, seen \in SeenTimes(r), o \in Outcomes :
        \E s \in {Select(r, tx[r].rows, at, seen)} \ {NoSub} :
        \E rows \in {AfterHold(r, tx[r].rows, at, seen, s)} :
           LET amt == RequiredAmount(s, want[r].amount)
               cnt == RequiredCount(s)
           IN /\ Commit(tx[r], Active(tx[r].rows, at), o)
              /\ IF o = "lost" THEN UNCHANGED <<sub, rec, paid>>
                 ELSE /\ Save(s, rows, tx[r].rows)
                      /\ rec' = [rec EXCEPT ![r] = [status |-> "consumed", sub |-> s, amt |-> amt,
                                                   cnt |-> cnt, created |-> now, updated |-> now]]
                      /\ paid' = [paid EXCEPT ![r] = [sub |-> s, win |-> rows[s].last,
                                                     amt |-> amt, cnt |-> cnt]]
              /\ IF o # "ok" THEN Refuse(r)
                 ELSE Held(r, s, amt, UsageWindowStart(s, rows[s]), rows[s].next,
                           HoldTime(r, tx[r].rows, at, seen), tx[r].at)
              /\ KeepStrayed(strayed)
  BY Zenon DEF CommitHold
<1> DEFINE s == Select(r, old, at, seen)
           t == HoldTime(r, old, at, seen)
           new == AfterHold(r, old, at, seen, s)
<1>4. /\ s # NoSub
      /\ Commit(tx[r], Active(old, at), o)
      /\ IF o = "lost" THEN UNCHANGED <<sub, rec, paid>>
         ELSE /\ Save(s, new, old)
              /\ rec' = [rec EXCEPT ![r] = [status |-> "consumed", sub |-> s, amt |-> RequiredAmount(s, a),
                              cnt |-> RequiredCount(s), created |-> now, updated |-> now]]
              /\ paid' = [paid EXCEPT ![r] = [sub |-> s, win |-> new[s].last,
                              amt |-> RequiredAmount(s, a), cnt |-> RequiredCount(s)]]
      /\ IF o # "ok" THEN Refuse(r)
         ELSE Held(r, s, RequiredAmount(s, a), UsageWindowStart(s, new[s]), new[s].next, t, tx[r].at)
  BY <1>3, Zenon
<1>5. at = req[r].heldAt /\ at \in Nat /\ StartTime <= at /\ at <= seen /\ seen \in Nat /\ seen <= now
  BY <1>2, <1>3 DEF SeenTimes, ReqType, Past
<1>6. s \in Active(old, at) /\ Fits(r, s, old, t)
  BY <1>4, <1>5, SelectFacts
<1>7. t \in {at, seen}
  BY DEF HoldTime
<1>8. s \in Subs
  BY <1>6 DEF Active
<1> DEFINE x == ResetRow(s, old[s], t)
           y == Hold(s, x, a)
<1>9. new[s] = y /\ \A u \in Subs \ {s} : \/ new[u] = old[u]
                                          \/ /\ u \in Active(old, at)
                                             /\ \E v \in {at, seen} : new[u] = ResetRow(u, old[u], v)
  <2>1. SavedRows(r, old, at, seen, s, new)
    <3> HIDE DEF s, old
    <3> QED BY <1>5, <1>8, AfterHoldFacts
  <2> QED BY <2>1 DEF SavedRows
<1>10. Eligible(s, x, a)
  BY <1>6 DEF Fits
<1> HIDE DEF s, t, new, old, b
<1>11. ASSUME NEW u \in Subs, NEW v \in {at, seen}
       PROVE  LET z == ResetRow(u, old[u], v) IN
              /\ ResetTo(u, old[u], z, now)
              /\ z.last <= v \/ z.last <= b
              /\ Plan[u].period > 0 => z.next = 0 \/ z.next > v
  <2>1. /\ b \in Nat /\ StartTime <= b /\ b <= now /\ old[u] \in RowType /\ RowGood(u, old[u], b)
    BY <1>2 DEF OpenTx, Snapshot, b, old
  <2>2. v \in Nat /\ StartTime <= v /\ v <= now
    BY <1>2, <1>5 DEF StartTime
  <2> QED BY <1>2, <2>1, <2>2, ResetRowByClock
<1>12. /\ ResetTo(s, old[s], x, now) /\ (x.last <= t \/ x.last <= b)
       /\ Plan[s].period > 0 => x.next = 0 \/ x.next > t
  BY <1>7, <1>8, <1>11
<1>13. x \in RowType /\ RowGood(s, x, now) /\ a \in Nat
  BY <1>2, <1>12 DEF ResetTo
<1> HIDE DEF x, a
<1>14. /\ y \in RowType /\ RowGood(s, y, now)
       /\ y.last = x.last /\ y.next = x.next /\ y.status = x.status
       /\ y.amt = x.amt + RequiredAmount(s, a)
       /\ HasLifetimeLimit(s) => y.cnt = x.cnt + RequiredCount(s)
       /\ PeriodLimit(s) > 0 => CurrentCount(s, y) = CurrentCount(s, x) + RequiredCount(s)
  BY <1>8, <1>10, <1>13, HoldFacts
<1> HIDE DEF y
<1>15. ASSUME Save(s, new, old)
       PROVE  /\ sub' \in [Subs -> RowType] /\ sub'[s] = y
              /\ \A u \in Subs \ {s} : \/ sub'[u] = sub[u]
                                       \/ u \in Active(old, at) /\ ResetTo(u, old[u], sub'[u], now)
  <2>1. sub' = [u \in Subs |-> IF u = s \/ new[u] # old[u] THEN new[u] ELSE sub[u]]
    BY <1>15 DEF Save
  <2>2. sub'[s] = y
    BY <1>8, <1>9, <2>1
  <2>3. ASSUME NEW u \in Subs \ {s}
        PROVE  sub'[u] = sub[u] \/ (u \in Active(old, at) /\ ResetTo(u, old[u], sub'[u], now))
    BY <1>9, <1>11, <2>1, <2>3
  <2>4. ASSUME NEW u \in Subs PROVE sub'[u] \in RowType
    <3>1. sub[u] \in RowType
      BY <1>2, Types
    <3>2. CASE u = s
      BY <1>14, <2>2, <3>2
    <3>3. CASE u # s
      BY <2>3, <3>1, <3>3 DEF ResetTo
    <3> QED BY <3>2, <3>3
  <2> QED BY <2>1, <2>2, <2>3, <2>4
<1>16. HoldCommits(r, s, t, x, y, o)
  <2>1. o # "lost" =>
          /\ sub' \in [Subs -> RowType] /\ sub'[s] = y
          /\ \A u \in Subs \ {s} : \/ sub'[u] = sub[u]
                                   \/ u \in Active(old, at) /\ ResetTo(u, old[u], sub'[u], now)
    BY <1>4, <1>15
  <2>2. o # "lost" =>
          paid' = [paid EXCEPT ![r] = [sub |-> s, win |-> y.last, amt |-> RequiredAmount(s, a),
                                       cnt |-> RequiredCount(s)]]
    BY <1>4, <1>9
  <2>3. IF o # "ok" THEN Refuse(r)
        ELSE Held(r, s, RequiredAmount(s, a), UsageWindowStart(s, y), y.next, t, tx[r].at)
    BY <1>4, <1>9
  <2>4. o # "lost" =>
          rec' = [rec EXCEPT ![r] = [status |-> "consumed", sub |-> s, amt |-> RequiredAmount(s, a),
                                cnt |-> RequiredCount(s), created |-> now, updated |-> now]]
    BY <1>4
  <2>5. Commit(tx[r], Active(old, at), o) /\ (o = "lost" => UNCHANGED <<sub, rec, paid>>)
    BY <1>4
  <2> QED BY <1>5, <1>6, <1>12, <1>14, <2>1, <2>2, <2>3, <2>4, <2>5 DEF HoldCommits, old, a, b
<1>17. t \in Nat /\ StartTime <= t
  BY <1>5, <1>7 DEF StartTime
<1> QED BY <1>8, <1>13, <1>14, <1>16, <1>17

(* KeepStrayed keeps the type. *)
LEMMA StrayedType ==
  ASSUME TypeOK, KeepStrayed(strayed)
  PROVE  strayed' \in [Subs -> SUBSET {"refund", "settle", "replay"}]
<1>1. \A s \in Subs : strayed[s] \in SUBSET {"refund", "settle", "replay"}
  BY DEF TypeOK
<1> QED BY <1>1 DEF KeepStrayed

(* A pre-consume commits, or fails. *)
LEMMA I_CommitHold ==
  ASSUME IInv, NEW r \in Requests, CommitHold(r)
  PROVE  IInv'
<1>1. /\ req[r].pc = "holding" /\ rec[r].status = "none" /\ Close(r) /\ KeepStrayed(strayed)
      /\ UNCHANGED <<now, want, round, job>>
  BY DEF CommitHold
<1>2. /\ TypeOK /\ Knows(req[r].pc, req[r], rec[r], paid[r]) /\ want[r].amount \in Nat
      /\ tx[r] \in OpenTx /\ Snapshot(tx[r])
  BY <1>1, Values DEF IInv, TxPoints
<1> DEFINE at == req[r].heldAt
           old == tx[r].rows
           b == tx[r].at
<1>3. b \in Nat /\ now \in Nat /\ StartTime <= b /\ b <= now /\ StartTime <= now
  BY <1>2 DEF OpenTx, Snapshot, TypeOK, StartTime
<1>4. PICK s \in Subs, t \in Nat, x \in RowType, y \in RowType, o \in Outcomes :
         StartTime <= t /\ HoldCommits(r, s, t, x, y, o)
  BY HoldCommit
<1> DEFINE amt == RequiredAmount(s, want[r].amount)
           cnt == RequiredCount(s)
           ws == UsageWindowStart(s, y)
<1>5. /\ x.last <= t \/ x.last <= b
      /\ Plan[s].period > 0 => x.next = 0 \/ x.next > t
      /\ y \in RowType /\ RowGood(s, y, now) /\ y.last = x.last /\ y.next = x.next
      /\ Commit(tx[r], Active(old, at), o)
      /\ o = "lost" => UNCHANGED <<sub, rec, paid>>
      /\ IF o # "ok" THEN Refuse(r) ELSE Held(r, s, amt, ws, y.next, t, b)
  BY <1>4 DEF HoldCommits
<1>6. o # "lost" =>
        /\ sub' \in [Subs -> RowType] /\ sub'[s] = y
        /\ \A u \in Subs \ {s} : \/ sub'[u] = sub[u]
                                 \/ u \in Active(old, at) /\ ResetTo(u, old[u], sub'[u], now)
        /\ rec' = [rec EXCEPT ![r] = [status |-> "consumed", sub |-> s, amt |-> amt, cnt |-> cnt,
                                      created |-> now, updated |-> now]]
        /\ paid' = [paid EXCEPT ![r] = [sub |-> s, win |-> y.last, amt |-> amt, cnt |-> cnt]]
  BY <1>4 DEF HoldCommits
<1>7. amt \in Nat /\ cnt \in Nat
  BY <1>2, LimitFacts
<1> HIDE DEF amt, cnt, b
<1>8. y.last \in Nat /\ y.next \in Nat
  BY RowFields
<1>9. ws \in Nat /\ 0 < ws /\ (ws <= t \/ ws <= b) /\ (y.next > 0 => t < y.next)
  <2>1. ws = IF Plan[s].period = 0 \/ y.last <= 0 THEN StartTime ELSE y.last
    BY DEF UsageWindowStart
  <2>2. y.last <= t \/ y.last <= b
    BY <1>5
  <2>3. Plan[s].period > 0 => y.next = 0 \/ y.next > t
    BY <1>5
  <2>4. Plan[s].period = 0 => y.next = 0
    BY <1>5 DEF RowGood, Aligned
  <2>5. Plan[s].period \in Nat /\ StartTime = 1
    BY PlanFacts DEF StartTime
  <2> HIDE DEF ws
  <2> QED BY <1>3, <1>4, <1>8, <2>1, <2>2, <2>3, <2>4, <2>5
<1> HIDE DEF ws
<1>10. \A u \in Subs : RowGood(u, sub'[u], now)
  <2>1. CASE o = "lost"
    BY <1>5, <2>1, SameRows
  <2>2. CASE o # "lost"
    <3> SUFFICES ASSUME NEW u \in Subs PROVE RowGood(u, sub'[u], now)
      OBVIOUS
    <3>1. sub'[u] = sub[u] \/ RowGood(u, sub'[u], now)
      BY <1>5, <1>6, <2>2 DEF ResetTo
    <3> QED BY <3>1 DEF IInv, RowsInv
  <2> QED BY <2>1, <2>2
<1>11. /\ sub' \in [Subs -> RowType] /\ rec' \in [Requests -> RecType] /\ paid' \in [Requests -> PaidType]
       /\ \A q \in Requests \ {r} : rec'[q] = rec[q] /\ paid'[q] = paid[q]
  <2>1. rec \in [Requests -> RecType] /\ paid \in [Requests -> PaidType] /\ sub \in [Subs -> RowType]
    BY <1>2, Types
  <2>2. CASE o = "lost"
    BY <1>5, <2>1, <2>2
  <2>3. CASE o # "lost"
    <3>1. [status |-> "consumed", sub |-> s, amt |-> amt, cnt |-> cnt, created |-> now,
           updated |-> now] \in RecType
      BY <1>3, <1>7 DEF RecType
    <3>2. [sub |-> s, win |-> y.last, amt |-> amt, cnt |-> cnt] \in PaidType
      BY <1>7, <1>8 DEF PaidType
    <3> QED BY <1>6, <2>1, <2>3, <3>1, <3>2
  <2> QED BY <2>2, <2>3
<1>12. o # "lost" => /\ rec'[r].status = "consumed" /\ rec'[r].sub = s /\ rec'[r].amt = amt
                     /\ rec'[r].cnt = cnt /\ rec'[r].created = now
                     /\ paid'[r].sub = s /\ paid'[r].amt = amt /\ paid'[r].cnt = cnt
  BY <1>2, <1>6, Types
<1>13. s # NoSub
  BY PlanFacts
<1>14. CASE o # "ok"
  <2>1. /\ req' \in [Requests -> ReqType] /\ \A q \in Requests \ {r} : req'[q] = req[q]
        /\ req'[r].pc \in {"new", "refused"} /\ req'[r].sub = NoSub
        /\ Clocked(req'[r]) /\ req'[r].pc \notin TxPoints
    BY <1>2, <1>5, <1>14, RefuseFacts
  <2>2. TypeOK' /\ Alone(r)
    BY <1>1, <1>2, <1>5, <1>11, <2>1, Types, TypesNext, CloseFacts, CommitFacts, StrayedType DEF Alone
  <2>3. Knows(req'[r].pc, req'[r], rec'[r], paid'[r])
    <3>1. CASE o = "lost"
      BY <1>1, <1>2, <1>5, <2>1, <3>1 DEF Knows
    <3>2. CASE o # "lost"
      BY <1>1, <1>2, <1>3, <1>7, <1>12, <1>13, <2>1, <3>2 DEF Knows
    <3> QED BY <3>1, <3>2
  <2> QED BY <1>1, <1>10, <2>1, <2>2, <2>3, RequestFrame
<1>15. CASE o = "ok"
  <2>1. /\ req' \in [Requests -> ReqType] /\ \A q \in Requests \ {r} : req'[q] = req[q]
        /\ req'[r].pc = "held" /\ req'[r].sub = s /\ req'[r].pre = amt
        /\ req'[r].ws = ws /\ req'[r].we = y.next /\ req'[r].heldAt = t /\ req'[r].readAt = b
        /\ Clocked(req'[r]) /\ req'[r].pc \notin TxPoints
    BY <1>2, <1>3, <1>5, <1>7, <1>8, <1>9, <1>15, HeldFacts
  <2>2. TypeOK' /\ Alone(r)
    BY <1>1, <1>2, <1>5, <1>11, <2>1, Types, TypesNext, CloseFacts, CommitFacts, StrayedType DEF Alone
  <2>3. Knows(req'[r].pc, req'[r], rec'[r], paid'[r])
    BY <1>3, <1>7, <1>9, <1>12, <1>13, <1>15, <2>1 DEF Knows
  <2> QED BY <1>1, <1>10, <2>1, <2>2, <2>3, RequestFrame
<1> QED BY <1>14, <1>15

(* A difference written to one row, good like the row it was read from *)
LEMMA DeltaRow ==
  ASSUME IInv, NEW r \in Requests, req[r].pc \in TxPoints, NEW s \in Subs, NEW da \in Int, NEW dc \in Int,
         dc <= 0, da <= 0 \/ ~ Exceeds(s, tx[r].rows[s], da, 0),
         sub' = [sub EXCEPT ![s] = Delta(s, tx[r].rows[s], da, dc)]
  PROVE  /\ sub' \in [Subs -> RowType] /\ \A u \in Subs : RowGood(u, sub'[u], now)
         /\ sub'[s] = Delta(s, tx[r].rows[s], da, dc) /\ \A u \in Subs \ {s} : sub'[u] = sub[u]
<1> DEFINE x == tx[r].rows[s]
           y == Delta(s, x, da, dc)
<1>1. tx[r] \in OpenTx /\ Snapshot(tx[r])
  BY Values
<1>2. /\ x \in RowType /\ RowGood(s, x, tx[r].at) /\ tx[r].at \in Nat /\ now \in Nat
      /\ StartTime <= tx[r].at /\ tx[r].at <= now
  BY <1>1 DEF OpenTx, Snapshot, IInv, TypeOK, StartTime
<1>3. y \in RowType /\ RowGood(s, y, tx[r].at)
  BY <1>2, DeltaFacts
<1> HIDE DEF x, y
<1>4. RowGood(s, y, now)
  BY <1>2, <1>3, GoodLater
<1>5. sub \in [Subs -> RowType] /\ \A u \in Subs : RowGood(u, sub[u], now)
  BY DEF IInv, RowsInv, TypeOK
<1>6. sub' = [sub EXCEPT ![s] = y]
  BY DEF x, y
<1>7. sub'[s] = y /\ \A u \in Subs \ {s} : sub'[u] = sub[u]
  BY <1>5, <1>6
<1> QED BY <1>3, <1>4, <1>5, <1>6, <1>7 DEF y, x

(* The session of a request that holds *)
LEMMA HeldSession ==
  ASSUME IInv, NEW r \in Requests, req[r].pc \in {"held", "settling"}, NEW u \in Nat
  PROVE  /\ req[r].sub \in Subs /\ req[r].sub # NoSub /\ req[r].sub = paid[r].sub
         /\ req[r].pre = paid[r].amt /\ paid[r].amt \in Int /\ SettleDelta(r, u) \in Int
         /\ paid[r].amt + SettleDelta(r, u) >= 0
<1>1. Knows(req[r].pc, req[r], rec[r], paid[r]) /\ req[r] \in ReqType /\ paid[r] \in PaidType
  BY Values
<1>2. req[r].sub \in Subs /\ req[r].sub = paid[r].sub /\ req[r].pre = paid[r].amt /\ paid[r].amt \in Int
      /\ paid[r].amt >= 0 /\ req[r].pre \in Nat
  BY <1>1 DEF Knows, ReqType, PaidType
<1>3. req[r].sub # NoSub
  BY <1>2, PlanFacts
<1> QED BY <1>2, <1>3 DEF SettleDelta

(* A settle begins, or has nothing to do. *)
LEMMA I_BeginSettle ==
  ASSUME IInv, NEW r \in Requests, BeginSettle(r)
  PROVE  IInv'
<1>1. req[r].pc = "held" /\ UNCHANGED <<now, sub, rec, want, round, job, faults, paid, strayed>>
  BY DEF BeginSettle
<1>2. TypeOK /\ Knows(req[r].pc, req[r], rec[r], paid[r]) /\ "settled" \in Ends
  BY Values DEF IInv, Ends
<1>3. CASE End(r, "settled") /\ UNCHANGED tx
  <2>1. TypeOK' /\ Alone(r)
    BY <1>1, <1>2, <1>3, Types, TypesNext, EndFacts DEF Alone
  <2>2. Knows(req'[r].pc, req'[r], rec'[r], paid'[r])
    BY <1>1, <1>2, <1>3, EndFacts DEF Knows
  <2>3. Clocked(req'[r]) /\ req'[r].pc \notin TxPoints
    BY <1>2, <1>3, EndFacts
  <2> QED BY <1>1, <2>1, <2>2, <2>3, SameRows, RequestFrame
<1>4. ASSUME NEW u \in Usages, req' = [req EXCEPT ![r] = [@ EXCEPT !.pc = "settling", !.usage = u,
                                                             !.heldAt = 0, !.readAt = 0]],
             tx' = [tx EXCEPT ![r] = Open]
      PROVE  IInv'
  <2>1. u \in Nat /\ req \in [Requests -> ReqType]
    BY <1>2, <1>4, LedgerAssumption, Types
  <2>2. req' = [req EXCEPT ![r] = [req[r] EXCEPT !.pc = "settling", !.usage = u,
                                                      !.heldAt = 0, !.readAt = 0]]
    BY <1>4
  <2>3. /\ req' \in [Requests -> ReqType] /\ \A q \in Requests \ {r} : req'[q] = req[q]
        /\ req'[r].pc = "settling" /\ req'[r].sub = req[r].sub /\ req'[r].pre = req[r].pre
        /\ req'[r].ws = req[r].ws
    BY <2>1, <2>2 DEF ReqType, Points
  <2>4. TypeOK' /\ Alone(r) /\ tx'[r] = Open
    BY <1>1, <1>2, <1>4, <2>3, Types, TypesNext, OpenFacts DEF Alone
  <2>5. Knows(req'[r].pc, req'[r], rec'[r], paid'[r])
    BY <1>1, <1>2, <2>3 DEF Knows
  <2>6. Clocked(req'[r])
    BY <2>3 DEF Clocked
  <2> QED BY <1>1, <2>4, <2>5, <2>6, OpenFacts, SameRows, RequestFrame
<1> QED BY <1>3, <1>4 DEF BeginSettle

(* The two ways a settle ends: it writes nothing, or it writes the difference
   to the row of its subscription. *)
SettleCommits(r, o) ==
    LET s == req[r].sub
        x == tx[r].rows[s]
        da == SettleDelta(r, req[r].usage)
    IN /\ ~ ClosedWindow(x, req[r].ws, req[r].we) /\ ~ Exceeds(s, x, da, 0)
       /\ Commit(tx[r], {s}, o) /\ o # "lost"
       /\ sub' = [sub EXCEPT ![s] = Delta(s, x, da, 0)]
       /\ paid' = [paid EXCEPT ![r].amt = @ + da]
       /\ strayed' = [strayed EXCEPT ![s] =
                        IF paid[r].win = x.last THEN @
                        ELSE @ \cup {IF req[r].ws = paid[r].win THEN "settle" ELSE "replay"}]

(* PostConsumeUserSubscriptionDelta *)
LEMMA SettleCommit ==
  ASSUME IInv, NEW r \in Requests, CommitSettle(r)
  PROVE  /\ End(r, "settled") \/ End(r, "settle_error")
         /\ faults' \in 0 .. MaxFaults
         /\ UNCHANGED <<sub, paid, strayed>> \/ \E o \in Outcomes : SettleCommits(r, o)
<1> DEFINE s == req[r].sub
           x == tx[r].rows[s]
           da == SettleDelta(r, req[r].usage)
           closed == ClosedWindow(x, req[r].ws, req[r].we)
<1>1. CASE closed \/ Exceeds(s, x, da, 0)
  <2>1. UNCHANGED <<sub, paid, strayed, faults>> /\ End(r, IF closed THEN "settled" ELSE "settle_error")
    BY <1>1 DEF CommitSettle
  <2>2. faults \in 0 .. MaxFaults
    BY DEF IInv, TypeOK
  <2> QED BY <2>1, <2>2
<1>2. CASE ~ (closed \/ Exceeds(s, x, da, 0))
  <2>1. PICK o \in Outcomes :
          /\ Commit(tx[r], {s}, o)
          /\ End(r, IF o = "ok" THEN "settled" ELSE "settle_error")
          /\ IF o = "lost" THEN UNCHANGED <<sub, paid, strayed>>
             ELSE /\ sub' = [sub EXCEPT ![s] = Delta(s, x, da, 0)]
                  /\ paid' = [paid EXCEPT ![r].amt = @ + da]
                  /\ strayed' = [strayed EXCEPT ![s] =
                                   IF paid[r].win = x.last THEN @
                                   ELSE @ \cup {IF req[r].ws = paid[r].win THEN "settle" ELSE "replay"}]
    BY <1>2 DEF CommitSettle
  <2>2. faults' \in 0 .. MaxFaults
    BY <2>1, CommitFacts DEF IInv
  <2>3. o # "lost" => SettleCommits(r, o)
    BY <1>2, <2>1 DEF SettleCommits
  <2> QED BY <2>1, <2>2, <2>3
<1> QED BY <1>1, <1>2

(* A settle commits, or fails. *)
LEMMA I_CommitSettle ==
  ASSUME IInv, NEW r \in Requests, CommitSettle(r)
  PROVE  IInv'
<1>1. req[r].pc = "settling" /\ Close(r) /\ UNCHANGED <<now, rec, want, round, job>>
  BY DEF CommitSettle
<1>2. TypeOK /\ Knows(req[r].pc, req[r], rec[r], paid[r]) /\ req[r].usage \in Nat /\ paid[r] \in PaidType
      /\ "settled" \in Ends /\ "settle_error" \in Ends
  BY Values DEF IInv, ReqType, Ends
<1> DEFINE s == req[r].sub
           da == SettleDelta(r, req[r].usage)
<1>3. s \in Subs /\ s # NoSub /\ s = paid[r].sub /\ da \in Int /\ paid[r].amt \in Int /\ paid[r].amt + da >= 0
  BY <1>1, <1>2, HeldSession
<1> HIDE DEF da
<1>4. /\ req' \in [Requests -> ReqType] /\ \A q \in Requests \ {r} : req'[q] = req[q]
      /\ req'[r].pc \in {"settled", "settle_error"} /\ req'[r].sub = NoSub
      /\ Clocked(req'[r]) /\ req'[r].pc \notin TxPoints
  BY <1>2, SettleCommit, EndFacts
<1> DEFINE Kept ==
             /\ sub' \in [Subs -> RowType] /\ (\A u \in Subs : RowGood(u, sub'[u], now))
             /\ paid' \in [Requests -> PaidType] /\ (\A q \in Requests \ {r} : paid'[q] = paid[q])
             /\ paid'[r].sub = s /\ paid'[r].amt >= 0
             /\ strayed' \in [Subs -> SUBSET {"refund", "settle", "replay"}]
<1>5. Kept
  <2>1. CASE UNCHANGED <<sub, paid, strayed>>
    BY <1>2, <1>3, <2>1, SameRows, Types DEF Knows
  <2>2. ASSUME NEW o \in Outcomes, SettleCommits(r, o)
        PROVE  Kept
    <3>1. /\ ~ Exceeds(s, tx[r].rows[s], da, 0) /\ sub' = [sub EXCEPT ![s] = Delta(s, tx[r].rows[s], da, 0)]
          /\ paid' = [paid EXCEPT ![r].amt = @ + da]
          /\ strayed' = [strayed EXCEPT ![s] =
                 IF paid[r].win = tx[r].rows[s].last THEN @
                 ELSE @ \cup {IF req[r].ws = paid[r].win THEN "settle" ELSE "replay"}]
      BY <2>2 DEF SettleCommits, da
    <3>2. sub' \in [Subs -> RowType] /\ \A u \in Subs : RowGood(u, sub'[u], now)
      <4>1. req[r].pc \in TxPoints
        BY <1>1 DEF TxPoints
      <4>2. 0 \in Int /\ 0 <= 0 /\ s \in Subs /\ da \in Int
        BY <1>3
      <4> HIDE DEF s
      <4> QED BY <3>1, <4>1, <4>2, DeltaRow
    <3> DEFINE n == paid[r].amt + da
    <3>3. paid' = [paid EXCEPT ![r] = [paid[r] EXCEPT !.amt = n]] /\ n \in Int /\ n >= 0
      BY <1>3, <3>1
    <3> HIDE DEF n
    <3>4. /\ paid' \in [Requests -> PaidType] /\ (\A q \in Requests \ {r} : paid'[q] = paid[q])
          /\ paid'[r].sub = s /\ paid'[r].amt >= 0
      <4>1. paid \in [Requests -> PaidType]
        BY <1>2, Types
      <4> QED BY <1>3, <3>3, <4>1 DEF PaidType
    <3>5. strayed' \in [Subs -> SUBSET {"refund", "settle", "replay"}]
      <4>1. strayed \in [Subs -> SUBSET {"refund", "settle", "replay"}]
        BY <1>2, Types
      <4> QED BY <1>3, <3>1, <4>1
    <3> QED BY <3>2, <3>4, <3>5
  <2> QED BY <2>1, <2>2, SettleCommit
<1>6. TypeOK' /\ Alone(r)
  BY <1>1, <1>2, <1>4, <1>5, Types, TypesNext, CloseFacts, SettleCommit DEF Alone
<1>7. Knows(req'[r].pc, req'[r], rec'[r], paid'[r])
  BY <1>1, <1>2, <1>3, <1>4, <1>5 DEF Knows
<1> QED BY <1>1, <1>4, <1>5, <1>6, <1>7, RequestFrame

(* A refund begins. *)
LEMMA I_BeginRefund ==
  ASSUME IInv, NEW r \in Requests, BeginRefund(r)
  PROVE  IInv'
<1>1. /\ req[r].pc = "held" /\ UNCHANGED <<now, sub, rec, want, round, job, faults, paid, strayed>>
      /\ req' = [req EXCEPT ![r] = [NewReq EXCEPT !.pc = "refunding"]]
      /\ tx' = [tx EXCEPT ![r] = Open]
  BY DEF BeginRefund
<1>2. TypeOK /\ Knows(req[r].pc, req[r], rec[r], paid[r]) /\ req \in [Requests -> ReqType]
  BY Values, Types DEF IInv
<1>3. /\ req' \in [Requests -> ReqType] /\ \A q \in Requests \ {r} : req'[q] = req[q]
      /\ req'[r].pc = "refunding"
  BY <1>1, <1>2, PlanFacts DEF ReqType, Points, NewReq, Ends
<1>4. TypeOK' /\ Alone(r) /\ tx'[r] = Open
  BY <1>1, <1>2, <1>3, Types, TypesNext, OpenFacts DEF Alone
<1>5. Knows(req'[r].pc, req'[r], rec'[r], paid'[r])
  BY <1>1, <1>2, <1>3 DEF Knows
<1>6. Clocked(req'[r])
  BY <1>3 DEF Clocked
<1> QED BY <1>1, <1>4, <1>5, <1>6, OpenFacts, SameRows, RequestFrame

(* A refund ends, or is tried again. *)
LEMMA RefundEnds ==
  ASSUME IInv, NEW r \in Requests, req[r].pc = "refunding",
         (End(r, "refunded") /\ Close(r)) \/ RefundFails(r)
  PROVE  /\ req' \in [Requests -> ReqType] /\ tx' \in [Requests -> TxType]
         /\ \A q \in Requests \ {r} : req'[q] = req[q] /\ tx'[q] = tx[q]
         /\ req'[r].pc \in {"refunding", "refunded", "refund_error"} /\ Clocked(req'[r])
         /\ req'[r].pc \in TxPoints => tx'[r] \in OpenTx /\ Snapshot(tx'[r])
<1>1. TypeOK /\ "refunded" \in Ends /\ "refund_error" \in Ends
  BY DEF IInv, Ends
<1>2. CASE End(r, "refunded") /\ Close(r)
  BY <1>1, <1>2, EndFacts, CloseFacts
<1>3. CASE End(r, "refund_error") /\ Close(r)
  BY <1>1, <1>3, EndFacts, CloseFacts
<1>4. CASE req' = [req EXCEPT ![r].tries = @ + 1] /\ tx' = [tx EXCEPT ![r] = Open]
  <2> DEFINE n == req[r].tries + 1
  <2>1. req \in [Requests -> ReqType] /\ n \in Nat /\ tx \in [Requests -> TxType]
    BY <1>1, Types DEF ReqType
  <2>2. req' = [req EXCEPT ![r] = [req[r] EXCEPT !.tries = n]]
    BY <1>4
  <2> HIDE DEF n
  <2>3. /\ req' \in [Requests -> ReqType] /\ \A q \in Requests \ {r} : req'[q] = req[q]
        /\ req'[r].pc = req[r].pc
    BY <2>1, <2>2 DEF ReqType
  <2>4. tx' \in [Requests -> TxType] /\ tx'[r] = Open /\ \A q \in Requests \ {r} : tx'[q] = tx[q]
    BY <1>4, <2>1, OpenFacts
  <2>5. Clocked(req'[r])
    BY <2>3 DEF Clocked
  <2> QED BY <2>3, <2>4, <2>5, OpenFacts
<1> QED BY <1>2, <1>3, <1>4 DEF RefundFails

(* A refund without a record to refund *)
LEMMA I_RefundNoRecord ==
  ASSUME IInv, NEW r \in Requests, RefundNoRecord(r)
  PROVE  IInv'
<1>1. /\ req[r].pc = "refunding" /\ rec[r].status # "consumed"
      /\ UNCHANGED <<now, sub, rec, want, round, job, faults, paid, strayed>>
      /\ (End(r, "refunded") /\ Close(r)) \/ RefundFails(r)
  BY DEF RefundNoRecord
<1>2. TypeOK /\ Knows(req[r].pc, req[r], rec[r], paid[r])
  BY Values DEF IInv
<1>3. TypeOK' /\ Alone(r)
  BY <1>1, <1>2, Types, TypesNext, RefundEnds DEF Alone
<1>4. Knows(req'[r].pc, req'[r], rec'[r], paid'[r])
  BY <1>1, <1>2, RefundEnds DEF Knows
<1> QED BY <1>1, <1>3, <1>4, RefundEnds, SameRows, RequestFrame

(* A refund that takes effect returns what the record says. *)
RefundCommits(r, o) ==
    LET s == rec[r].sub
        x == tx[r].rows[s]
    IN /\ Commit(tx[r], {s}, o) /\ o # "lost"
       /\ sub' = [sub EXCEPT ![s] = Delta(s, x, - rec[r].amt, - rec[r].cnt)]
       /\ MarkRefunded(r)
       /\ paid' = [paid EXCEPT ![r] = [paid[r] EXCEPT !.amt = 0, !.cnt = 0]]
       /\ strayed' = [strayed EXCEPT ![s] =
                        IF paid[r].win = x.last THEN @ ELSE @ \cup {"refund"}]

(* RefundSubscriptionPreConsume *)
LEMMA RefundCommit ==
  ASSUME IInv, NEW r \in Requests, CommitRefund(r)
  PROVE  /\ (End(r, "refunded") /\ Close(r)) \/ RefundFails(r)
         /\ faults' \in 0 .. MaxFaults
         /\ UNCHANGED <<sub, rec, paid, strayed>> \/ \E o \in Outcomes : RefundCommits(r, o)
<1> DEFINE s == rec[r].sub
           x == tx[r].rows[s]
<1>1. PICK o \in Outcomes :
        /\ Commit(tx[r], {s}, o)
        /\ IF o = "lost" THEN UNCHANGED <<sub, rec, paid, strayed>>
           ELSE /\ sub' = [sub EXCEPT ![s] = Delta(s, x, - rec[r].amt, - rec[r].cnt)]
                /\ MarkRefunded(r)
                /\ paid' = [paid EXCEPT ![r] = [paid[r] EXCEPT !.amt = 0, !.cnt = 0]]
                /\ strayed' = [strayed EXCEPT ![s] =
                                 IF paid[r].win = x.last THEN @ ELSE @ \cup {"refund"}]
        /\ IF o = "ok" THEN End(r, "refunded") /\ Close(r) ELSE RefundFails(r)
  BY DEF CommitRefund
<1>2. faults' \in 0 .. MaxFaults
  BY <1>1, CommitFacts DEF IInv
<1>3. o # "lost" => RefundCommits(r, o)
  BY <1>1 DEF RefundCommits
<1> QED BY <1>1, <1>2, <1>3

(* What a refund knows of the charge *)
LEMMA RefundSession ==
  ASSUME IInv, NEW r \in Requests, req[r].pc = "refunding", rec[r].status = "consumed"
  PROVE  /\ rec[r].sub \in Subs /\ rec[r].sub # NoSub /\ rec[r].sub = paid[r].sub
         /\ rec[r].amt = paid[r].amt /\ rec[r].cnt = paid[r].cnt
         /\ rec[r].amt \in Nat /\ rec[r].cnt \in Nat
         /\ - rec[r].amt \in Int /\ - rec[r].cnt \in Int /\ - rec[r].amt <= 0 /\ - rec[r].cnt <= 0
<1>1. Knows(req[r].pc, req[r], rec[r], paid[r]) /\ rec[r] \in RecType
  BY Values
<1>2. rec[r].sub \in Subs /\ rec[r].sub = paid[r].sub /\ rec[r].amt = paid[r].amt
      /\ rec[r].cnt = paid[r].cnt /\ rec[r].amt \in Nat /\ rec[r].cnt \in Nat
  BY <1>1 DEF Knows, RecType
<1>3. rec[r].sub # NoSub
  BY <1>2, PlanFacts
<1> QED BY <1>2, <1>3

(* The charge after a refund *)
LEMMA RefundedCharge ==
  ASSUME NEW d \in PaidType
  PROVE  LET z == [d EXCEPT !.amt = 0, !.cnt = 0] IN
         z \in PaidType /\ z.sub = d.sub /\ z.win = d.win /\ z.amt = 0 /\ z.cnt = 0
<1>1. \A x \in Int, y \in Nat :
        LET z == [d EXCEPT !.amt = x, !.cnt = y] IN
        z \in PaidType /\ z.sub = d.sub /\ z.win = d.win /\ z.amt = x /\ z.cnt = y
  BY DEF PaidType
<1>2. 0 \in Int /\ 0 \in Nat
  OBVIOUS
<1> QED BY <1>1, <1>2, Zenon

(* A refund commits, or fails. *)
LEMMA I_CommitRefund ==
  ASSUME IInv, NEW r \in Requests, CommitRefund(r)
  PROVE  IInv'
<1>1. req[r].pc = "refunding" /\ rec[r].status = "consumed" /\ UNCHANGED <<now, want, round, job>>
  BY DEF CommitRefund
<1>2. TypeOK /\ Knows(req[r].pc, req[r], rec[r], paid[r]) /\ now \in Nat
  <2>1. TypeOK
    BY DEF IInv
  <2>2. now \in Nat
    BY <2>1 DEF TypeOK, StartTime
  <2> QED BY <2>1, <2>2, Values
<1> DEFINE s == rec[r].sub
           Kept == /\ sub' \in [Subs -> RowType] /\ (\A u \in Subs : RowGood(u, sub'[u], now))
                   /\ paid' \in [Requests -> PaidType] /\ (\A q \in Requests \ {r} : paid'[q] = paid[q])
                   /\ rec' \in [Requests -> RecType] /\ (\A q \in Requests \ {r} : rec'[q] = rec[q])
                   /\ strayed' \in [Subs -> SUBSET {"refund", "settle", "replay"}]
                   /\ UNCHANGED <<rec, paid>> \/
                      ( /\ paid'[r].sub = s /\ paid'[r].amt = 0 /\ rec'[r].status = "refunded"
                        /\ rec'[r].sub = s /\ rec'[r].created = rec[r].created )
<1>3. s \in Subs /\ s # NoSub /\ s = paid[r].sub
  BY <1>1, RefundSession
<1>4. Kept
  <2>1. CASE UNCHANGED <<sub, rec, paid, strayed>>
    BY <1>2, <2>1, SameRows, Types
  <2>2. ASSUME NEW o \in Outcomes, RefundCommits(r, o)
        PROVE  Kept
    <3>1. /\ sub' = [sub EXCEPT ![s] = Delta(s, tx[r].rows[s], - rec[r].amt, - rec[r].cnt)]
          /\ rec' = [rec EXCEPT ![r] = [rec[r] EXCEPT !.status = "refunded", !.updated = now]]
          /\ paid' = [paid EXCEPT ![r] = [paid[r] EXCEPT !.amt = 0, !.cnt = 0]]
          /\ strayed' = [strayed EXCEPT ![s] =
                 IF paid[r].win = tx[r].rows[s].last THEN @ ELSE @ \cup {"refund"}]
      BY <2>2 DEF RefundCommits, MarkRefunded
    <3>2. sub' \in [Subs -> RowType] /\ \A u \in Subs : RowGood(u, sub'[u], now)
      <4>1. req[r].pc \in TxPoints
        BY <1>1 DEF TxPoints
      <4> DEFINE da == - rec[r].amt
                 dc == - rec[r].cnt
      <4>2. da \in Int /\ dc \in Int /\ da <= 0 /\ dc <= 0
        BY <1>1, RefundSession
      <4>3. sub' = [sub EXCEPT ![s] = Delta(s, tx[r].rows[s], da, dc)]
        BY <3>1
      <4> HIDE DEF s, da, dc
      <4> QED BY <1>3, <4>1, <4>2, <4>3, DeltaRow
    <3>3. paid \in [Requests -> PaidType] /\ rec \in [Requests -> RecType]
          /\ strayed \in [Subs -> SUBSET {"refund", "settle", "replay"}]
      BY <1>2, Types
    <3>4. /\ paid' \in [Requests -> PaidType] /\ (\A q \in Requests \ {r} : paid'[q] = paid[q])
          /\ paid'[r].sub = s /\ paid'[r].amt = 0
      <4> DEFINE z == [paid[r] EXCEPT !.amt = 0, !.cnt = 0]
      <4>1. paid[r] \in PaidType
        BY <3>3
      <4>2. z \in PaidType /\ z.sub = paid[r].sub /\ z.amt = 0
        BY <4>1, RefundedCharge
      <4>3. paid' = [paid EXCEPT ![r] = z]
        BY <3>1
      <4> HIDE DEF z
      <4> QED BY <1>3, <3>3, <4>2, <4>3
    <3>5. /\ rec' \in [Requests -> RecType] /\ (\A q \in Requests \ {r} : rec'[q] = rec[q])
          /\ rec'[r].status = "refunded" /\ rec'[r].sub = s /\ rec'[r].created = rec[r].created
      <4> DEFINE z == [rec[r] EXCEPT !.status = "refunded", !.updated = now]
      <4>1. rec[r] \in RecType
        BY <3>3
      <4>2. z \in RecType /\ z.status = "refunded" /\ z.sub = s /\ z.created = rec[r].created
        BY <1>2, <4>1 DEF RecType
      <4>3. rec' = [rec EXCEPT ![r] = z]
        BY <3>1
      <4> HIDE DEF z
      <4> QED BY <3>3, <4>2, <4>3
    <3>6. strayed' \in [Subs -> SUBSET {"refund", "settle", "replay"}]
      BY <1>3, <3>1, <3>3
    <3> QED BY <3>2, <3>4, <3>5, <3>6
  <2> QED BY <2>1, <2>2, RefundCommit
<1>5. /\ req' \in [Requests -> ReqType] /\ tx' \in [Requests -> TxType]
      /\ \A q \in Requests \ {r} : req'[q] = req[q] /\ tx'[q] = tx[q]
      /\ req'[r].pc \in {"refunding", "refunded", "refund_error"} /\ Clocked(req'[r])
      /\ req'[r].pc \in TxPoints => tx'[r] \in OpenTx /\ Snapshot(tx'[r])
  BY <1>1, RefundCommit, RefundEnds
<1>6. TypeOK' /\ Alone(r)
  BY <1>1, <1>2, <1>4, <1>5, Types, TypesNext, RefundCommit DEF Alone
<1>7. Knows(req'[r].pc, req'[r], rec'[r], paid'[r])
  BY <1>1, <1>2, <1>3, <1>4, <1>5 DEF Knows
<1> QED BY <1>1, <1>4, <1>5, <1>6, <1>7, RequestFrame

(* A step of the reset task that leaves rows and requests alone *)
LEMMA RoundFrame ==
  ASSUME IInv, UNCHANGED <<now, sub, rec, req, want, tx, paid, strayed>>,
         faults' \in 0 .. MaxFaults, round' \in RoundType,
         round'.due # {} => Past(round'.at),
         job' = job \/ (job' \in OpenJob /\ job'.rows = sub /\ job'.at = now /\ Past(job'.clock))
  PROVE  IInv'
<1>1. TypeOK /\ now \in Nat /\ StartTime <= now /\ Past(now)
  BY NowFacts DEF Past
<1>2. TypeOK'
  BY <1>1, Types, TypesNext
<1>3. SessionInv'
  BY DEF IInv, SessionInv
<1>4. \A u \in Subs : RowGood(u, sub[u], now)
  BY DEF IInv, RowsInv
<1>5. job'.open => /\ job' \in OpenJob /\ Past(job'.at) /\ Past(job'.clock)
                   /\ \A u \in Subs : RowGood(u, job'.rows[u], job'.at)
  <2>1. CASE job' = job
    BY <2>1 DEF IInv, RowsInv
  <2>2. CASE job' \in OpenJob /\ job'.rows = sub /\ job'.at = now /\ Past(job'.clock)
    BY <1>1, <1>4, <2>2
  <2> QED BY <2>1, <2>2
<1>6. \A r \in Requests : req[r].pc \in TxPoints =>
        /\ tx[r] \in OpenTx /\ StartTime <= tx[r].at /\ tx[r].at <= now
        /\ \A u \in Subs : RowGood(u, tx[r].rows[u], tx[r].at)
  BY DEF IInv, RowsInv
<1>7. \A r \in Requests : Clocked(req[r])
  BY DEF IInv, RowsInv
<1>8. RowsInv'
  BY <1>4, <1>5, <1>6, <1>7 DEF RowsInv, Past, Clocked, RoundGood
<1> QED BY <1>2, <1>3, <1>8 DEF IInv

(* ResetDueSubscriptions lists the rows that are due. *)
LEMMA I_StartRound ==
  ASSUME IInv, StartRound
  PROVE  IInv'
<1> DEFINE D == {[sub |-> s, next |-> sub[s].next] : s \in {u \in Subs : Due(u)}}
<1>1. round' = [at |-> now, due |-> D]
      /\ UNCHANGED <<now, sub, rec, req, want, tx, job, faults, paid, strayed>>
  BY DEF StartRound
<1>2. now \in Nat /\ StartTime <= now /\ sub \in [Subs -> RowType] /\ faults \in 0 .. MaxFaults
  BY NowFacts, Types
<1>3. D \in SUBSET [sub : Subs, next : Nat]
  <2>1. ASSUME NEW s \in Subs PROVE sub[s].next \in Nat
    BY <1>2, RowFields
  <2> QED BY <2>1
<1> HIDE DEF D
<1>4. round' \in RoundType /\ round'.at = now
  BY <1>1, <1>2, <1>3 DEF RoundType
<1>5. Past(round'.at)
  BY <1>2, <1>4 DEF Past
<1> QED BY <1>1, <1>2, <1>4, <1>5, RoundFrame

(* A row of the round is taken off the list. *)
LEMMA RestFacts ==
  ASSUME IInv, NEW d \in round.due, round' = Rest(round.due \ {d})
  PROVE  /\ d \in [sub : Subs, next : Nat] /\ round.at \in Nat /\ Past(round.at)
         /\ round' \in RoundType /\ (round'.due # {} => Past(round'.at))
<1>1. round \in RoundType /\ Past(round.at)
  BY Types DEF IInv, RowsInv, RoundGood
<1>2. d \in [sub : Subs, next : Nat] /\ round.at \in Nat
      /\ round.due \ {d} \in SUBSET [sub : Subs, next : Nat]
  BY <1>1 DEF RoundType
<1> DEFINE D == round.due \ {d}
<1> HIDE DEF D
<1>3. D \in SUBSET [sub : Subs, next : Nat] /\ round' = Rest(D)
  BY <1>2 DEF D
<1>4. CASE D = {}
  <2>1. round' = NoRound
    BY <1>3, <1>4 DEF Rest
  <2>2. NoRound \in RoundType /\ NoRound.due = {}
    BY DEF NoRound, RoundType
  <2> QED BY <1>1, <1>2, <2>1, <2>2
<1>5. CASE D # {}
  <2>1. round' = [round EXCEPT !.due = D]
    BY <1>3, <1>5 DEF Rest
  <2>2. round' \in RoundType /\ round'.at = round.at
    BY <1>1, <1>3, <2>1 DEF RoundType
  <2> QED BY <1>1, <1>2, <2>2
<1> QED BY <1>4, <1>5

(* A row of the round is passed over. *)
LEMMA I_SkipDue ==
  ASSUME IInv, NEW d \in round.due, SkipDue(d)
  PROVE  IInv'
<1>1. /\ faults < MaxFaults /\ faults' = faults + 1 /\ round' = Rest(round.due \ {d})
      /\ UNCHANGED <<now, sub, rec, req, want, tx, job, paid, strayed>>
  BY DEF SkipDue
<1>2. faults' \in 0 .. MaxFaults
  BY <1>1, Types, LedgerAssumption DEF IInv
<1> QED BY <1>1, <1>2, RestFacts, RoundFrame

(* The reset task opens its transaction, or finds the row reset already. *)
LEMMA I_BeginReset ==
  ASSUME IInv, NEW d \in round.due, BeginReset(d)
  PROVE  IInv'
<1> DEFINE z == [open |-> TRUE, rows |-> sub, at |-> now, s |-> d.sub, clock |-> round.at]
<1>1. /\ job' = z \/ job' = job
      /\ round' = Rest(round.due \ {d})
      /\ UNCHANGED <<now, sub, rec, req, want, tx, faults, paid, strayed>>
  BY DEF BeginReset
<1>2. now \in Nat /\ sub \in [Subs -> RowType] /\ faults \in 0 .. MaxFaults
  BY NowFacts, Types
<1>3. d.sub \in Subs /\ round.at \in Nat /\ Past(round.at)
  BY <1>1, RestFacts
<1>4. z \in OpenJob /\ z.rows = sub /\ z.at = now /\ z.clock = round.at
  BY <1>2, <1>3 DEF OpenJob
<1> HIDE DEF z
<1>5. job' = job \/ (job' \in OpenJob /\ job'.rows = sub /\ job'.at = now /\ Past(job'.clock))
  BY <1>1, <1>3, <1>4
<1> QED BY <1>1, <1>2, <1>5, RestFacts, RoundFrame

(* The row the reset task read, brought up to the clock of its round *)
LEMMA JobFacts ==
  ASSUME IInv, job.open
  PROVE  /\ job \in OpenJob /\ job.s \in Subs /\ now \in Nat
         /\ job.rows[job.s] \in RowType
         /\ ResetTo(job.s, job.rows[job.s], ResetRow(job.s, job.rows[job.s], job.clock), now)
<1>1. job \in OpenJob /\ Past(job.at) /\ Past(job.clock)
      /\ \A s \in Subs : RowGood(s, job.rows[s], job.at)
  BY DEF IInv, RowsInv
<1>2. now \in Nat
  BY DEF IInv, TypeOK, StartTime
<1>3. job.s \in Subs /\ job.at \in Nat /\ job.clock \in Nat /\ job.rows[job.s] \in RowType
  BY <1>1 DEF OpenJob
<1>4. RowGood(job.s, job.rows[job.s], job.at)
  BY <1>1, <1>3
<1> QED BY <1>1, <1>2, <1>3, <1>4, ResetRowByClock DEF Past

(* A change of rows only, with the end of the reset task's transaction or round *)
LEMMA RowsFrame ==
  ASSUME IInv, TypeOK', UNCHANGED <<now, rec, req, tx, paid>>, job' \in {job, NoTx},
         round' \in {round, NoRound},
         \A s \in Subs : RowGood(s, sub'[s], now)
  PROVE  IInv'
<1>1. SessionInv'
  BY DEF IInv, SessionInv
<1>2. job'.open => /\ job' \in OpenJob /\ Past(job'.at) /\ Past(job'.clock)
                   /\ \A s \in Subs : RowGood(s, job'.rows[s], job'.at)
  BY DEF IInv, RowsInv, NoTx
<1>3. \A r \in Requests : req[r].pc \in TxPoints =>
          /\ tx[r] \in OpenTx /\ StartTime <= tx[r].at /\ tx[r].at <= now
          /\ \A s \in Subs : RowGood(s, tx[r].rows[s], tx[r].at)
  BY DEF IInv, RowsInv
<1>4. \A r \in Requests : Clocked(req[r])
  BY DEF IInv, RowsInv
<1>5. round'.due # {} => Past(round'.at)
  BY DEF IInv, RowsInv, RoundGood, NoRound
<1> QED BY <1>1, <1>2, <1>3, <1>4, <1>5 DEF IInv, RowsInv, Past, Clocked, RoundGood

(* The reset task commits, or fails. *)
LEMMA I_CommitReset ==
  ASSUME IInv, CommitReset
  PROVE  IInv'
<1>1. job.open /\ job' = NoTx /\ UNCHANGED <<now, rec, req, want, tx, paid>>
  BY DEF CommitReset
<1> DEFINE s == job.s
           y == ResetRow(s, job.rows[s], job.clock)
<1>2. PICK o \in Outcomes :
        /\ Commit(job, {s}, o)
        /\ IF o = "lost" THEN UNCHANGED <<sub, strayed>>
           ELSE sub' = [sub EXCEPT ![s] = y] /\ KeepStrayed(strayed)
        /\ round' \in {round, NoRound}
  BY DEF CommitReset
<1>3. s \in Subs /\ y \in RowType /\ RowGood(s, y, now) /\ TypeOK
  BY <1>1, JobFacts DEF IInv, ResetTo
<1> HIDE DEF s, y
<1>4. sub \in [Subs -> RowType] /\ \A u \in Subs : RowGood(u, sub[u], now)
  BY DEF IInv, RowsInv, TypeOK
<1>5. sub' \in [Subs -> RowType] /\ \A u \in Subs : RowGood(u, sub'[u], now)
  BY <1>2, <1>3, <1>4
<1>6. strayed' \in [Subs -> SUBSET {"refund", "settle", "replay"}]
  BY <1>2, <1>3, StrayedType, Types
<1>7. round' \in RoundType
  <2>1. NoRound \in RoundType
    BY DEF NoRound, RoundType
  <2> QED BY <1>2, <1>3, <2>1, Types
<1>8. TypeOK'
  BY <1>1, <1>2, <1>3, <1>5, <1>6, <1>7, CommitFacts, Types, TypesNext
<1> QED BY <1>1, <1>2, <1>5, <1>8, RowsFrame

(* ExpireDueSubscriptions *)
LEMMA I_Expire ==
  ASSUME IInv, Expire
  PROVE  IInv'
<1>1. /\ sub' = [s \in Subs |-> IF Plan[s].end > 0 /\ Plan[s].end <= now
                                  THEN [sub[s] EXCEPT !.status = "expired"] ELSE sub[s]]
      /\ UNCHANGED <<now, rec, req, want, tx, round, job, faults, paid, strayed>>
  BY DEF Expire
<1>2. TypeOK
  BY DEF IInv
<1>3. ASSUME NEW s \in Subs PROVE sub'[s] \in RowType /\ RowGood(s, sub'[s], now)
  <2> DEFINE y == [sub[s] EXCEPT !.status = "expired"]
  <2>1. sub[s] \in RowType /\ RowGood(s, sub[s], now)
    BY <1>2, Types DEF IInv, RowsInv
  <2>2. /\ y \in RowType /\ y.last = sub[s].last /\ y.next = sub[s].next
        /\ y.amt = sub[s].amt /\ y.cnt = sub[s].cnt /\ y.per = sub[s].per
    BY <2>1 DEF RowType
  <2>3. sub'[s] = y \/ sub'[s] = sub[s]
    BY <1>1
  <2> HIDE DEF y
  <2>4. RowGood(s, y, now)
    BY <2>1, <2>2 DEF RowGood, Aligned, Bounded, CurrentCount
  <2> QED BY <2>1, <2>2, <2>3, <2>4
<1>4. TypeOK'
  BY <1>1, <1>2, <1>3, Types, TypesNext
<1> QED BY <1>1, <1>3, <1>4, RowsFrame

(* CleanupSubscriptionPreConsumeRecords *)
LEMMA I_Cleanup ==
  ASSUME IInv, Cleanup
  PROVE  IInv'
<1>1. /\ rec' = [r \in Requests |-> IF TooOld(r) THEN NoRec ELSE rec[r]]
      /\ UNCHANGED <<now, sub, req, want, tx, round, job, faults, paid, strayed>>
  BY DEF Cleanup
<1>2. NoRec \in RecType /\ NoRec.status = "none" /\ TypeOK
  BY DEF NoRec, RecType, IInv, NoSub
<1>3. TypeOK'
  BY <1>1, <1>2, Types, TypesNext
<1>4. RowsInv'
  BY <1>1 DEF IInv, RowsInv, Clocked, RoundGood, Past
<1>5. SessionInv'
  <2> SUFFICES ASSUME NEW r \in Requests PROVE Knows(req[r].pc, req[r], rec'[r], paid[r])
    BY <1>1 DEF SessionInv
  <2>1. Knows(req[r].pc, req[r], rec[r], paid[r])
    BY Values
  <2>2. CASE TooOld(r)
    <3>1. rec'[r] = NoRec /\ req[r].pc \notin {"new", "clocked", "holding"}
      BY <1>1, <2>2 DEF TooOld
    <3> QED BY <1>2, <2>1, <3>1 DEF Knows
  <2>3. CASE ~ TooOld(r)
    BY <1>1, <2>1, <2>3
  <2> QED BY <2>2, <2>3
<1> QED BY <1>3, <1>4, <1>5 DEF IInv

(* Time passes. *)
LEMMA I_Tick ==
  ASSUME IInv, Tick
  PROVE  IInv'
<1>1. /\ now < MaxTime /\ now' = now + 1
      /\ UNCHANGED <<sub, rec, req, want, tx, round, job, faults, paid, strayed>>
  BY DEF Tick
<1>2. TypeOK /\ now \in Nat /\ now' \in Nat /\ now <= now' /\ now' \in StartTime .. MaxTime
  BY <1>1, NowFacts, LedgerAssumption DEF StartTime
<1>3. TypeOK'
  BY <1>1, <1>2, Types, TypesNext
<1>4. SessionInv'
  BY <1>1 DEF IInv, SessionInv
<1>5. \A s \in Subs : RowGood(s, sub[s], now')
  <2> SUFFICES ASSUME NEW s \in Subs PROVE RowGood(s, sub[s], now')
    OBVIOUS
  <2>1. sub[s] \in RowType /\ RowGood(s, sub[s], now)
    BY <1>2, Types DEF IInv, RowsInv
  <2> QED BY <1>2, <2>1, GoodLater
<1>6. ASSUME NEW r \in Requests, req[r].pc \in TxPoints
      PROVE  /\ tx[r] \in OpenTx /\ StartTime <= tx[r].at /\ tx[r].at <= now'
             /\ \A s \in Subs : RowGood(s, tx[r].rows[s], tx[r].at)
  <2>1. /\ tx[r] \in OpenTx /\ StartTime <= tx[r].at /\ tx[r].at <= now
        /\ \A s \in Subs : RowGood(s, tx[r].rows[s], tx[r].at)
    BY <1>6 DEF IInv, RowsInv
  <2>2. tx[r].at \in Nat
    BY <2>1 DEF OpenTx
  <2> QED BY <1>2, <2>1, <2>2
<1>7. (job.open => /\ job \in OpenJob /\ Past(job.at) /\ Past(job.clock)
                   /\ \A s \in Subs : RowGood(s, job.rows[s], job.at))'
  <2> SUFFICES ASSUME job.open
               PROVE  /\ job \in OpenJob /\ Past(job.at)' /\ Past(job.clock)'
                      /\ \A s \in Subs : RowGood(s, job.rows[s], job.at)
    BY <1>1
  <2>1. /\ job \in OpenJob /\ Past(job.at) /\ Past(job.clock)
        /\ \A s \in Subs : RowGood(s, job.rows[s], job.at)
    BY DEF IInv, RowsInv
  <2>2. job.at \in Nat /\ job.clock \in Nat /\ job' = job
    BY <1>1, <2>1 DEF OpenJob
  <2> QED BY <1>2, <2>1, <2>2 DEF Past
<1>8. (\A r \in Requests : Clocked(req[r]))'
  <2> SUFFICES ASSUME NEW r \in Requests, req[r].pc \in {"clocked", "holding"}
               PROVE  StartTime <= req[r].heldAt /\ req[r].heldAt <= now'
    BY <1>1 DEF Clocked, Past
  <2>1. Past(req[r].heldAt) /\ req[r].heldAt \in Nat
    BY Values DEF Clocked, ReqType
  <2> QED BY <1>2, <2>1 DEF Past
<1>9. RoundGood'
  <2> SUFFICES ASSUME round.due # {} PROVE StartTime <= round.at /\ round.at <= now'
    BY <1>1 DEF RoundGood, Past
  <2>1. Past(round.at) /\ round.at \in Nat
    BY <1>2, Types DEF IInv, RowsInv, RoundGood, RoundType
  <2> QED BY <1>2, <2>1 DEF Past
<1>10. RowsInv'
  <2>1. \A s \in Subs : RowGood(s, sub'[s], now')
    BY <1>1, <1>5
  <2>2. \A r \in Requests : req'[r].pc \in TxPoints =>
          /\ tx'[r] \in OpenTx /\ StartTime <= tx'[r].at /\ tx'[r].at <= now'
          /\ \A s \in Subs : RowGood(s, tx'[r].rows[s], tx'[r].at)
    BY <1>1, <1>6
  <2> QED BY <1>7, <1>8, <1>9, <2>1, <2>2 DEF RowsInv
<1> QED BY <1>3, <1>4, <1>10 DEF IInv

(* The first state *)
LEMMA InitIInv == Init => IInv
<1> SUFFICES ASSUME Init PROVE IInv
  OBVIOUS
<1>1. /\ now = StartTime /\ sub = [s \in Subs |-> NewSub(s)] /\ rec = [r \in Requests |-> NoRec]
      /\ req = [r \in Requests |-> NewReq] /\ want \in [Requests -> Wants]
      /\ tx = [r \in Requests |-> NoTx] /\ round = NoRound /\ job = NoTx /\ faults = 0
      /\ paid = [r \in Requests |-> Unpaid] /\ strayed = [s \in Subs |-> {}]
  BY DEF Init
<1>2. StartTime = 1 /\ StartTime \in Nat /\ StartTime \in StartTime .. MaxTime /\ 0 \in 0 .. MaxFaults
  BY LedgerAssumption DEF StartTime
<1>3. ASSUME NEW s \in Subs PROVE NewSub(s) \in RowType /\ RowGood(s, NewSub(s), StartTime)
  <2> DEFINE n == NextReset(s, StartTime)
             l == IF n > 0 THEN StartTime ELSE 0
             y == NewSub(s)
  <2>1. y = [amt |-> 0, cnt |-> 0, per |-> 0, status |-> "active", next |-> n, last |-> l]
    BY DEF NewSub
  <2>2. n \in Nat /\ l \in Nat /\ (n > 0 => (Plan[s].end > 0 => n <= Plan[s].end))
        /\ (n > 0 => n = StartTime + Plan[s].period) /\ Plan[s].period \in Nat /\ Plan[s].end \in Nat
        /\ (Plan[s].end > 0 => Plan[s].end >= StartTime)
    BY <1>2, NextResetFacts, PlanFacts
  <2>3. Plan[s].period = 0 => n = 0
    BY DEF NextReset
  <2> HIDE DEF n, y
  <2>4. /\ y \in RowType /\ y.last = l /\ y.next = n /\ y.amt = 0 /\ y.cnt = 0 /\ y.per = 0
    BY <2>1, <2>2 DEF RowType
  <2>5. Plan[s].period > 0 => (StartTime - StartTime) % Plan[s].period = 0
    BY <1>2, <2>2
  <2>6. Aligned(s, y, StartTime)
    BY <1>2, <2>2, <2>3, <2>4, <2>5 DEF Aligned, n
  <2>7. Bounded(s, y)
    BY <2>4, PlanFacts, LimitFacts DEF Bounded, CurrentCount
  <2> QED BY <2>4, <2>6, <2>7 DEF RowGood, y
<1>4. NoRec \in RecType /\ NoRec.status = "none" /\ Unpaid \in PaidType /\ NewReq \in ReqType
      /\ NewReq.pc = "new" /\ NewReq.sub = NoSub /\ Unpaid.amt = 0
  BY DEF NoRec, RecType, Unpaid, PaidType, NewReq, ReqType, NoSub, Points
<1>5. TypeOK
  <2>1. sub \in [Subs -> RowType] /\ rec \in [Requests -> RecType] /\ req \in [Requests -> ReqType]
        /\ paid \in [Requests -> PaidType]
    BY <1>1, <1>3, <1>4
  <2>2. tx \in [Requests -> TxType] /\ strayed \in [Subs -> SUBSET {"refund", "settle", "replay"}]
    BY <1>1 DEF TxType
  <2>3. now \in StartTime .. MaxTime /\ faults \in 0 .. MaxFaults
    BY <1>1, <1>2
  <2>4. round \in RoundType
    BY <1>1 DEF NoRound, RoundType
  <2> QED BY <1>1, <2>1, <2>2, <2>3, <2>4, Types
<1>6. RowsInv
  BY <1>1, <1>3, <1>4 DEF RowsInv, TxPoints, NoTx, Clocked, RoundGood, NoRound
<1>7. SessionInv
  BY <1>1, <1>4 DEF SessionInv, Knows
<1> QED BY <1>5, <1>6, <1>7 DEF IInv

(* Every step keeps the invariant. *)
LEMMA NextIInv == IInv /\ [Next]_vars => IInv'
<1> SUFFICES ASSUME IInv, [Next]_vars PROVE IInv'
  OBVIOUS
<1>1. CASE UNCHANGED vars
  <2>1. UNCHANGED <<now, sub, rec, req, want, tx, round, job, faults, paid, strayed>>
    BY <1>1 DEF vars
  <2>2. TypeOK'
    BY <2>1, NowFacts, Types, TypesNext
  <2> QED BY <2>1, <2>2, SameRows, RowsFrame
<1>2. ASSUME NEW r \in Requests, RequestStep(r) PROVE IInv'
  BY <1>2, I_ReadClock, I_BeginHold, I_HoldAgain, I_NoneEligible, I_CommitHold, I_BeginSettle, I_CommitSettle,
     I_BeginRefund, I_RefundNoRecord, I_CommitRefund DEF RequestStep
<1>3. CASE ResetStep
  BY <1>3, I_StartRound, I_CommitReset, I_BeginReset, I_SkipDue DEF ResetStep
<1> QED BY <1>1, <1>2, <1>3, I_Expire, I_Cleanup, I_Tick DEF Next, Done

(* The invariant of all isolation levels holds in every reachable state. *)
THEOREM SpecIInv == Spec => []IInv
BY InitIInv, NextIInv, PTL DEF Spec

(* Type correctness: in particular no counter of a subscription becomes negative
   (the clamps of postConsumeUserSubscriptionDeltaDetailedForWindowTx). *)
THEOREM TypeCorrect == Spec => []TypeOK
<1>1. IInv => TypeOK
  BY DEF IInv
<1> QED BY <1>1, SpecIInv, PTL

(* The windows of a subscription follow each other without gap or overlap and do
   not pass its end, at every isolation level (calcNextResetTime,
   maybeResetUserSubscriptionWithPlanTx). *)
THEOREM WindowsStayAligned == Spec => []WindowsAligned
<1>1. IInv => WindowsAligned
  BY DEF IInv, RowsInv, RowGood, Aligned, WindowsAligned
<1> QED BY <1>1, SpecIInv, PTL

(* A pre-consume is charged to a window that is not over by its clock and that
   had begun by its clock or, when a reset came in between, by the time its rows
   were read; at every isolation level, and also when it is answered from its
   record (preConsumeUserSubscriptionWithPreference,
   getSubscriptionResetWindowForTimestamp). *)
THEOREM HoldsInItsWindow == Spec => []HoldInItsWindow
<1>1. IInv => HoldInItsWindow
  BY DEF IInv, SessionInv, Knows, HoldInItsWindow
<1> QED BY <1>1, SpecIInv, PTL

-----------------------------------------------------------------------------
(* The sums *)

Share(s, r) == IF InWindow(s, r) THEN paid[r].amt ELSE 0
CountShare(s, r) == IF InWindow(s, r) THEN paid[r].cnt ELSE 0
LifetimeShare(s, r) == IF paid[r].sub = s THEN paid[r].cnt ELSE 0

(* What a charge adds to the sums is a natural number. *)
LEMMA ShareNat ==
  ASSUME IInv
  PROVE  \A s \in Subs, r \in Requests :
           Share(s, r) \in Nat /\ CountShare(s, r) \in Nat /\ LifetimeShare(s, r) \in Nat
<1> SUFFICES ASSUME NEW s \in Subs, NEW r \in Requests
             PROVE  Share(s, r) \in Nat /\ CountShare(s, r) \in Nat /\ LifetimeShare(s, r) \in Nat
  OBVIOUS
<1>1. Knows(req[r].pc, req[r], rec[r], paid[r]) /\ paid[r] \in PaidType
  BY Values
<1>2. paid[r].amt \in Nat /\ paid[r].cnt \in Nat
  BY <1>1 DEF Knows, PaidType
<1> QED BY <1>2 DEF Share, CountShare, LifetimeShare

(* The same of the next state *)
LEMMA ShareNatNext ==
  IInv' => \A s \in Subs, r \in Requests :
             Share(s, r)' \in Nat /\ CountShare(s, r)' \in Nat /\ LifetimeShare(s, r)' \in Nat
<1> DEFINE P == \A s \in Subs, r \in Requests :
             Share(s, r) \in Nat /\ CountShare(s, r) \in Nat /\ LifetimeShare(s, r) \in Nat
<1>1. IInv => P
  BY ShareNat
<1> HIDE DEF P
<1>2. IInv' => P'
  BY <1>1, PTL
<1> QED BY <1>2 DEF P

(* The sums are sums of shares. *)
LEMMA SumsOfShares ==
  ASSUME NEW s
  PROVE  /\ AmountOf(s) = SumFunctionOnSet([r \in Requests |-> Share(s, r)], Requests)
         /\ CountOf(s) = SumFunctionOnSet([r \in Requests |-> CountShare(s, r)], Requests)
         /\ LifetimeCountOf(s) = SumFunctionOnSet([r \in Requests |-> LifetimeShare(s, r)], Requests)
BY DEF AmountOf, CountOf, LifetimeCountOf, SumFunction, Share, CountShare, LifetimeShare

(* The same of the next state *)
LEMMA SumsOfSharesNext ==
  ASSUME NEW s
  PROVE  /\ AmountOf(s)' = SumFunctionOnSet([r \in Requests |-> Share(s, r)'], Requests)
         /\ CountOf(s)' = SumFunctionOnSet([r \in Requests |-> CountShare(s, r)'], Requests)
         /\ LifetimeCountOf(s)' = SumFunctionOnSet([r \in Requests |-> LifetimeShare(s, r)'], Requests)
BY DEF AmountOf, CountOf, LifetimeCountOf, SumFunction, Share, CountShare, LifetimeShare

(* They are natural numbers. *)
LEMMA SumsNat ==
  ASSUME IInv
  PROVE  \A s \in Subs : AmountOf(s) \in Nat /\ CountOf(s) \in Nat /\ LifetimeCountOf(s) \in Nat
<1> SUFFICES ASSUME NEW s \in Subs
             PROVE  AmountOf(s) \in Nat /\ CountOf(s) \in Nat /\ LifetimeCountOf(s) \in Nat
  OBVIOUS
<1> DEFINE f == [r \in Requests |-> Share(s, r)]
           g == [r \in Requests |-> CountShare(s, r)]
           h == [r \in Requests |-> LifetimeShare(s, r)]
<1>1. \A r \in Requests : f[r] \in Nat /\ g[r] \in Nat /\ h[r] \in Nat
  BY ShareNat
<1>2. AmountOf(s) = SumFunctionOnSet(f, Requests) /\ CountOf(s) = SumFunctionOnSet(g, Requests)
      /\ LifetimeCountOf(s) = SumFunctionOnSet(h, Requests) /\ IsFiniteSet(Requests)
  BY SumsOfShares, LedgerAssumption
<1> HIDE DEF f, g, h
<1> QED BY <1>1, <1>2, SumNat

(* The same of the next state *)
LEMMA SumsNatNext ==
  IInv' => \A s \in Subs : AmountOf(s)' \in Nat /\ CountOf(s)' \in Nat /\ LifetimeCountOf(s)' \in Nat
<1> DEFINE P == \A s \in Subs : AmountOf(s) \in Nat /\ CountOf(s) \in Nat /\ LifetimeCountOf(s) \in Nat
<1>1. IInv => P
  BY SumsNat
<1> HIDE DEF P
<1>2. IInv' => P'
  BY <1>1, PTL
<1> QED BY <1>2 DEF P

(* The share of request r changes, and no other one. *)
LEMMA SumsChange ==
  ASSUME IInv, IInv', NEW s \in Subs, NEW r \in Requests,
         \A q \in Requests \ {r} : paid'[q] = paid[q], sub'[s].last = sub[s].last
  PROVE  /\ AmountOf(s)' = AmountOf(s) + Share(s, r)' - Share(s, r)
         /\ CountOf(s)' = CountOf(s) + CountShare(s, r)' - CountShare(s, r)
<1> DEFINE f == [q \in Requests |-> Share(s, q)]
           g == [q \in Requests |-> CountShare(s, q)]
           ff == [q \in Requests |-> Share(s, q)']
           gg == [q \in Requests |-> CountShare(s, q)']
<1>1. /\ \A q \in Requests : f[q] \in Int /\ g[q] \in Int /\ ff[q] \in Int /\ gg[q] \in Int
      /\ \A q \in Requests \ {r} : ff[q] = f[q] /\ gg[q] = g[q]
  <2>1. \A q \in Requests : Share(s, q) \in Nat /\ CountShare(s, q) \in Nat
                            /\ Share(s, q)' \in Nat /\ CountShare(s, q)' \in Nat
    BY ShareNat, ShareNatNext
  <2>2. \A q \in Requests \ {r} : Share(s, q)' = Share(s, q) /\ CountShare(s, q)' = CountShare(s, q)
    BY DEF Share, CountShare, InWindow
  <2> QED BY <2>1, <2>2
<1>2. /\ AmountOf(s) = SumFunctionOnSet(f, Requests) /\ CountOf(s) = SumFunctionOnSet(g, Requests)
      /\ AmountOf(s)' = SumFunctionOnSet(ff, Requests) /\ CountOf(s)' = SumFunctionOnSet(gg, Requests)
  BY SumsOfShares, SumsOfSharesNext
<1>3. f[r] = Share(s, r) /\ g[r] = CountShare(s, r) /\ ff[r] = Share(s, r)' /\ gg[r] = CountShare(s, r)'
  OBVIOUS
<1> HIDE DEF f, g, ff, gg
<1>4. IntOn(f, Requests) /\ IntOn(g, Requests) /\ IsFiniteSet(Requests) /\ ff[r] \in Int /\ gg[r] \in Int
  BY <1>1, LedgerAssumption DEF IntOn
<1>5. SumFunctionOnSet(ff, Requests) = SumFunctionOnSet(f, Requests) + ff[r] - f[r]
  BY <1>1, <1>4, SumChange
<1>6. SumFunctionOnSet(gg, Requests) = SumFunctionOnSet(g, Requests) + gg[r] - g[r]
  BY <1>1, <1>4, SumChange
<1> QED BY <1>2, <1>3, <1>5, <1>6, Zenon

(* The lifetime count, whatever the window *)
LEMMA LifetimeChange ==
  ASSUME IInv, IInv', NEW s \in Subs, NEW r \in Requests, \A q \in Requests \ {r} : paid'[q] = paid[q]
  PROVE  LifetimeCountOf(s)' = LifetimeCountOf(s) + LifetimeShare(s, r)' - LifetimeShare(s, r)
<1> DEFINE f == [q \in Requests |-> LifetimeShare(s, q)]
           ff == [q \in Requests |-> LifetimeShare(s, q)']
<1>1. /\ \A q \in Requests : f[q] \in Int /\ ff[q] \in Int
      /\ \A q \in Requests \ {r} : ff[q] = f[q]
  <2>1. \A q \in Requests : LifetimeShare(s, q) \in Nat /\ LifetimeShare(s, q)' \in Nat
    BY ShareNat, ShareNatNext
  <2>2. \A q \in Requests \ {r} : LifetimeShare(s, q)' = LifetimeShare(s, q)
    BY DEF LifetimeShare
  <2> QED BY <2>1, <2>2
<1>2. LifetimeCountOf(s) = SumFunctionOnSet(f, Requests) /\ LifetimeCountOf(s)' = SumFunctionOnSet(ff, Requests)
  BY SumsOfShares, SumsOfSharesNext
<1>3. f[r] = LifetimeShare(s, r) /\ ff[r] = LifetimeShare(s, r)'
  OBVIOUS
<1> HIDE DEF f, ff
<1>4. IntOn(f, Requests) /\ IsFiniteSet(Requests) /\ ff[r] \in Int
  BY <1>1, LedgerAssumption DEF IntOn
<1>5. SumFunctionOnSet(ff, Requests) = SumFunctionOnSet(f, Requests) + ff[r] - f[r]
  BY <1>1, <1>4, SumChange
<1> QED BY <1>2, <1>3, <1>5, Zenon

(* A new window, which none but request r can be in *)
LEMMA SumsOfNewWindow ==
  ASSUME IInv, IInv', NEW s \in Subs, NEW r \in Requests,
         \A q \in Requests \ {r} : paid'[q] = paid[q], sub[s].last < sub'[s].last,
         \A q \in Requests : paid[q].sub = s => paid[q].win <= sub[s].last
  PROVE  AmountOf(s)' = Share(s, r)' /\ CountOf(s)' = CountShare(s, r)'
<1> DEFINE ff == [q \in Requests |-> Share(s, q)']
           gg == [q \in Requests |-> CountShare(s, q)']
<1>1. /\ \A q \in Requests : ff[q] \in Int /\ gg[q] \in Int
      /\ \A q \in Requests \ {r} : ff[q] = 0 /\ gg[q] = 0
  <2>1. \A q \in Requests : Share(s, q)' \in Nat /\ CountShare(s, q)' \in Nat
    BY ShareNatNext
  <2>2. ASSUME NEW q \in Requests \ {r} PROVE Share(s, q)' = 0 /\ CountShare(s, q)' = 0
    <3>1. paid[q] \in PaidType /\ sub[s] \in RowType /\ sub'[s] \in RowType
      BY Values, NowFacts, TypesNext DEF IInv
    <3>2. paid[q].win \in Nat /\ sub[s].last \in Nat /\ sub'[s].last \in Nat
      BY <3>1 DEF PaidType, RowType
    <3>3. paid'[q].sub = s => paid'[q].win # sub'[s].last
      BY <3>2
    <3> QED BY <3>3 DEF Share, CountShare, InWindow
  <2> QED BY <2>1, <2>2
<1>2. /\ AmountOf(s)' = SumFunctionOnSet(ff, Requests) /\ CountOf(s)' = SumFunctionOnSet(gg, Requests)
  BY SumsOfSharesNext
<1>3. ff[r] = Share(s, r)' /\ gg[r] = CountShare(s, r)'
  OBVIOUS
<1> HIDE DEF ff, gg
<1> QED BY <1>1, <1>2, <1>3, LedgerAssumption, SumOne

-----------------------------------------------------------------------------
(* One subscription's accounts, when transactions fail on a conflict *)

(* The requests charged to s are the same, for the same. *)
SameCharges(s) ==
    \A q \in Requests : paid'[q] = paid[q] \/ (paid[q].sub # s /\ paid'[q].sub # s)

(* Then the sums are the same, as long as the window is. *)
LEMMA SameSums ==
  ASSUME NEW s \in Subs, SameCharges(s)
  PROVE  /\ LifetimeCountOf(s)' = LifetimeCountOf(s)
         /\ sub'[s].last = sub[s].last => AmountOf(s)' = AmountOf(s) /\ CountOf(s)' = CountOf(s)
<1>1. LifetimeCountOf(s)' = LifetimeCountOf(s)
  <2>1. \A q \in Requests : LifetimeShare(s, q)' = LifetimeShare(s, q)
    BY DEF LifetimeShare, SameCharges
  <2>2. [q \in Requests |-> LifetimeShare(s, q)'] = [q \in Requests |-> LifetimeShare(s, q)]
    BY <2>1
  <2> QED BY <2>2, SumsOfShares, SumsOfSharesNext
<1>2. ASSUME sub'[s].last = sub[s].last PROVE AmountOf(s)' = AmountOf(s) /\ CountOf(s)' = CountOf(s)
  <2>1. \A q \in Requests : Share(s, q)' = Share(s, q) /\ CountShare(s, q)' = CountShare(s, q)
    BY <1>2 DEF Share, CountShare, InWindow, SameCharges
  <2>2. /\ [q \in Requests |-> Share(s, q)'] = [q \in Requests |-> Share(s, q)]
        /\ [q \in Requests |-> CountShare(s, q)'] = [q \in Requests |-> CountShare(s, q)]
    BY <2>1
  <2> QED BY <2>2, SumsOfShares, SumsOfSharesNext
<1> QED BY <1>1, <1>2

(* In a new window they are zero. *)
LEMMA EmptyWindow ==
  ASSUME IInv, IInv', NEW s \in Subs, SameCharges(s), sub[s].last < sub'[s].last,
         \A q \in Requests : paid[q].sub = s => paid[q].win <= sub[s].last
  PROVE  AmountOf(s)' = 0 /\ CountOf(s)' = 0
<1> DEFINE ff == [q \in Requests |-> Share(s, q)']
           gg == [q \in Requests |-> CountShare(s, q)']
<1>1. \A q \in Requests : ff[q] = 0 /\ gg[q] = 0
  <2> SUFFICES ASSUME NEW q \in Requests PROVE Share(s, q)' = 0 /\ CountShare(s, q)' = 0
    OBVIOUS
  <2>1. paid[q] \in PaidType /\ sub[s] \in RowType /\ sub'[s] \in RowType
    BY Values, NowFacts, TypesNext DEF IInv
  <2>2. paid[q].win \in Nat /\ sub[s].last \in Nat /\ sub'[s].last \in Nat
    BY <2>1 DEF PaidType, RowType
  <2>3. paid'[q].sub = s => paid'[q].win # sub'[s].last
    BY <2>2 DEF SameCharges
  <2> QED BY <2>3 DEF Share, CountShare, InWindow
<1>2. AmountOf(s)' = SumFunctionOnSet(ff, Requests) /\ CountOf(s)' = SumFunctionOnSet(gg, Requests)
  BY SumsOfSharesNext
<1> HIDE DEF ff, gg
<1> QED BY <1>1, <1>2, LedgerAssumption, SumZero

(* A subscription that a step does not concern *)
LEMMA KeptAccount ==
  ASSUME NEW s \in Subs, SameCharges(s), Accounts(s), strayed'[s] = strayed[s],
         sub'[s].last = sub[s].last, sub'[s].amt = sub[s].amt, sub'[s].cnt = sub[s].cnt,
         sub'[s].per = sub[s].per
  PROVE  Accounts(s)'
<1>1. /\ LifetimeCountOf(s)' = LifetimeCountOf(s) /\ AmountOf(s)' = AmountOf(s)
      /\ CountOf(s)' = CountOf(s) /\ CurrentCount(s, sub'[s]) = CurrentCount(s, sub[s])
  BY SameSums DEF CurrentCount
<1> QED BY <1>1 DEF Accounts

(* A subscription that is brought to a later window, and not charged *)
LEMMA ResetAccount ==
  ASSUME IInv, IInv', NEW s \in Subs, SameCharges(s), Accounts(s), Fresh(s, sub[s]), NEW t,
         ResetTo(s, sub[s], sub'[s], t),
         strayed'[s] = IF sub'[s].last > sub[s].last THEN {} ELSE strayed[s],
         \A q \in Requests : paid[q].sub = s => paid[q].win <= sub[s].last
  PROVE  Accounts(s)'
<1>1. sub[s].last \in Nat /\ sub'[s].last \in Nat
  BY NowFacts, TypesNext, RowFields DEF IInv
<1>2. CASE sub'[s].last = sub[s].last
  <2>1. sub'[s].amt = sub[s].amt /\ sub'[s].cnt = sub[s].cnt /\ sub'[s].per = sub[s].per
    BY <1>2 DEF ResetTo
  <2>2. strayed'[s] = strayed[s]
    BY <1>1, <1>2
  <2> QED BY <1>2, <2>1, <2>2, KeptAccount
<1>3. CASE sub'[s].last > sub[s].last
  <2>1. AmountOf(s)' = 0 /\ CountOf(s)' = 0 /\ LifetimeCountOf(s)' = LifetimeCountOf(s)
    BY <1>1, <1>3, EmptyWindow, SameSums
  <2>2. sub'[s].amt = 0 /\ CurrentCount(s, sub'[s]) = 0 /\ (HasLifetimeLimit(s) => sub'[s].cnt = sub[s].cnt)
    BY <1>3 DEF ResetTo
  <2>3. HasLifetimeLimit(s) => sub[s].cnt = LifetimeCountOf(s)
    BY DEF Accounts
  <2> QED BY <2>1, <2>2, <2>3 DEF Accounts
<1> QED BY <1>1, <1>2, <1>3 DEF ResetTo

(* A subscription that a new request is charged to, after its row was brought to
   row x *)
LEMMA ChargedAccount ==
  ASSUME IInv, IInv', NEW s \in Subs, NEW r \in Requests, \A q \in Requests \ {r} : paid'[q] = paid[q],
         Accounts(s), Fresh(s, sub[s]), NEW t, NEW x \in RowType, ResetTo(s, sub[s], x, t),
         paid[r].sub # s, paid'[r].sub = s, paid'[r].win = sub'[s].last, sub'[s].last = x.last,
         sub'[s].amt = x.amt + paid'[r].amt,
         HasLifetimeLimit(s) => sub'[s].cnt = x.cnt + paid'[r].cnt,
         PeriodLimit(s) > 0 => CurrentCount(s, sub'[s]) = CurrentCount(s, x) + paid'[r].cnt,
         strayed'[s] = IF sub'[s].last > sub[s].last THEN {} ELSE strayed[s],
         \A q \in Requests : paid[q].sub = s => paid[q].win <= sub[s].last
  PROVE  Accounts(s)'
<1> DEFINE a == paid'[r].amt
           c == paid'[r].cnt
           row == sub'[s]
<1>1. sub[s].last \in Nat /\ row.last \in Nat /\ sub[s] \in RowType /\ row \in RowType
  BY NowFacts, TypesNext, RowFields DEF IInv
<1>2. /\ Share(s, r) = 0 /\ CountShare(s, r) = 0 /\ LifetimeShare(s, r) = 0
      /\ Share(s, r)' = a /\ CountShare(s, r)' = c /\ LifetimeShare(s, r)' = c
  BY DEF Share, CountShare, LifetimeShare, InWindow
<1>3. a \in Nat /\ c \in Nat
  BY <1>2, ShareNatNext
<1>4. AmountOf(s) \in Nat /\ CountOf(s) \in Nat /\ LifetimeCountOf(s) \in Nat
  BY SumsNat
<1>5. LifetimeCountOf(s)' = LifetimeCountOf(s) + c
  BY <1>2, <1>3, <1>4, LifetimeChange
<1>6. /\ x.amt \in Nat /\ x.cnt \in Nat /\ CurrentCount(s, x) \in Nat
      /\ sub[s].amt \in Nat /\ CurrentCount(s, sub[s]) \in Nat
  BY <1>1, RowFields DEF CurrentCount
<1>7. HasLifetimeLimit(s) => row.cnt = LifetimeCountOf(s)'
  <2>1. HasLifetimeLimit(s) => x.cnt = LifetimeCountOf(s)
    BY DEF ResetTo, Accounts
  <2> QED BY <1>5, <2>1
<1> DEFINE A == AmountOf(s)'
           C == CountOf(s)'
<1>8. CASE row.last = sub[s].last
  <2>1. A = AmountOf(s) + a /\ C = CountOf(s) + c
    BY <1>2, <1>3, <1>4, <1>8, SumsChange
  <2>2. x.amt = sub[s].amt /\ CurrentCount(s, x) = CurrentCount(s, sub[s])
    BY <1>8 DEF ResetTo, CurrentCount
  <2>3. strayed'[s] = strayed[s]
    BY <1>1, <1>8
  <2> HIDE DEF A, C, a, c, row
  <2>4. strayed[s] = {} => /\ Plan[s].amountTotal > 0 => row.amt = A
                           /\ PeriodLimit(s) > 0 => CurrentCount(s, row) = C
    BY <2>1, <2>2 DEF Accounts, a, c, row
  <2>5. strayed[s] \subseteq {"refund"} => /\ Plan[s].amountTotal > 0 => row.amt <= A
                                           /\ PeriodLimit(s) > 0 => CurrentCount(s, row) <= C
    <3>1. row.amt = sub[s].amt + a
      BY <2>2 DEF a, row
    <3>2. PeriodLimit(s) > 0 => CurrentCount(s, row) = CurrentCount(s, sub[s]) + c
      BY <2>2 DEF c, row
    <3> QED BY <1>3, <1>4, <1>6, <2>1, <3>1, <3>2 DEF Accounts
  <2> QED BY <1>7, <2>3, <2>4, <2>5 DEF Accounts, A, C, row
<1>9. CASE row.last > sub[s].last
  <2>1. A = a /\ C = c
    BY <1>2, <1>9, SumsOfNewWindow
  <2>2. x.amt = 0 /\ CurrentCount(s, x) = 0
    BY <1>9 DEF ResetTo
  <2>3. row.amt = A /\ (PeriodLimit(s) > 0 => CurrentCount(s, row) = C)
    BY <1>3, <2>1, <2>2
  <2>4. A \in Nat /\ C \in Nat
    BY SumsNatNext
  <2> QED BY <1>7, <2>3, <2>4 DEF Accounts
<1> QED BY <1>1, <1>8, <1>9 DEF ResetTo

(* A subscription whose request r settles or is refunded: the difference goes to
   the row, and the charge may lie in an earlier window. *)
LEMMA ChangedAccount ==
  ASSUME IInv, IInv', NEW s \in Subs, NEW r \in Requests, \A q \in Requests \ {r} : paid'[q] = paid[q],
         Accounts(s), NEW da \in Int, NEW dc \in Int,
         paid[r].sub = s, paid'[r].sub = s, paid'[r].win = paid[r].win, sub'[s].last = sub[s].last,
         paid'[r].amt = paid[r].amt + da, paid'[r].cnt = paid[r].cnt + dc,
         sub'[s].amt = NonNegative(sub[s].amt + da),
         HasLifetimeLimit(s) => sub'[s].cnt = NonNegative(sub[s].cnt + dc),
         PeriodLimit(s) > 0 => CurrentCount(s, sub'[s]) = NonNegative(CurrentCount(s, sub[s]) + dc),
         paid[r].win = sub[s].last => strayed'[s] = strayed[s],
         paid[r].win # sub[s].last =>
            \/ da <= 0 /\ dc <= 0 /\ strayed'[s] = strayed[s] \cup {"refund"}
            \/ ~ (strayed'[s] \subseteq {"refund"})
  PROVE  Accounts(s)'
<1> DEFINE row == sub'[s]
           A == AmountOf(s)'
           C == CountOf(s)'
           L == LifetimeCountOf(s)'
           n == CurrentCount(s, sub[s])
<1>1. sub[s] \in RowType /\ paid[r] \in PaidType /\ paid[r].amt \in Nat /\ paid[r].cnt \in Nat
  <2>1. Knows(req[r].pc, req[r], rec[r], paid[r]) /\ paid[r] \in PaidType
    BY Values
  <2>2. paid[r].amt \in Nat /\ paid[r].cnt \in Nat
    BY <2>1 DEF Knows, PaidType
  <2> QED BY <2>1, <2>2, NowFacts
<1>2. sub[s].amt \in Nat /\ sub[s].cnt \in Nat /\ n \in Nat
  BY <1>1, RowFields DEF CurrentCount
<1>3. AmountOf(s) \in Nat /\ CountOf(s) \in Nat /\ LifetimeCountOf(s) \in Nat /\ A \in Nat /\ C \in Nat /\ L \in Nat
  BY SumsNat, SumsNatNext
<1>4. L = LifetimeCountOf(s) + dc
  <2>1. LifetimeShare(s, r) = paid[r].cnt /\ LifetimeShare(s, r)' = paid[r].cnt + dc
    BY DEF LifetimeShare
  <2>2. L = LifetimeCountOf(s) + (paid[r].cnt + dc) - paid[r].cnt
    BY <2>1, LifetimeChange
  <2> HIDE DEF L
  <2> QED BY <1>1, <1>3, <2>2
<1> HIDE DEF L
<1>5. HasLifetimeLimit(s) => row.cnt = L
  <2>1. HasLifetimeLimit(s) => sub[s].cnt = LifetimeCountOf(s)
    BY DEF Accounts
  <2>2. LifetimeCountOf(s) + dc >= 0
    BY <1>3, <1>4
  <2> QED BY <1>2, <1>3, <1>4, <2>1, <2>2 DEF NonNegative
<1>6. CASE paid[r].win = sub[s].last
  <2>1. /\ Share(s, r) = paid[r].amt /\ CountShare(s, r) = paid[r].cnt
        /\ Share(s, r)' = paid[r].amt + da /\ CountShare(s, r)' = paid[r].cnt + dc
    BY <1>6 DEF Share, CountShare, InWindow
  <2>2. A = AmountOf(s) + (paid[r].amt + da) - paid[r].amt /\ C = CountOf(s) + (paid[r].cnt + dc) - paid[r].cnt
    BY <2>1, SumsChange
  <2> HIDE DEF A, C, n
  <2>3. A = AmountOf(s) + da /\ C = CountOf(s) + dc
    BY <1>1, <1>3, <2>2
  <2>4. AmountOf(s) + da >= 0 /\ CountOf(s) + dc >= 0
    BY <1>3, <2>3
  <2>5. strayed[s] = {} => /\ Plan[s].amountTotal > 0 => sub[s].amt = AmountOf(s)
                           /\ PeriodLimit(s) > 0 => n = CountOf(s)
    BY DEF Accounts, n
  <2>6. strayed[s] \subseteq {"refund"} => /\ Plan[s].amountTotal > 0 => sub[s].amt <= AmountOf(s)
                                           /\ PeriodLimit(s) > 0 => n <= CountOf(s)
    BY DEF Accounts, n
  <2>7. PeriodLimit(s) > 0 => CurrentCount(s, row) = NonNegative(n + dc)
    BY DEF n
  <2>8. strayed[s] = {} => /\ Plan[s].amountTotal > 0 => row.amt = A
                           /\ PeriodLimit(s) > 0 => CurrentCount(s, row) = C
    BY <1>2, <1>3, <2>3, <2>4, <2>5, <2>7 DEF NonNegative
  <2>9. strayed[s] \subseteq {"refund"} => /\ Plan[s].amountTotal > 0 => row.amt <= A
                                           /\ PeriodLimit(s) > 0 => CurrentCount(s, row) <= C
    BY <1>2, <1>3, <2>3, <2>4, <2>6, <2>7 DEF NonNegative
  <2> QED BY <1>5, <1>6, <2>8, <2>9 DEF Accounts, A, C, L
<1>7. CASE paid[r].win # sub[s].last /\ ~ (strayed'[s] \subseteq {"refund"})
  BY <1>5, <1>7 DEF Accounts, L
<1>8. CASE paid[r].win # sub[s].last /\ da <= 0 /\ dc <= 0 /\ strayed'[s] = strayed[s] \cup {"refund"}
  <2>1. Share(s, r) = 0 /\ CountShare(s, r) = 0 /\ Share(s, r)' = 0 /\ CountShare(s, r)' = 0
    BY <1>8 DEF Share, CountShare, InWindow
  <2>2. A = AmountOf(s) + 0 - 0 /\ C = CountOf(s) + 0 - 0
    BY <2>1, SumsChange
  <2> HIDE DEF A, C, n
  <2>3. A = AmountOf(s) /\ C = CountOf(s)
    BY <1>3, <2>2
  <2>4. strayed'[s] # {} /\ (strayed'[s] \subseteq {"refund"} => strayed[s] \subseteq {"refund"})
    BY <1>8
  <2>5. strayed[s] \subseteq {"refund"} => /\ Plan[s].amountTotal > 0 => sub[s].amt <= AmountOf(s)
                                           /\ PeriodLimit(s) > 0 => n <= CountOf(s)
    BY DEF Accounts, n
  <2>6. PeriodLimit(s) > 0 => CurrentCount(s, row) = NonNegative(n + dc)
    BY DEF n
  <2>7. strayed[s] \subseteq {"refund"} => /\ Plan[s].amountTotal > 0 => row.amt <= A
                                           /\ PeriodLimit(s) > 0 => CurrentCount(s, row) <= C
    BY <1>2, <1>3, <1>8, <2>3, <2>5, <2>6 DEF NonNegative
  <2> QED BY <1>5, <2>4, <2>7 DEF Accounts, A, C, L
<1> QED BY <1>6, <1>7, <1>8

(* The invariant from its parts *)
LEMMA SerialFrame ==
  ASSUME IInv, IInv', SerialInv,
         \A s \in Subs : /\ sub[s].last <= sub'[s].last
                         /\ Fresh(s, sub'[s]) /\ Accounts(s)' /\ "settle" \notin strayed'[s],
         \A r \in Requests : paid'[r] = paid[r] \/ Charged(r)'
  PROVE  SerialInv'
<1>1. ASSUME NEW r \in Requests, paid'[r] = paid[r] PROVE Charged(r)'
  <2> SUFFICES ASSUME paid[r].sub # NoSub
               PROVE  /\ paid[r].win <= sub'[paid[r].sub].last
                      /\ Plan[paid[r].sub].period > 0 => paid[r].win > 0
    BY <1>1 DEF Charged
  <2> DEFINE s == paid[r].sub
  <2>1. paid[r] \in PaidType /\ s \in Subs /\ paid[r].win \in Nat
    BY Values DEF PaidType
  <2>2. sub[s].last \in Nat /\ sub'[s].last \in Nat
    BY <2>1, NowFacts, TypesNext, RowFields DEF IInv
  <2>3. paid[r].win <= sub[s].last /\ (Plan[s].period > 0 => paid[r].win > 0)
    BY DEF SerialInv, Charged
  <2>4. sub[s].last <= sub'[s].last
    BY <2>1
  <2> HIDE DEF s
  <2>5. paid[r].win <= sub'[s].last
    BY <2>1, <2>2, <2>3, <2>4
  <2> QED BY <2>3, <2>5 DEF s
<1> QED BY <1>1 DEF SerialInv

(* A step that changes neither the accounts nor the charges *)
LEMMA SerialSame ==
  ASSUME IInv, IInv', SerialInv, paid' = paid, \A s \in Subs : strayed'[s] = strayed[s],
         \A s \in Subs : /\ sub'[s].last = sub[s].last /\ sub'[s].amt = sub[s].amt
                         /\ sub'[s].cnt = sub[s].cnt /\ sub'[s].per = sub[s].per
  PROVE  SerialInv'
<1>1. ASSUME NEW s \in Subs
      PROVE  sub[s].last <= sub'[s].last /\ Fresh(s, sub'[s]) /\ Accounts(s)' /\ "settle" \notin strayed'[s]
  <2>1. Fresh(s, sub[s]) /\ Accounts(s) /\ "settle" \notin strayed[s] /\ SameCharges(s)
    BY DEF SerialInv, SameCharges
  <2>2. Accounts(s)'
    BY <2>1, KeptAccount
  <2>3. sub[s].last \in Nat
    BY NowFacts, RowFields
  <2> QED BY <2>1, <2>2, <2>3 DEF Fresh
<1> QED BY <1>1, SerialFrame

(* The charges of a subscription lie in windows that have begun. *)
LEMMA ChargesBegun ==
  ASSUME SerialInv, NEW s \in Subs
  PROVE  \A q \in Requests : paid[q].sub = s => paid[q].win <= sub[s].last
BY PlanFacts DEF SerialInv, Charged

(* A pre-consume that commits saw the rows as they are. *)
LEMMA S_CommitHold ==
  ASSUME Isolation = "conflict_fails", IInv, IInv', SerialInv, NEW r \in Requests, CommitHold(r)
  PROVE  SerialInv'
<1>1. req[r].pc = "holding" /\ rec[r].status = "none" /\ KeepStrayed(strayed)
  BY DEF CommitHold
<1>2. TypeOK /\ Knows(req[r].pc, req[r], rec[r], paid[r]) /\ sub \in [Subs -> RowType]
  BY Values, NowFacts
<1> DEFINE at == req[r].heldAt
           old == tx[r].rows
<1>3. PICK s \in Subs, t \in Nat, x \in RowType, y \in RowType, o \in Outcomes :
        HoldCommits(r, s, t, x, y, o)
  BY HoldCommit
<1> DEFINE amt == RequiredAmount(s, want[r].amount)
           cnt == RequiredCount(s)
<1>4. /\ s \in Active(old, at) /\ ResetTo(s, old[s], x, now)
      /\ y.last = x.last /\ y.amt = x.amt + amt
      /\ HasLifetimeLimit(s) => y.cnt = x.cnt + cnt
      /\ PeriodLimit(s) > 0 => CurrentCount(s, y) = CurrentCount(s, x) + cnt
      /\ Commit(tx[r], Active(old, at), o)
      /\ o = "lost" => UNCHANGED <<sub, paid>>
  BY <1>3 DEF HoldCommits
<1>5. o # "lost" =>
        /\ sub'[s] = y
        /\ \A u \in Subs \ {s} : \/ sub'[u] = sub[u]
                                 \/ u \in Active(old, at) /\ ResetTo(u, old[u], sub'[u], now)
        /\ paid' = [paid EXCEPT ![r] = [sub |-> s, win |-> y.last, amt |-> amt, cnt |-> cnt]]
  BY <1>3 DEF HoldCommits
<1> HIDE DEF amt, cnt
<1>6. \A u \in Subs : strayed'[u] = IF sub'[u].last > sub[u].last THEN {} ELSE strayed[u]
  BY <1>1 DEF KeepStrayed
<1>7. \A u \in Subs : sub[u].last \in Nat
  BY <1>2, RowFields
<1>8. CASE o = "lost"
  <2>1. sub' = sub /\ paid' = paid
    BY <1>4, <1>8
  <2>2. \A u \in Subs : strayed'[u] = strayed[u]
    BY <1>6, <1>7, <2>1
  <2> QED BY <2>1, <2>2, SerialSame
<1>9. CASE o # "lost"
  <2>1. \A u \in Active(old, at) : sub[u] = old[u]
    BY <1>2, <1>4, <1>9, CommitFacts
  <2>2. sub'[s] = y /\ ResetTo(s, sub[s], x, now)
    BY <1>4, <1>5, <1>9, <2>1
  <2>3. \A u \in Subs \ {s} : sub'[u] = sub[u] \/ ResetTo(u, sub[u], sub'[u], now)
    BY <1>5, <1>9, <2>1
  <2>4. /\ \A q \in Requests \ {r} : paid'[q] = paid[q]
        /\ paid'[r].sub = s /\ paid'[r].win = y.last /\ paid'[r].amt = amt /\ paid'[r].cnt = cnt
    BY <1>2, <1>5, <1>9, Types
  <2>5. paid[r].sub = NoSub
    BY <1>1, <1>2 DEF Knows, Unpaid
  <2>6. ASSUME NEW u \in Subs PROVE Fresh(u, sub[u]) /\ Accounts(u) /\ "settle" \notin strayed[u] /\ u # NoSub
    BY PlanFacts DEF SerialInv
  <2>7. Accounts(s)'
    <3>1. paid[r].sub # s
      BY <2>5, <2>6
    <3>2. paid'[r].win = sub'[s].last /\ sub'[s].last = x.last /\ sub'[s].amt = x.amt + paid'[r].amt
      BY <1>4, <2>2, <2>4
    <3>3. /\ HasLifetimeLimit(s) => sub'[s].cnt = x.cnt + paid'[r].cnt
          /\ PeriodLimit(s) > 0 => CurrentCount(s, sub'[s]) = CurrentCount(s, x) + paid'[r].cnt
      BY <1>4, <2>2, <2>4
    <3> QED BY <1>6, <2>2, <2>4, <2>6, <3>1, <3>2, <3>3, ChargesBegun, ChargedAccount
  <2>8. ASSUME NEW u \in Subs \ {s} PROVE Accounts(u)'
    <3>1. SameCharges(u)
      BY <2>4, <2>5, <2>6 DEF SameCharges
    <3>2. CASE sub'[u] = sub[u]
      <4>1. strayed'[u] = strayed[u]
        BY <1>6, <1>7, <3>2
      <4> QED BY <2>6, <3>1, <3>2, <4>1, KeptAccount
    <3>3. CASE ResetTo(u, sub[u], sub'[u], now)
      BY <1>6, <2>6, <3>1, <3>3, ChargesBegun, ResetAccount
    <3> QED BY <2>3, <3>2, <3>3
  <2>9. ASSUME NEW u \in Subs
        PROVE  /\ sub[u].last <= sub'[u].last /\ Fresh(u, sub'[u]) /\ "settle" \notin strayed'[u]
    <3>1. CASE sub'[u] = sub[u]
      BY <1>6, <1>7, <2>6, <3>1
    <3>2. CASE u = s
      <4>1. sub[s].last <= x.last /\ (Plan[s].period > 0 => x.last > 0)
        BY <2>2 DEF ResetTo
      <4> QED BY <1>4, <1>6, <2>2, <2>6, <3>2, <4>1 DEF Fresh
    <3>3. CASE ResetTo(u, sub[u], sub'[u], now)
      BY <1>6, <2>6, <3>3 DEF ResetTo, Fresh
    <3> QED BY <2>3, <3>1, <3>2, <3>3
  <2>10. Charged(r)'
    <3>1. Plan[s].period > 0 => y.last > 0
      BY <1>4 DEF ResetTo
    <3>2. y.last \in Nat
      BY RowFields
    <3> QED BY <2>2, <2>4, <3>1, <3>2 DEF Charged
  <2> QED BY <2>4, <2>7, <2>8, <2>9, <2>10, SerialFrame
<1> QED BY <1>8, <1>9

(* What a difference does to the counts of a row *)
LEMMA DeltaFields ==
  \A s \in Subs, x \in RowType, da \in Int, dc \in Int, t \in Nat : RowGood(s, x, t) =>
     LET y == Delta(s, x, da, dc) IN
     /\ y.last = x.last /\ y.status = x.status /\ y.amt = NonNegative(x.amt + da)
     /\ HasLifetimeLimit(s) => y.cnt = NonNegative(x.cnt + dc)
     /\ PeriodLimit(s) > 0 => CurrentCount(s, y) = NonNegative(CurrentCount(s, x) + dc)
<1> SUFFICES ASSUME NEW s \in Subs, NEW x \in RowType, NEW da \in Int, NEW dc \in Int, NEW t \in Nat,
                    RowGood(s, x, t)
             PROVE  LET y == Delta(s, x, da, dc) IN
                    /\ y.last = x.last /\ y.status = x.status /\ y.amt = NonNegative(x.amt + da)
                    /\ HasLifetimeLimit(s) => y.cnt = NonNegative(x.cnt + dc)
                    /\ PeriodLimit(s) > 0 => CurrentCount(s, y) = NonNegative(CurrentCount(s, x) + dc)
  OBVIOUS
<1> QED BY DeltaFacts

(* A difference written to the row of subscription s, and to the charge of
   request r *)
LEMMA S_Delta ==
  ASSUME IInv, IInv', SerialInv, NEW r \in Requests, NEW s \in Subs, NEW da \in Int, NEW dc \in Int,
         sub' = [sub EXCEPT ![s] = Delta(s, sub[s], da, dc)],
         \A q \in Requests \ {r} : paid'[q] = paid[q],
         paid[r].sub = s, paid'[r].sub = s, paid'[r].win = paid[r].win,
         paid'[r].amt = paid[r].amt + da, paid'[r].cnt = paid[r].cnt + dc,
         \A u \in Subs \ {s} : strayed'[u] = strayed[u],
         "settle" \notin strayed'[s],
         paid[r].win = sub[s].last => strayed'[s] = strayed[s],
         paid[r].win # sub[s].last =>
            \/ da <= 0 /\ dc <= 0 /\ strayed'[s] = strayed[s] \cup {"refund"}
            \/ ~ (strayed'[s] \subseteq {"refund"})
  PROVE  SerialInv'
<1> DEFINE x == sub[s]
           y == Delta(s, x, da, dc)
<1>1. sub \in [Subs -> RowType] /\ now \in Nat /\ x \in RowType /\ RowGood(s, x, now) /\ s # NoSub
  BY NowFacts, PlanFacts DEF IInv, RowsInv
<1> HIDE DEF x
<1>2. /\ y.last = x.last /\ y.status = x.status
      /\ y.amt = NonNegative(x.amt + da)
      /\ HasLifetimeLimit(s) => y.cnt = NonNegative(x.cnt + dc)
      /\ PeriodLimit(s) > 0 => CurrentCount(s, y) = NonNegative(CurrentCount(s, x) + dc)
  BY <1>1, DeltaFields
<1> HIDE DEF y
<1>3. sub'[s] = y /\ x = sub[s] /\ \A u \in Subs \ {s} : sub'[u] = sub[u]
  BY <1>1 DEF x, y
<1>4. ASSUME NEW u \in Subs PROVE Fresh(u, sub[u]) /\ Accounts(u) /\ "settle" \notin strayed[u]
  BY DEF SerialInv
<1>5. \A u \in Subs : sub[u].last \in Nat
  BY <1>1, RowFields
<1>6. paid[r].win <= x.last /\ (Plan[s].period > 0 => paid[r].win > 0)
  BY <1>1, <1>3 DEF SerialInv, Charged
<1>7. Accounts(s)'
  <2>1. /\ sub'[s].last = sub[s].last /\ sub'[s].amt = NonNegative(sub[s].amt + da)
        /\ HasLifetimeLimit(s) => sub'[s].cnt = NonNegative(sub[s].cnt + dc)
        /\ PeriodLimit(s) > 0 => CurrentCount(s, sub'[s]) = NonNegative(CurrentCount(s, sub[s]) + dc)
    BY <1>2, <1>3
  <2> QED BY <1>4, <2>1, ChangedAccount
<1>8. ASSUME NEW u \in Subs \ {s} PROVE Accounts(u)'
  <2>1. SameCharges(u)
    BY DEF SameCharges
  <2> QED BY <1>3, <1>4, <2>1, KeptAccount
<1>9. Fresh(s, y)
  <2>1. paid[r].win \in Nat /\ Plan[s].period \in Nat /\ x.last \in Nat
    BY <1>1, Values, PlanFacts, RowFields DEF PaidType
  <2>2. Plan[s].period > 0 => x.last # 0
    BY <1>6, <2>1
  <2> QED BY <1>2, <2>2 DEF Fresh
<1>10. ASSUME NEW u \in Subs
       PROVE  sub[u].last <= sub'[u].last /\ Fresh(u, sub'[u]) /\ "settle" \notin strayed'[u]
  BY <1>2, <1>3, <1>4, <1>5, <1>9
<1>11. Charged(r)'
  BY <1>2, <1>3, <1>6 DEF Charged
<1> QED BY <1>7, <1>8, <1>10, <1>11, SerialFrame

(* A settle that commits writes to the window it was held in, unless it was
   answered from its record. *)
LEMMA S_CommitSettle ==
  ASSUME Isolation = "conflict_fails", IInv, IInv', SerialInv, NEW r \in Requests, CommitSettle(r)
  PROVE  SerialInv'
<1>1. req[r].pc = "settling"
  BY DEF CommitSettle
<1>2. /\ TypeOK /\ Knows(req[r].pc, req[r], rec[r], paid[r]) /\ req[r] \in ReqType /\ paid[r] \in PaidType
      /\ sub \in [Subs -> RowType] /\ paid \in [Requests -> PaidType]
      /\ strayed \in [Subs -> SUBSET {"refund", "settle", "replay"}]
  BY Values, NowFacts, Types
<1> DEFINE s == req[r].sub
           da == SettleDelta(r, req[r].usage)
<1>3. /\ s \in Subs /\ s # NoSub /\ s = paid[r].sub /\ da \in Int /\ paid[r].amt \in Int
      /\ req[r].ws > 0 /\ req[r].ws \in Nat /\ paid[r].win \in Nat /\ paid[r].cnt \in Nat
  <2>1. req[r].usage \in Nat /\ req[r].ws \in Nat /\ req[r].ws > 0 /\ paid[r].win \in Nat /\ paid[r].cnt \in Nat
    BY <1>1, <1>2 DEF ReqType, PaidType, Knows
  <2> QED BY <1>1, <2>1, HeldSession
<1>4. CASE UNCHANGED <<sub, paid, strayed>>
  <2>1. sub' = sub /\ paid' = paid /\ strayed' = strayed
    BY <1>4
  <2> QED BY <2>1, SerialSame
<1>5. ASSUME NEW o \in Outcomes, SettleCommits(r, o) PROVE SerialInv'
  <2> DEFINE x == tx[r].rows[s]
  <2>1. /\ ~ ClosedWindow(x, req[r].ws, req[r].we)
        /\ Commit(tx[r], {s}, o) /\ o # "lost"
        /\ sub' = [sub EXCEPT ![s] = Delta(s, x, da, 0)]
        /\ paid' = [paid EXCEPT ![r].amt = @ + da]
        /\ strayed' = [strayed EXCEPT ![s] =
                         IF paid[r].win = x.last THEN @
                         ELSE @ \cup {IF req[r].ws = paid[r].win THEN "settle" ELSE "replay"}]
    BY <1>5 DEF SettleCommits
  <2>2. sub[s] = x
    BY <1>2, <2>1, CommitFacts
  <2> HIDE DEF s, da, x
  <2>3. /\ sub' = [sub EXCEPT ![s] = Delta(s, sub[s], da, 0)] /\ ~ (sub[s].last > req[r].ws)
        /\ sub[s].last \in Nat
    BY <1>2, <1>3, <2>1, <2>2, RowFields DEF ClosedWindow
  <2>4. paid[r].win <= sub[s].last
    BY <1>3, ChargesBegun
  <2>5. paid[r].win # sub[s].last => req[r].ws # paid[r].win
    BY <1>3, <2>3, <2>4
  <2>6. "settle" \notin strayed[s]
    BY <1>3 DEF SerialInv
  <2>7. /\ \A u \in Subs \ {s} : strayed'[u] = strayed[u]
        /\ paid[r].win = sub[s].last => strayed'[s] = strayed[s]
        /\ paid[r].win # sub[s].last => strayed'[s] = strayed[s] \cup {"replay"}
    BY <1>2, <1>3, <2>1, <2>2, <2>5
  <2>8. /\ "settle" \notin strayed'[s]
        /\ paid[r].win # sub[s].last => ~ (strayed'[s] \subseteq {"refund"})
    BY <2>6, <2>7
  <2> DEFINE n == paid[r].amt + da
  <2>9. paid' = [paid EXCEPT ![r] = [paid[r] EXCEPT !.amt = n]] /\ n \in Int
    BY <1>3, <2>1
  <2> HIDE DEF n
  <2>10. /\ \A q \in Requests \ {r} : paid'[q] = paid[q]
         /\ paid'[r].sub = s /\ paid'[r].win = paid[r].win /\ paid'[r].amt = n
         /\ paid'[r].cnt = paid[r].cnt
    BY <1>2, <1>3, <2>9 DEF PaidType
  <2>11. paid'[r].amt = paid[r].amt + da /\ paid'[r].cnt = paid[r].cnt + 0 /\ 0 \in Int
    BY <1>3, <2>10 DEF n
  <2> QED BY <1>3, <2>3, <2>7, <2>8, <2>10, <2>11, S_Delta
<1> QED BY <1>4, <1>5, SettleCommit

(* A refund that commits returns the whole charge, to the window it lies in or
   to a later one. *)
LEMMA S_CommitRefund ==
  ASSUME Isolation = "conflict_fails", IInv, IInv', SerialInv, NEW r \in Requests, CommitRefund(r)
  PROVE  SerialInv'
<1>1. req[r].pc = "refunding" /\ rec[r].status = "consumed"
  BY DEF CommitRefund
<1>2. /\ TypeOK /\ paid[r] \in PaidType /\ sub \in [Subs -> RowType] /\ paid \in [Requests -> PaidType]
      /\ strayed \in [Subs -> SUBSET {"refund", "settle", "replay"}]
  BY Values, NowFacts, Types
<1> DEFINE s == rec[r].sub
           da == - rec[r].amt
           dc == - rec[r].cnt
<1>3. /\ s \in Subs /\ s = paid[r].sub /\ da \in Int /\ dc \in Int /\ da <= 0 /\ dc <= 0
      /\ paid[r].amt + da = 0 /\ paid[r].cnt + dc = 0
  BY <1>1, RefundSession
<1>4. CASE UNCHANGED <<sub, rec, paid, strayed>>
  <2>1. sub' = sub /\ paid' = paid /\ strayed' = strayed
    BY <1>4
  <2> QED BY <2>1, SerialSame
<1>5. ASSUME NEW o \in Outcomes, RefundCommits(r, o) PROVE SerialInv'
  <2> DEFINE x == tx[r].rows[s]
             z == [paid[r] EXCEPT !.amt = 0, !.cnt = 0]
  <2>1. /\ Commit(tx[r], {s}, o) /\ o # "lost"
        /\ sub' = [sub EXCEPT ![s] = Delta(s, x, da, dc)]
        /\ paid' = [paid EXCEPT ![r] = z]
        /\ strayed' = [strayed EXCEPT ![s] =
                         IF paid[r].win = x.last THEN @ ELSE @ \cup {"refund"}]
    BY <1>5 DEF RefundCommits
  <2>2. sub[s] = x
    BY <1>2, <2>1, CommitFacts
  <2>3. z.sub = paid[r].sub /\ z.win = paid[r].win /\ z.amt = 0 /\ z.cnt = 0
    BY <1>2, RefundedCharge
  <2> HIDE DEF s, da, dc, x, z
  <2>4. sub' = [sub EXCEPT ![s] = Delta(s, sub[s], da, dc)]
    BY <2>1, <2>2
  <2>5. /\ \A u \in Subs \ {s} : strayed'[u] = strayed[u]
        /\ paid[r].win = sub[s].last => strayed'[s] = strayed[s]
        /\ paid[r].win # sub[s].last => strayed'[s] = strayed[s] \cup {"refund"}
    BY <1>2, <1>3, <2>1, <2>2
  <2>6. "settle" \notin strayed'[s]
    <3>1. "settle" \notin strayed[s]
      BY <1>3 DEF SerialInv
    <3> QED BY <2>5, <3>1
  <2>7. /\ \A q \in Requests \ {r} : paid'[q] = paid[q]
        /\ paid'[r].sub = s /\ paid'[r].win = paid[r].win
        /\ paid'[r].amt = paid[r].amt + da /\ paid'[r].cnt = paid[r].cnt + dc
    BY <1>2, <1>3, <2>1, <2>3
  <2> QED BY <1>3, <2>4, <2>5, <2>6, <2>7, S_Delta
<1> QED BY <1>4, <1>5, RefundCommit

(* A reset that commits saw the row as it is. *)
LEMMA S_CommitReset ==
  ASSUME Isolation = "conflict_fails", IInv, IInv', SerialInv, CommitReset
  PROVE  SerialInv'
<1>1. job.open /\ paid' = paid
  BY DEF CommitReset
<1> DEFINE s == job.s
           y == ResetRow(s, job.rows[s], job.clock)
<1>2. PICK o \in Outcomes :
        /\ Commit(job, {s}, o)
        /\ IF o = "lost" THEN UNCHANGED <<sub, strayed>>
           ELSE sub' = [sub EXCEPT ![s] = y] /\ KeepStrayed(strayed)
  BY DEF CommitReset
<1>3. s \in Subs /\ ResetTo(s, job.rows[s], y, now) /\ TypeOK /\ sub \in [Subs -> RowType]
  BY <1>1, JobFacts, NowFacts
<1>4. CASE o = "lost"
  <2>1. sub' = sub /\ strayed' = strayed
    BY <1>2, <1>4
  <2> QED BY <1>1, <2>1, SerialSame
<1>5. CASE o # "lost"
  <2>1. sub[s] = job.rows[s]
    BY <1>2, <1>3, <1>5, CommitFacts
  <2> HIDE DEF y, s
  <2>2. sub'[s] = y /\ \A u \in Subs \ {s} : sub'[u] = sub[u]
    BY <1>2, <1>3, <1>5
  <2>3. ResetTo(s, sub[s], sub'[s], now)
    BY <1>3, <2>1, <2>2
  <2>4. \A u \in Subs : strayed'[u] = IF sub'[u].last > sub[u].last THEN {} ELSE strayed[u]
    BY <1>2, <1>5 DEF KeepStrayed
  <2>5. ASSUME NEW u \in Subs
        PROVE  /\ sub[u].last <= sub'[u].last /\ Fresh(u, sub'[u]) /\ "settle" \notin strayed'[u]
               /\ Accounts(u)'
    <3>1. Fresh(u, sub[u]) /\ Accounts(u) /\ "settle" \notin strayed[u] /\ SameCharges(u)
      BY <1>1 DEF SerialInv, SameCharges
    <3>2. sub[u].last \in Nat
      BY <1>3, RowFields
    <3>3. CASE u # s
      <4>1. sub'[u] = sub[u]
        BY <2>2, <3>3
      <4>2. strayed'[u] = strayed[u]
        BY <2>4, <3>2, <4>1
      <4> QED BY <3>1, <3>2, <4>1, <4>2, KeptAccount
    <3>4. CASE u = s
      <4>1. Accounts(u)'
        BY <2>3, <2>4, <3>1, <3>4, ChargesBegun, ResetAccount
      <4> QED BY <2>3, <2>4, <3>1, <3>4, <4>1 DEF ResetTo, Fresh
    <3> QED BY <3>3, <3>4
  <2> QED BY <1>1, <2>5, SerialFrame
<1> QED BY <1>4, <1>5

(* An expiry leaves the usage alone. *)
LEMMA S_Expire ==
  ASSUME IInv, IInv', SerialInv, Expire
  PROVE  SerialInv'
<1>1. /\ sub' = [s \in Subs |-> IF Plan[s].end > 0 /\ Plan[s].end <= now
                                  THEN [sub[s] EXCEPT !.status = "expired"] ELSE sub[s]]
      /\ paid' = paid /\ strayed' = strayed
  BY DEF Expire
<1>2. ASSUME NEW s \in Subs
      PROVE  /\ sub'[s].last = sub[s].last /\ sub'[s].amt = sub[s].amt
             /\ sub'[s].cnt = sub[s].cnt /\ sub'[s].per = sub[s].per
  <2> DEFINE y == [sub[s] EXCEPT !.status = "expired"]
  <2>1. sub[s] \in RowType
    BY NowFacts
  <2>2. /\ y.last = sub[s].last
        /\ y.amt = sub[s].amt /\ y.cnt = sub[s].cnt /\ y.per = sub[s].per
    BY <2>1 DEF RowType
  <2>3. sub'[s] = y \/ sub'[s] = sub[s]
    BY <1>1
  <2> HIDE DEF y
  <2> QED BY <2>2, <2>3
<1> QED BY <1>1, <1>2, SerialSame

(* The first state *)
LEMMA InitSerial == Init => SerialInv
<1> SUFFICES ASSUME Init PROVE SerialInv
  OBVIOUS
<1>1. /\ sub = [s \in Subs |-> NewSub(s)] /\ paid = [r \in Requests |-> Unpaid]
      /\ strayed = [s \in Subs |-> {}] /\ IInv
  BY InitIInv DEF Init
<1>2. \A r \in Requests : paid[r].sub = NoSub
  BY <1>1 DEF Unpaid
<1>3. ASSUME NEW s \in Subs PROVE Fresh(s, sub[s]) /\ Accounts(s) /\ "settle" \notin strayed[s]
  <2>1. s # NoSub /\ sub[s] = NewSub(s) /\ strayed[s] = {}
    BY <1>1, PlanFacts
  <2>2. sub[s].amt = 0 /\ sub[s].cnt = 0 /\ sub[s].per = 0
    BY <2>1 DEF NewSub
  <2> DEFINE f == [q \in Requests |-> Share(s, q)]
             g == [q \in Requests |-> CountShare(s, q)]
             h == [q \in Requests |-> LifetimeShare(s, q)]
  <2>3. \A q \in Requests : f[q] = 0 /\ g[q] = 0 /\ h[q] = 0
    BY <1>2, <2>1 DEF Share, CountShare, LifetimeShare, InWindow
  <2>4. AmountOf(s) = SumFunctionOnSet(f, Requests) /\ CountOf(s) = SumFunctionOnSet(g, Requests)
        /\ LifetimeCountOf(s) = SumFunctionOnSet(h, Requests) /\ IsFiniteSet(Requests)
    BY SumsOfShares, LedgerAssumption
  <2> HIDE DEF f, g, h
  <2>5. AmountOf(s) = 0 /\ CountOf(s) = 0 /\ LifetimeCountOf(s) = 0
    BY <2>3, <2>4, SumZero
  <2> QED BY <2>1, <2>2, <2>5 DEF Fresh, Accounts, CurrentCount
<1> QED BY <1>2, <1>3 DEF SerialInv, Charged

(* Every step keeps the invariant. *)
LEMMA NextSerial ==
  ASSUME Isolation = "conflict_fails"
  PROVE  IInv /\ IInv' /\ SerialInv /\ [Next]_vars => SerialInv'
<1> SUFFICES ASSUME IInv, IInv', SerialInv, [Next]_vars PROVE SerialInv'
  OBVIOUS
<1>1. CASE UNCHANGED <<sub, paid, strayed>>
  <2>1. sub' = sub /\ paid' = paid /\ strayed' = strayed
    BY <1>1
  <2> QED BY <2>1, SerialSame
<1>2. ASSUME NEW r \in Requests, RequestStep(r) PROVE SerialInv'
  <2>1. CASE ReadClock(r) \/ BeginHold(r) \/ HoldAgain(r) \/ NoneEligible(r)
    BY <1>1, <2>1 DEF ReadClock, BeginHold, HoldAgain, NoneEligible
  <2>2. CASE BeginSettle(r) \/ BeginRefund(r) \/ RefundNoRecord(r)
    BY <1>1, <2>2 DEF BeginSettle, BeginRefund, RefundNoRecord
  <2> QED BY <1>2, <2>1, <2>2, S_CommitHold, S_CommitSettle, S_CommitRefund DEF RequestStep
<1>3. CASE ResetStep
  <2>1. CASE StartRound
    BY <1>1, <2>1 DEF StartRound
  <2>2. ASSUME NEW d \in round.due, BeginReset(d) \/ SkipDue(d) PROVE SerialInv'
    BY <1>1, <2>2 DEF BeginReset, SkipDue
  <2> QED BY <1>3, <2>1, <2>2, S_CommitReset DEF ResetStep
<1>4. CASE Cleanup \/ Tick
  BY <1>1, <1>4 DEF Cleanup, Tick
<1>5. CASE UNCHANGED vars
  BY <1>1, <1>5 DEF vars
<1> QED BY <1>2, <1>3, <1>4, <1>5, S_Expire DEF Next, Done

-----------------------------------------------------------------------------
(* What a database whose transactions fail on a conflict guarantees *)

(* The accounts are right in every reachable state. *)
THEOREM SpecSerial ==
  ASSUME Isolation = "conflict_fails"
  PROVE  Spec => []SerialInv
<1>1. IInv /\ IInv' /\ SerialInv /\ [Next]_vars => SerialInv'
  BY NextSerial
<1> QED BY <1>1, InitSerial, SpecIInv, PTL DEF Spec

(* The usage a row records is what the requests held in its window were charged
   (PreConsumeUserSubscription, PostConsumeUserSubscriptionDelta,
   RefundSubscriptionPreConsume): on SQLite, where a transaction that read a row
   another one has written since fails. *)
THEOREM UsageStaysExact ==
  ASSUME Isolation = "conflict_fails"
  PROVE  Spec => []UsageExact
<1>1. SerialInv => UsageExact
  BY DEF SerialInv, Accounts, UsageExact
<1> QED BY <1>1, SpecSerial, PTL

(* A late refund lowers the usage of a window and never raises it. *)
THEOREM NeverOvercharged ==
  ASSUME Isolation = "conflict_fails"
  PROVE  Spec => []NeverOvercounted
<1>1. SerialInv => NeverOvercounted
  BY DEF SerialInv, Accounts, NeverOvercounted
<1> QED BY <1>1, SpecSerial, PTL

(* The lifetime counter survives every reset (request_count plans with a
   separate counter of the period). *)
THEOREM LifetimeStaysExact ==
  ASSUME Isolation = "conflict_fails"
  PROVE  Spec => []LifetimeExact
<1>1. SerialInv => LifetimeExact
  BY DEF SerialInv, Accounts, LifetimeExact
<1> QED BY <1>1, SpecSerial, PTL

(* No lifetime grants more than its limit, and no window does in which nothing
   has strayed: a row stays within the limits at every isolation level, and here
   it is what was granted. A window whose usage was lowered by a refund of an
   earlier one, or changed by the settle of a repeated hold, is excepted. *)
THEOREM LimitsHold ==
  ASSUME Isolation = "conflict_fails"
  PROVE  Spec => []NotOversold
<1>1. IInv /\ SerialInv => NotOversold
  <2> SUFFICES ASSUME IInv, SerialInv, NEW s \in Subs
               PROVE  /\ Plan[s].amountTotal > 0 /\ strayed[s] = {} => AmountOf(s) <= Plan[s].amountTotal
                      /\ PeriodLimit(s) > 0 /\ strayed[s] = {} => CountOf(s) <= PeriodLimit(s)
                      /\ HasLifetimeLimit(s) => LifetimeCountOf(s) <= Plan[s].countTotal
    BY DEF NotOversold
  <2>1. Accounts(s)
    BY DEF SerialInv
  <2>2. Bounded(s, sub[s])
    BY DEF IInv, RowsInv, RowGood
  <2> QED BY <2>1, <2>2 DEF Accounts, Bounded
<1> QED BY <1>1, SpecSerial, SpecIInv, PTL

(* The settle of a session that knows the window its hold was charged to never
   reaches another one (PostConsumeUserSubscriptionDeltaForWindow). A repeated
   hold that was answered from its record may be told another window, and its
   settle is excepted. *)
THEOREM SettlesInItsWindow ==
  ASSUME Isolation = "conflict_fails"
  PROVE  Spec => []SettleStaysInWindow
<1>1. SerialInv => SettleStaysInWindow
  BY DEF SerialInv, SettleStaysInWindow
<1> QED BY <1>1, SpecSerial, PTL

=============================================================================

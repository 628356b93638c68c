------------------------- MODULE SubscriptionLedger -------------------------
(***************************************************************************)
(* The usage ledger of a user's subscriptions (model/subscription.go): the *)
(* transactions that pre-consume, settle and refund a request, the lazy    *)
(* and the periodic reset of the usage window, expiry, and the cleanup of  *)
(* the idempotency records (service/subscription_reset_task.go).           *)
(*                                                                         *)
(* A transaction reads rows, computes, and writes back whole rows          *)
(* (tx.Save), so it is two steps here; a pre-consume and the reset task    *)
(* read the clock in a step before that. Isolation says what the database  *)
(* makes of a transaction whose rows changed in between: the legacy query  *)
(* option "FOR UPDATE" these functions set is ignored by GORM v2           *)
(* (model/locking.go), so nothing is locked and nothing is compared.       *)
(* SQLite makes the transaction fail, MySQL and PostgreSQL let the last    *)
(* write win. A transaction sees one state of the rows; on PostgreSQL the  *)
(* second read of a preferred row may see a later one, which is left out.  *)
(***************************************************************************)
EXTENDS Integers, FiniteSets, Functions

CONSTANTS
    Subs,        \* ids of the user's subscriptions, positive numbers
    Plan,        \* Plan[s]: what subscription s entitles to
    Requests,    \* request ids
    Wants,       \* what a request may ask for, a subset of Want
    Usages,      \* the cost a served request may turn out to have
    Isolation,   \* "conflict_fails" (SQLite) or "last_write_wins"
    KeepTime,    \* age at which idempotency records are deleted
    MaxRetries,  \* how often a refused pre-consume is repeated (RelayTask)
    MaxTime,     \* bound: the clock stops here
    MaxFaults    \* bound: commits and lookups that report an error

NoSub == 0
StartTime == 1

PlanType ==
    [resource : {"quota", "request_count"}, amountTotal : Nat, countTotal : Nat,
     periodTotal : Nat, period : Nat, end : Nat]

(* model: the subscriptions enabled for aggregate access that allow the
   model and its vendor; group: those that allow the group *)
Want == [amount : Nat \ {0}, model : SUBSET Subs, group : SUBSET Subs,
         preferred : Subs \cup {NoSub}]

ASSUME LedgerAssumption ==
    /\ IsFiniteSet(Subs) /\ Subs \subseteq Nat \ {0}
    /\ Plan \in [Subs -> PlanType]
    /\ \A s \in Subs : Plan[s].end = 0 \/ Plan[s].end >= StartTime
    /\ IsFiniteSet(Requests)
    /\ Wants \subseteq Want
    /\ Usages \subseteq Nat
    /\ Isolation \in {"conflict_fails", "last_write_wins"}
    /\ KeepTime \in Nat /\ MaxRetries \in Nat
    /\ MaxTime \in Nat \ {0} /\ MaxFaults \in Nat

VARIABLES
    now,      \* the database clock
    sub,      \* rows of user_subscriptions
    rec,      \* rows of subscription_pre_consume_records, by request id
    req,      \* the request's session: control point and what PreConsume returned
    want,     \* what the request asks for
    tx,       \* the open transaction of a request: the rows it read and when
    round,    \* the reset task: its clock and the rows it has yet to reset
    job,      \* the open transaction of the reset task
    faults,   \* commits and lookups that reported an error so far
    paid,     \* history: subscription, window, amount and count charged to a request
    strayed   \* history: what changed a window it was not held in: "refund",
              \* "settle", or "replay", the settle of a hold answered from its record

vars == <<now, sub, rec, req, want, tx, round, job, faults, paid, strayed>>

-----------------------------------------------------------------------------
(* Reset windows *)

(* calcNextResetTime: 0 when the next window would start after the end. The
   calendar and fixed-clock periods are abstracted to a fixed length. *)
NextReset(s, base) ==
    IF Plan[s].period = 0 \/ (Plan[s].end > 0 /\ base + Plan[s].period > Plan[s].end)
      THEN 0 ELSE base + Plan[s].period

(* mutant: the new window starts now instead of where the old one ended *)
LastResetNow(s, base, t) == t

(* The start of the last window that begins by time t, counted from base. *)
LastReset(s, base, t) ==
    LET stop == IF Plan[s].end > 0 /\ Plan[s].end < t THEN Plan[s].end ELSE t
    IN IF stop <= base THEN base
       ELSE base + ((stop - base) \div Plan[s].period) * Plan[s].period

(* getSubscriptionResetWindowForTimestamp *)
WindowStartAt(s, t) == IF Plan[s].period = 0 THEN StartTime ELSE LastReset(s, StartTime, t)
WindowEndAt(s, t) == NextReset(s, WindowStartAt(s, t))

(* getSubscriptionUsageWindowStart *)
UsageWindowStart(s, x) ==
    IF Plan[s].period = 0 \/ x.last <= 0 THEN StartTime ELSE x.last

HasSeparatePeriodCounter(s) == Plan[s].period > 0 /\ Plan[s].periodTotal > 0

HasLifetimeLimit(s) ==
    /\ Plan[s].resource = "request_count" /\ Plan[s].countTotal > 0
    /\ Plan[s].period > 0 => HasSeparatePeriodCounter(s)

PeriodLimit(s) ==
    IF Plan[s].resource # "request_count" \/ Plan[s].period = 0 THEN 0
    ELSE IF Plan[s].periodTotal <= 0 THEN Plan[s].countTotal ELSE Plan[s].periodTotal

CurrentCount(s, x) == IF HasSeparatePeriodCounter(s) THEN x.per ELSE x.cnt

NoWindow(s) == Plan[s].period = 0

(* mutant: a reset also clears the lifetime counter *)
ResetRowAllCounters(s, x, t) ==
    IF NoWindow(s) \/ x.next > t THEN x
    ELSE LET base == IF x.last <= 0 THEN StartTime ELSE x.last
             last == LastReset(s, base, t)
             moved == [x EXCEPT !.last = last, !.next = NextReset(s, last)]
         IN IF last > base THEN [moved EXCEPT !.amt = 0, !.per = 0, !.cnt = 0] ELSE moved

(* mutant: the new window starts with the usage of the old one *)
ResetRowKeepsAmount(s, x, t) ==
    IF NoWindow(s) \/ x.next > t THEN x
    ELSE LET base == IF x.last <= 0 THEN StartTime ELSE x.last
             last == LastReset(s, base, t)
         IN [x EXCEPT !.last = last, !.next = NextReset(s, last)]

(* mutant: a window is not over yet at the very time it ends *)
ResetRowOffByOne(s, x, t) ==
    IF NoWindow(s) \/ x.next >= t THEN x
    ELSE LET base == IF x.last <= 0 THEN StartTime ELSE x.last
             last == LastReset(s, base, t)
         IN [x EXCEPT !.last = last, !.next = NextReset(s, last), !.amt = 0, !.cnt = 0]

(* mutant: clears the usage and forgets to move the next reset *)
ResetRowKeepsNext(s, x, t) ==
    IF NoWindow(s) \/ x.next > t THEN x ELSE [x EXCEPT !.amt = 0, !.per = 0]

(* maybeResetUserSubscriptionWithPlanTx: move to the window of time t and
   start its usage at zero; the lifetime counter stays. *)
ResetRow(s, x, t) ==
    IF NoWindow(s) \/ x.next > t THEN x
    ELSE LET base == IF x.last <= 0 THEN StartTime ELSE x.last
             last == LastReset(s, base, t)
             moved == [x EXCEPT !.last = last, !.next = NextReset(s, last)]
         IN IF last <= base THEN moved
            ELSE IF HasSeparatePeriodCounter(s) THEN [moved EXCEPT !.amt = 0, !.per = 0]
            ELSE [moved EXCEPT !.amt = 0, !.cnt = 0]

-----------------------------------------------------------------------------
(* Pre-consume *)

RequiredAmount(s, amount) == IF Plan[s].amountTotal > 0 THEN amount ELSE 0
RequiredCount(s) == IF HasLifetimeLimit(s) \/ PeriodLimit(s) > 0 THEN 1 ELSE 0

(* mutant: trusts the lifetime counter and forgets the limit of the period *)
EligibleLifetimeOnly(s, x, amount) ==
    /\ Plan[s].amountTotal > 0 => x.amt + amount <= Plan[s].amountTotal
    /\ HasLifetimeLimit(s) => x.cnt + 1 <= Plan[s].countTotal

Eligible(s, x, amount) ==
    /\ Plan[s].amountTotal > 0 => x.amt + amount <= Plan[s].amountTotal
    /\ HasLifetimeLimit(s) => x.cnt + 1 <= Plan[s].countTotal
    /\ PeriodLimit(s) > 0 => CurrentCount(s, x) + 1 <= PeriodLimit(s)

Hold(s, x, amount) ==
    LET n == RequiredCount(s)
    IN [x EXCEPT !.amt = @ + RequiredAmount(s, amount),
                 !.cnt = IF HasLifetimeLimit(s) \/ ~ HasSeparatePeriodCounter(s)
                           THEN @ + n ELSE @,
                 !.per = IF HasSeparatePeriodCounter(s) THEN @ + n ELSE @]

(* "status = active AND end_time > now" *)
Active(rows, t) == {s \in Subs : rows[s].status = "active" /\ Plan[s].end > t}

Earlier(s, u) == Plan[s].end < Plan[u].end \/ (Plan[s].end = Plan[u].end /\ s < u)
FirstOf(S) == CHOOSE s \in S : \A u \in S \ {s} : Earlier(s, u)

Fits(r, s, rows, t) == Eligible(s, ResetRow(s, rows[s], t), want[r].amount)

(* The preferred subscription, whatever its group, and the others *)
Preferred(r, rows, t) == {want[r].preferred} \cap Active(rows, t) \cap want[r].model
Candidates(r, rows, t) == Active(rows, t) \cap want[r].model \cap want[r].group

(* A subscription that counts requests goes before one with a quota, and
   within each kind the one that ends first. *)
FirstFitting(r, rows, t) ==
    LET able == {s \in Candidates(r, rows, t) : Fits(r, s, rows, t)}
        counted == {s \in able : Plan[s].resource = "request_count"}
    IN IF counted # {} THEN FirstOf(counted) ELSE IF able # {} THEN FirstOf(able) ELSE NoSub

(* The preferred subscription is tried first, with a clock of its own (seen),
   and then the others with the clock read before the transaction (at). *)
PreferredTaken(r, rows, seen) ==
    \E p \in Preferred(r, rows, seen) : Fits(r, p, rows, seen)

Select(r, rows, at, seen) ==
    IF PreferredTaken(r, rows, seen) THEN want[r].preferred ELSE FirstFitting(r, rows, at)

HoldTime(r, rows, at, seen) == IF PreferredTaken(r, rows, seen) THEN seen ELSE at

(* The rows as saved with a hold on subscription s. The resets on the way to
   it are saved too: of the candidates, which were read before the preferred
   one was tried, and else of the preferred one. *)
AfterHold(r, rows, at, seen, s) ==
    [u \in Subs |->
        IF u = s
          THEN Hold(s, ResetRow(s, rows[s], HoldTime(r, rows, at, seen)), want[r].amount)
        ELSE IF /\ ~ PreferredTaken(r, rows, seen) /\ u \in Candidates(r, rows, at)
                /\ ResetRow(u, rows[u], at) # rows[u]
          THEN ResetRow(u, rows[u], at)
        ELSE IF u \in Preferred(r, rows, seen) THEN ResetRow(u, rows[u], seen) ELSE rows[u]]

-----------------------------------------------------------------------------
(* Settle and refund: postConsumeUserSubscriptionDeltaDetailedForWindowTx *)

NonNegative(n) == IF n < 0 THEN 0 ELSE n

(* mutant: settles into whatever window is current *)
ClosedWindowNever(x, ws, we) == FALSE

(* The window [ws, we) of the session has been reset since. *)
ClosedWindow(x, ws, we) == (ws > 0 /\ x.last > ws) \/ (we > 0 /\ x.last >= we)

(* mutant: subtracts without a floor *)
DeltaNoFloor(s, x, da, dc) ==
    [x EXCEPT
       !.amt = @ + da,
       !.cnt = IF dc # 0 /\ (HasLifetimeLimit(s) \/ ~ HasSeparatePeriodCounter(s))
                 THEN @ + dc ELSE @,
       !.per = IF dc # 0 /\ (HasSeparatePeriodCounter(s) \/ @ > 0) THEN @ + dc ELSE @]

Delta(s, x, da, dc) ==
    [x EXCEPT
       !.amt = NonNegative(@ + da),
       !.cnt = IF dc # 0 /\ (HasLifetimeLimit(s) \/ ~ HasSeparatePeriodCounter(s))
                 THEN NonNegative(@ + dc) ELSE @,
       !.per = IF dc # 0 /\ (HasSeparatePeriodCounter(s) \/ @ > 0)
                 THEN NonNegative(@ + dc) ELSE @]

Exceeds(s, x, da, dc) ==
    \/ da # 0 /\ Plan[s].amountTotal > 0 /\ x.amt + da > Plan[s].amountTotal
    \/ dc # 0 /\ HasLifetimeLimit(s) /\ x.cnt + dc > Plan[s].countTotal
    \/ /\ dc # 0 /\ (HasSeparatePeriodCounter(s) \/ x.per > 0)
       /\ PeriodLimit(s) > 0 /\ x.per + dc > PeriodLimit(s)

-----------------------------------------------------------------------------
NoRec == [status |-> "none", sub |-> NoSub, amt |-> 0, cnt |-> 0, created |-> 0, updated |-> 0]
NoTx == [open |-> FALSE]
NewReq == [pc |-> "new", sub |-> NoSub, pre |-> 0, ws |-> 0, we |-> 0, usage |-> 0,
           heldAt |-> 0, readAt |-> 0, tries |-> 0]
NoRound == [at |-> 0, due |-> {}]
Unpaid == [sub |-> NoSub, win |-> 0, amt |-> 0, cnt |-> 0]

NewSub(s) ==
    [amt |-> 0, cnt |-> 0, per |-> 0, status |-> "active", next |-> NextReset(s, StartTime),
     last |-> IF NextReset(s, StartTime) > 0 THEN StartTime ELSE 0]

Init ==
    /\ now = StartTime
    /\ sub = [s \in Subs |-> NewSub(s)]
    /\ rec = [r \in Requests |-> NoRec]
    /\ req = [r \in Requests |-> NewReq]
    /\ want \in [Requests -> Wants]
    /\ tx = [r \in Requests |-> NoTx]
    /\ round = NoRound
    /\ job = NoTx
    /\ faults = 0
    /\ paid = [r \in Requests |-> Unpaid]
    /\ strayed = [s \in Subs |-> {}]

Open == [open |-> TRUE, rows |-> sub, at |-> now]

(* The outcome of a commit: "lost" and "applied" both report an error. *)
Outcomes == {"ok", "lost", "applied"}

(* What SQLite notices: another transaction wrote a row of the snapshot. *)
Conflict(t, S) == \E s \in S : sub[s] # t.rows[s]

Commit(t, S, o) ==
    /\ Isolation = "conflict_fails" /\ Conflict(t, S) => o = "lost"
    /\ \/ o = "ok" /\ UNCHANGED faults
       \/ o = "lost" /\ Isolation = "conflict_fails" /\ Conflict(t, S) /\ UNCHANGED faults
       \/ o # "ok" /\ faults < MaxFaults /\ faults' = faults + 1

Point(r, p) == req' = [req EXCEPT ![r].pc = p]
(* The session is over and forgotten. *)
End(r, p) == req' = [req EXCEPT ![r] = [NewReq EXCEPT !.pc = p]]
Close(r) == tx' = [tx EXCEPT ![r] = NoTx]
(* The row of subscription s is saved, and every other that was reset. *)
Save(s, rows, old) ==
    sub' = [u \in Subs |-> IF u = s \/ rows[u] # old[u] THEN rows[u] ELSE sub[u]]

(* A reset starts a window in which nothing has strayed. *)
KeepStrayed(kept) ==
    strayed' = [s \in Subs |-> IF sub'[s].last > sub[s].last THEN {} ELSE kept[s]]

-----------------------------------------------------------------------------
(* A request *)

(* preConsumeUserSubscriptionWithPreference reads the clock ... *)
ReadClock(r) ==
    /\ req[r].pc = "new"
    /\ req' = [req EXCEPT ![r] = [@ EXCEPT !.pc = "clocked", !.heldAt = now]]
    /\ UNCHANGED <<now, sub, rec, want, tx, round, job, faults, paid, strayed>>

(* ... and then begins the transaction. *)
BeginHold(r) ==
    /\ req[r].pc = "clocked"
    /\ Point(r, "holding")
    /\ tx' = [tx EXCEPT ![r] = Open]
    /\ UNCHANGED <<now, sub, rec, want, round, job, faults, paid, strayed>>

Refuse(r) ==
    req' = [req EXCEPT ![r] =
              IF @.tries < MaxRetries THEN [NewReq EXCEPT !.tries = req[r].tries + 1]
              ELSE [NewReq EXCEPT !.pc = "refused"]]

(* The reply of PreConsume after subscription s was charged in window [ws, we)
   by the clock at. *)
Held(r, s, pre, ws, we, at, readAt) ==
    req' = [req EXCEPT ![r] = [@ EXCEPT !.pc = "held", !.sub = s, !.pre = pre, !.ws = ws,
                                        !.we = we, !.heldAt = at, !.readAt = readAt]]

(* The request id already has a record: answer from it, or refuse. *)
HoldAgain(r) ==
    /\ req[r].pc = "holding" /\ rec[r].status # "none"
    /\ IF rec[r].status = "refunded" THEN Refuse(r)
       ELSE Held(r, rec[r].sub, rec[r].amt, WindowStartAt(rec[r].sub, rec[r].created),
                 WindowEndAt(rec[r].sub, rec[r].created), rec[r].created, rec[r].created)
    /\ Close(r)
    /\ UNCHANGED <<now, sub, rec, want, round, job, faults, paid, strayed>>

(* When the preferred subscription is tried; on PostgreSQL, where NOW() is the
   time the transaction began, that may be before its rows were read. *)
SeenTimes(r) == req[r].heldAt .. now

NoneEligible(r) ==
    /\ req[r].pc = "holding" /\ rec[r].status = "none"
    /\ \E seen \in SeenTimes(r) : Select(r, tx[r].rows, req[r].heldAt, seen) = NoSub
    /\ Refuse(r) /\ Close(r)
    /\ UNCHANGED <<now, sub, rec, want, round, job, faults, paid, strayed>>

CommitHold(r) ==
    /\ req[r].pc = "holding" /\ rec[r].status = "none"
    /\ \E at \in {req[r].heldAt}, seen \in SeenTimes(r), o \in Outcomes :
       \E s \in {Select(r, tx[r].rows, at, seen)} \ {NoSub} :
       \E rows \in {AfterHold(r, tx[r].rows, at, seen, s)} :
          LET amt == RequiredAmount(s, want[r].amount)
              cnt == RequiredCount(s)
          IN /\ Commit(tx[r], Active(tx[r].rows, at), o)
             /\ IF o = "lost" THEN UNCHANGED <<sub, rec, paid>>
                ELSE /\ Save(s, rows, tx[r].rows)
                     /\ rec' = [rec EXCEPT ![r] = [status |-> "consumed", sub |-> s, amt |-> amt,
                                                  cnt |-> cnt, created |-> now, updated |-> now]]
                     /\ paid' = [paid EXCEPT ![r] = [sub |-> s, win |-> rows[s].last,
                                                    amt |-> amt, cnt |-> cnt]]
             /\ IF o # "ok" THEN Refuse(r)
                ELSE Held(r, s, amt, UsageWindowStart(s, rows[s]), rows[s].next,
                          HoldTime(r, tx[r].rows, at, seen), tx[r].at)
             /\ KeepStrayed(strayed)
    /\ Close(r)
    /\ UNCHANGED <<now, want, round, job>>

(* SubscriptionFunding.Settle with the difference to the actual cost *)
SettleDelta(r, u) == IF Plan[req[r].sub].amountTotal <= 0 THEN 0 ELSE u - req[r].pre

BeginSettle(r) ==
    /\ req[r].pc = "held"
    /\ \E u \in Usages :
         IF SettleDelta(r, u) = 0 THEN End(r, "settled") /\ UNCHANGED tx
         ELSE /\ req' = [req EXCEPT ![r] = [@ EXCEPT !.pc = "settling", !.usage = u, !.heldAt = 0, !.readAt = 0]]
              /\ tx' = [tx EXCEPT ![r] = Open]
    /\ UNCHANGED <<now, sub, rec, want, round, job, faults, paid, strayed>>

CommitSettle(r) ==
    /\ req[r].pc = "settling"
    /\ LET s == req[r].sub
           x == tx[r].rows[s]
           da == SettleDelta(r, req[r].usage)
           closed == ClosedWindow(x, req[r].ws, req[r].we)
       IN IF closed \/ Exceeds(s, x, da, 0)
            THEN /\ End(r, IF closed THEN "settled" ELSE "settle_error")
                 /\ UNCHANGED <<sub, paid, strayed, faults>>
          ELSE \E o \in Outcomes :
            /\ Commit(tx[r], {s}, o)
            /\ End(r, IF o = "ok" THEN "settled" ELSE "settle_error")
            /\ IF o = "lost" THEN UNCHANGED <<sub, paid, strayed>>
               ELSE /\ sub' = [sub EXCEPT ![s] = Delta(s, x, da, 0)]
                    /\ paid' = [paid EXCEPT ![r].amt = @ + da]
                    /\ strayed' = [strayed EXCEPT ![s] =
                                     IF paid[r].win = x.last THEN @
                                     ELSE @ \cup {IF req[r].ws = paid[r].win THEN "settle" ELSE "replay"}]
    /\ Close(r)
    /\ UNCHANGED <<now, rec, want, round, job>>

(* RefundSubscriptionPreConsume, up to three times; it knows the request id
   and nothing else of the session *)
MaxAttempts == 3

BeginRefund(r) ==
    /\ req[r].pc = "held"
    /\ req' = [req EXCEPT ![r] = [NewReq EXCEPT !.pc = "refunding"]]
    /\ tx' = [tx EXCEPT ![r] = Open]
    /\ UNCHANGED <<now, sub, rec, want, round, job, faults, paid, strayed>>

RefundFails(r) ==
    IF req[r].tries < MaxAttempts - 1
      THEN /\ req' = [req EXCEPT ![r].tries = @ + 1]
           /\ tx' = [tx EXCEPT ![r] = Open]
      ELSE End(r, "refund_error") /\ Close(r)

(* Nothing to do for a record that was refunded; an error without one. *)
RefundNoRecord(r) ==
    /\ req[r].pc = "refunding" /\ rec[r].status # "consumed"
    /\ IF rec[r].status = "refunded" THEN End(r, "refunded") /\ Close(r) ELSE RefundFails(r)
    /\ UNCHANGED <<now, sub, rec, want, round, job, faults, paid, strayed>>

(* mutant: leaves the record as it was, so a repeated refund counts again *)
MarkRefundedNot(r) == rec' = [rec EXCEPT ![r].updated = now]

MarkRefunded(r) ==
    rec' = [rec EXCEPT ![r] = [@ EXCEPT !.status = "refunded", !.updated = now]]

CommitRefund(r) ==
    /\ req[r].pc = "refunding" /\ rec[r].status = "consumed"
    /\ LET s == rec[r].sub
           x == tx[r].rows[s]
       IN \E o \in Outcomes :
            /\ Commit(tx[r], {s}, o)
            /\ IF o = "lost" THEN UNCHANGED <<sub, rec, paid, strayed>>
               ELSE /\ sub' = [sub EXCEPT ![s] = Delta(s, x, - rec[r].amt, - rec[r].cnt)]
                    /\ MarkRefunded(r)
                    /\ paid' = [paid EXCEPT ![r] = [@ EXCEPT !.amt = 0, !.cnt = 0]]
                    /\ strayed' = [strayed EXCEPT ![s] =
                                     IF paid[r].win = x.last THEN @ ELSE @ \cup {"refund"}]
            /\ IF o = "ok" THEN End(r, "refunded") /\ Close(r) ELSE RefundFails(r)
    /\ UNCHANGED <<now, want, round, job>>

-----------------------------------------------------------------------------
(* The maintenance task: expire, reset, clean up *)

Expire ==
    /\ \E s \in Subs : sub[s].status = "active" /\ Plan[s].end > 0 /\ Plan[s].end <= now
    /\ sub' = [s \in Subs |-> IF Plan[s].end > 0 /\ Plan[s].end <= now
                                THEN [sub[s] EXCEPT !.status = "expired"] ELSE sub[s]]
    /\ UNCHANGED <<now, rec, req, want, tx, round, job, faults, paid, strayed>>

Due(s) == sub[s].status = "active" /\ sub[s].next > 0 /\ sub[s].next <= now

(* ResetDueSubscriptions: a round lists the rows that are due ... *)
StartRound ==
    /\ round = NoRound /\ ~ job.open
    /\ \E s \in Subs : Due(s)
    /\ round' = [at |-> now, due |-> {[sub |-> s, next |-> sub[s].next] : s \in {u \in Subs : Due(u)}}]
    /\ UNCHANGED <<now, sub, rec, req, want, tx, job, faults, paid, strayed>>

(* ... and takes them one by one, the one due first, which may be gone. *)
First(d) == \A e \in round.due : d.next <= e.next
Rest(due) == IF due = {} THEN NoRound ELSE [round EXCEPT !.due = due]

(* The plan of the row is not found, or the row is not read: the next one. *)
SkipDue(d) ==
    /\ ~ job.open /\ First(d) /\ faults < MaxFaults
    /\ round' = Rest(round.due \ {d})
    /\ faults' = faults + 1
    /\ UNCHANGED <<now, sub, rec, req, want, tx, job, paid, strayed>>

BeginReset(d) ==
    /\ ~ job.open /\ First(d)
    /\ round' = Rest(round.due \ {d})
    /\ job' = IF sub[d.sub].next > 0 /\ sub[d.sub].next <= round.at
                THEN [open |-> TRUE, rows |-> sub, at |-> now, s |-> d.sub, clock |-> round.at]
                ELSE job
    /\ UNCHANGED <<now, sub, rec, req, want, tx, faults, paid, strayed>>

(* The first transaction that reports an error ends the round. *)
CommitReset ==
    /\ job.open
    /\ \E o \in Outcomes :
         /\ Commit(job, {job.s}, o)
         /\ IF o = "lost" THEN UNCHANGED <<sub, strayed>>
            ELSE /\ sub' = [sub EXCEPT ![job.s] = ResetRow(job.s, job.rows[job.s], job.clock)]
                 /\ KeepStrayed(strayed)
         /\ round' = IF o = "ok" THEN round ELSE NoRound
    /\ job' = NoTx
    /\ UNCHANGED <<now, rec, req, want, tx, paid>>

(* Records are kept for seven days: no pre-consume is repeated that late. *)
TooOld(r) ==
    rec[r].updated + KeepTime < now /\ req[r].pc \notin {"new", "clocked", "holding"}

Cleanup ==
    /\ \E r \in Requests : rec[r].status # "none" /\ TooOld(r)
    /\ rec' = [r \in Requests |-> IF TooOld(r) THEN NoRec ELSE rec[r]]
    /\ UNCHANGED <<now, sub, req, want, tx, round, job, faults, paid, strayed>>

Tick ==
    /\ now < MaxTime /\ now' = now + 1
    /\ UNCHANGED <<sub, rec, req, want, tx, round, job, faults, paid, strayed>>

RequestStep(r) ==
    \/ ReadClock(r) \/ BeginHold(r) \/ HoldAgain(r) \/ NoneEligible(r) \/ CommitHold(r)
    \/ BeginSettle(r) \/ CommitSettle(r)
    \/ BeginRefund(r) \/ RefundNoRecord(r) \/ CommitRefund(r)

ResetStep ==
    \/ StartRound \/ CommitReset
    \/ \E d \in round.due : BeginReset(d) \/ SkipDue(d)

Ends == {"refused", "settled", "settle_error", "refunded", "refund_error"}

Done ==
    /\ now = MaxTime /\ \A r \in Requests : req[r].pc \in Ends
    /\ UNCHANGED vars

Next ==
    \/ \E r \in Requests : RequestStep(r)
    \/ ResetStep \/ Expire \/ Cleanup \/ Tick \/ Done

(* The task of the master node ticks every minute, and its calls return. *)
Spec == Init /\ [][Next]_vars /\ WF_vars(ResetStep)

-----------------------------------------------------------------------------
(* Properties *)

RowType == [amt : Nat, cnt : Nat, per : Nat, status : {"active", "expired"},
            next : Nat, last : Nat]

TxType == {NoTx} \cup [open : {TRUE}, rows : [Subs -> RowType], at : Nat]

(* Type invariant of the rows, records, sessions and open transactions; the
   counters of a row never become negative (the clamps of
   postConsumeUserSubscriptionDeltaDetailedForWindowTx). *)
TypeOK ==
    /\ now \in StartTime .. MaxTime
    /\ sub \in [Subs -> RowType]
    /\ rec \in [Requests -> [status : {"none", "consumed", "refunded"}, cnt : Nat, amt : Nat,
                            sub : Subs \cup {NoSub}, created : Nat, updated : Nat]]
    /\ req \in [Requests -> [pc : Ends \cup {"new", "clocked", "holding", "held", "settling", "refunding"},
                            sub : Subs \cup {NoSub}, pre : Nat, ws : Nat, we : Nat,
                            usage : Nat, heldAt : Nat, readAt : Nat, tries : Nat]]
    /\ want \in [Requests -> Wants]
    /\ tx \in [Requests -> TxType]
    /\ round \in [at : Nat, due : SUBSET [sub : Subs, next : Nat]]
    /\ job = NoTx \/ job \in [open : {TRUE}, rows : [Subs -> RowType], at : Nat, s : Subs,
                             clock : Nat]
    /\ faults \in 0 .. MaxFaults
    /\ paid \in [Requests -> [sub : Subs \cup {NoSub}, win : Nat, amt : Int, cnt : Nat]]
    /\ strayed \in [Subs -> SUBSET {"refund", "settle", "replay"}]

InWindow(s, r) == paid[r].sub = s /\ paid[r].win = sub[s].last
AmountOf(s) == SumFunction([r \in Requests |-> IF InWindow(s, r) THEN paid[r].amt ELSE 0])
CountOf(s)  == SumFunction([r \in Requests |-> IF InWindow(s, r) THEN paid[r].cnt ELSE 0])
LifetimeCountOf(s) ==
    SumFunction([r \in Requests |-> IF paid[r].sub = s THEN paid[r].cnt ELSE 0])

(* What a row records as used is exactly what the requests held in its
   current window were charged, however their transactions interleave, fail
   or are repeated, unless a refund came after the window had been reset, or
   the settle of a repeated hold that was answered for the wrong window. *)
UsageExact ==
    \A s \in Subs : strayed[s] = {} =>
        /\ Plan[s].amountTotal > 0 => sub[s].amt = AmountOf(s)
        /\ PeriodLimit(s) > 0 => CurrentCount(s, sub[s]) = CountOf(s)

(* Even after a late refund a window is never charged more than its own
   requests used (the user is not billed for the window before). The settle of
   a repeated hold that was answered for the wrong window is excepted. *)
NeverOvercounted ==
    \A s \in Subs : strayed[s] \subseteq {"refund"} =>
        /\ Plan[s].amountTotal > 0 => sub[s].amt <= AmountOf(s)
        /\ PeriodLimit(s) > 0 => CurrentCount(s, sub[s]) <= CountOf(s)

(* The lifetime counter of a request_count subscription survives every reset
   and counts the requests that were not refunded, early or late. *)
LifetimeExact ==
    \A s \in Subs : HasLifetimeLimit(s) => sub[s].cnt = LifetimeCountOf(s)

(* The requests of one window are never granted more than the window's
   amount or count, by holds and by settles that exceed their hold. The
   exceptions are those of UsageExact: a refund that came after its window had
   been reset lowers the usage of a window it was not in, and that window may
   then be oversold by as much. The lifetime count has no exception. *)
NotOversold ==
    \A s \in Subs :
        /\ Plan[s].amountTotal > 0 /\ strayed[s] = {} => AmountOf(s) <= Plan[s].amountTotal
        /\ PeriodLimit(s) > 0 /\ strayed[s] = {} => CountOf(s) <= PeriodLimit(s)
        /\ HasLifetimeLimit(s) => LifetimeCountOf(s) <= Plan[s].countTotal

(* TestPreConsumeDuplicateKeepsOriginalResetWindow: a request keeps the reset
   window of its pre-consume, so that its settle never reaches another one.
   The exception is a repeated hold that is answered from its record: the
   record is stamped when it is inserted, the window was chosen when the
   transaction began, and a window may end between the two. *)
SettleStaysInWindow == \A s \in Subs : "settle" \notin strayed[s]

(* The windows of a subscription start at StartTime, follow each other
   without gap or overlap and do not pass its end. *)
WindowsAligned ==
    \A s \in Subs : Plan[s].period > 0 /\ sub[s].last > 0 =>
        /\ (sub[s].last - StartTime) % Plan[s].period = 0
        /\ sub[s].last <= now /\ (Plan[s].end > 0 => sub[s].last <= Plan[s].end)
        /\ sub[s].next = NextReset(s, sub[s].last)

(* A pre-consume is charged to a window that is not over by its clock, and
   that had begun by then or, since the clock is read before the rows and a
   reset may come between the two, when the rows were read. *)
HoldInItsWindow ==
    \A r \in Requests : req[r].pc = "held" =>
        /\ req[r].ws <= req[r].heldAt \/ req[r].ws <= req[r].readAt
        /\ req[r].we > 0 => req[r].heldAt < req[r].we

(* A window that is over is reset, by the next request or by the task, unless
   the subscription expires first. *)
DueWindowReset == \A s \in Subs : Due(s) ~> ~ Due(s)
=============================================================================

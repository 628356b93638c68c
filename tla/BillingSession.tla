--------------------------- MODULE BillingSession ---------------------------
(***************************************************************************)
(* The billing of relayed requests: pre-consume, settle and refund of a    *)
(* BillingSession (service/billing_session.go) over its two funding        *)
(* sources (service/funding_source.go), driven by the controllers Relay    *)
(* and RelayTask (controller/relay.go) and by the detached image task      *)
(* (controller/image_task.go).                                             *)
(*                                                                         *)
(* Requests run concurrently on behalf of one user and one API token.      *)
(* Every call that reads or writes the database is a step of its own, so   *)
(* a quota that was checked may be gone when it is taken.                  *)
(*                                                                         *)
(* The balances users.quota, tokens.remain_quota, AmountUsed and           *)
(* RequestCountUsed are only ever changed by adding or subtracting, so the *)
(* model keeps, per request, the net amount it has taken from each of them *)
(* (debit) and derives the balances.                                       *)
(***************************************************************************)
EXTENDS Integers, FiniteSets, Functions

CONSTANTS
    Requests,        \* requests of one user, all made with one API token
    Profiles,        \* the requests that may arrive, a subset of Profile
    Usages,          \* the quota a served request may turn out to cost
    UserQuota0,      \* users.quota before the first request
    TokenQuota0,     \* tokens.remain_quota before the first request
    TokenUnlimited,  \* the token has no quota limit of its own
    TrustQuota,      \* common.GetTrustQuota(): above it nothing is pre-consumed
    SubResource,     \* "none", "quota" or "request_count": the subscription
    SubAmountTotal,  \* AmountTotal of the subscription, 0 = not limited by amount
    SubCountTotal,   \* RequestCountTotal, used by "request_count" only
    ViolationFee,    \* fee for a policy violation, 0 = disabled
    PeriodOutcomes,  \* what CheckTokenPeriodQuota may say: "exceeded" or not
    RetryTimes,      \* common.RetryTimes
    AutoGroups,      \* groups of an "auto" token, 1 = the token names its group
    CrossGroupRetry, \* the last retry in a group is followed by the next group
    MaxTurns,        \* bound: turns of one realtime connection
    MaxFaults,       \* bound: database calls that fail
    MaxCrashes       \* bound: crashes of the process

Preferences == {"subscription_only", "wallet_only", "wallet_first", "subscription_first"}
Handlers    == {"text", "realtime", "task", "image"}

Profile == [pref : Preferences, handler : Handlers, pre : Nat,
            playground : BOOLEAN, free : BOOLEAN, usePrice : BOOLEAN]

ASSUME ConstantsAssumption ==
    /\ IsFiniteSet(Requests)
    /\ Profiles \subseteq Profile
    /\ Usages \subseteq Nat
    /\ UserQuota0 \in Int /\ TokenQuota0 \in Int /\ TrustQuota \in Int
    /\ TokenUnlimited \in BOOLEAN
    /\ SubResource \in {"none", "quota", "request_count"}
    /\ SubAmountTotal \in Nat /\ SubCountTotal \in Nat
    /\ ViolationFee \in Nat
    /\ PeriodOutcomes \subseteq BOOLEAN /\ FALSE \in PeriodOutcomes
    /\ RetryTimes \in Nat /\ AutoGroups \in Nat \ {0} /\ CrossGroupRetry \in BOOLEAN
    /\ MaxTurns \in Nat
    /\ MaxFaults \in Nat /\ MaxCrashes \in Nat

VARIABLES
    pc,       \* control point of the request's goroutine
    prof,     \* what the request is
    sess,     \* its BillingSession together with the funding source in it
    row,      \* its SubscriptionPreConsumeRecord in the database
    debit,    \* what it has taken, net, from each balance in the database
    bg,       \* control point of the goroutine Refund starts
    loc,      \* local variables of the goroutine
    faulted,  \* history: requests one of whose database calls failed
    faults,   \* number of failed calls so far
    crashes   \* number of crashes so far

vars == <<pc, prof, sess, row, debit, bg, loc, faulted, faults, crashes>>

Finals == {"ok", "settle_error", "failed", "rejected", "lost"}

Points == Finals \cup
    {"start", "wallet", "wallet_hold", "sub_hold", "period", "token", "token_hold",
     "rollback", "refused", "serve", "settle", "settle_token", "zero_refund",
     "zero_token", "fail", "post_funding", "post_token"}

NoSession ==
    [source |-> "none", pre |-> 0, tok |-> 0, consumed |-> 0, subAmt |-> 0, subCnt |-> 0,
     fundingSettled |-> FALSE, settled |-> FALSE, refunded |-> FALSE]

NoRow == [status |-> "none", amt |-> 0, cnt |-> 0]

Init ==
    /\ prof \in [Requests -> Profiles]
    /\ pc = [r \in Requests |-> "start"]
    /\ sess = [r \in Requests |-> NoSession]
    /\ row = [r \in Requests |-> NoRow]
    /\ debit = [r \in Requests |-> [wallet |-> 0, token |-> 0, amt |-> 0, cnt |-> 0]]
    /\ bg = [r \in Requests |-> "idle"]
    /\ loc = [r \in Requests |-> [eff |-> 0, tokenTrusted |-> FALSE, usage |-> 0, retry |-> 0,
                                  group |-> 1, tries |-> 0, turns |-> 0, fee |-> FALSE,
                                  post |-> 0, next |-> "ok"]]
    /\ faulted = [r \in Requests |-> FALSE]
    /\ faults = 0
    /\ crashes = 0

-----------------------------------------------------------------------------
(* Balances in the database *)

UserQuota   == UserQuota0  - SumFunction([r \in Requests |-> debit[r].wallet])
RemainQuota == TokenQuota0 - SumFunction([r \in Requests |-> debit[r].token])
AmountUsed  == SumFunction([r \in Requests |-> debit[r].amt])
CountUsed   == SumFunction([r \in Requests |-> debit[r].cnt])

(* A database call succeeds, fails without effect, or reports an error
   although it was applied (the connection broke after the commit). *)
Outcomes == {"ok", "lost", "applied"}
Applied(o) == o # "lost"

Call(r, o) ==
    \/ o = "ok" /\ UNCHANGED <<faults, faulted>>
    \/ /\ o # "ok" /\ faults < MaxFaults
       /\ faults' = faults + 1
       /\ faulted' = [faulted EXCEPT ![r] = TRUE]

Goto(r, point) == pc' = [pc EXCEPT ![r] = point]

(* quota - delta in the account named by the field *)
TakeWallet(r, n) == debit' = [debit EXCEPT ![r].wallet = @ + n]
TakeToken(r, n)  == debit' = [debit EXCEPT ![r].token = @ + n]
TakeAmount(r, n) == debit' = [debit EXCEPT ![r].amt = @ + n]

AddHold(d, amt, cnt) == [d EXCEPT !.amt = @ + amt, !.cnt = @ + cnt]
TakeHold(r, amt, cnt) == debit' = [debit EXCEPT ![r] = AddHold(@, amt, cnt)]

-----------------------------------------------------------------------------
(* The session's own predicates *)

UseTokenQuota(r) ==
    sess[r].source = "wallet" \/ (sess[r].source = "subscription" /\ SubAmountTotal > 0)

(* mutant: charges the whole cost on top of what was pre-consumed *)
SettleDeltaIgnoringPre(r, actual) ==
    IF sess[r].source = "subscription" /\ SubAmountTotal = 0 THEN 0 ELSE actual

SettleDelta(r, actual) ==
    IF sess[r].source = "subscription" /\ SubAmountTotal = 0 THEN 0
    ELSE actual - sess[r].pre

NeedsRefund(r) ==
    /\ sess[r].source # "none"
    /\ ~ sess[r].settled /\ ~ sess[r].refunded /\ ~ sess[r].fundingSettled
    /\ sess[r].tok > 0 \/ sess[r].subAmt > 0 \/ sess[r].subCnt > 0

ShouldTrust(r) ==
    /\ prof[r].handler # "task"
    /\ TrustQuota > 0
    /\ loc[r].tokenTrusted
    /\ UserQuota > TrustQuota

-----------------------------------------------------------------------------
(* Pre-consume: NewBillingSession, preConsume and their failure paths *)

SubUsable ==
    \/ SubResource = "quota" /\ (SubAmountTotal = 0 \/ AmountUsed < SubAmountTotal)
    \/ SubResource = "request_count" /\ (SubCountTotal = 0 \/ CountUsed < SubCountTotal)

(* Refuse the request: no session is kept, relayInfo.Billing stays nil. *)
Refuse(r) == Goto(r, "refused") /\ sess' = [sess EXCEPT ![r] = NoSession]

(* The choice of the first funding source; a free model is not pre-consumed.
   A failing subscription query refuses the request. *)
PreConsumeBilling(r) ==
    /\ pc[r] = "start"
    /\ loc' = [loc EXCEPT ![r].tokenTrusted =
                 IF TokenUnlimited \/ RemainQuota > TrustQuota THEN TRUE ELSE FALSE]
    /\ \E o \in {"ok", "lost"} :
         /\ Call(r, o)
         /\ \/ o = "ok" /\ prof[r].free /\ Goto(r, "serve")
            \/ /\ o = "ok" /\ ~ prof[r].free /\ prof[r].pref = "subscription_only"
               /\ Goto(r, "sub_hold")
            \/ /\ o = "ok" /\ ~ prof[r].free /\ prof[r].pref \in {"wallet_only", "wallet_first"}
               /\ Goto(r, "wallet")
            \/ /\ ~ prof[r].free /\ prof[r].pref = "subscription_first"
               /\ Goto(r, IF o = "lost" THEN "refused"
                          ELSE IF SubUsable THEN "sub_hold" ELSE "wallet")
    /\ UNCHANGED <<prof, sess, row, debit, bg, crashes>>

(* tryWallet: read the quota, check it, decide whether to trust the user. *)
TryWallet(r) ==
    /\ pc[r] = "wallet"
    /\ \E o \in {"ok", "lost"} :
         /\ Call(r, o)
         /\ LET short == UserQuota <= 0 \/ UserQuota < prof[r].pre IN
            \/ o = "lost" /\ Goto(r, "refused") /\ UNCHANGED loc
            \/ /\ o = "ok" /\ short
               /\ Goto(r, IF prof[r].pref = "wallet_first" THEN "sub_hold" ELSE "refused")
               /\ UNCHANGED loc
            \/ /\ o = "ok" /\ ~ short
               /\ Goto(r, "wallet_hold")
               /\ loc' = [loc EXCEPT ![r].eff = IF ShouldTrust(r) THEN 0 ELSE prof[r].pre]
    /\ UNCHANGED <<prof, sess, row, debit, bg, crashes>>

(* WalletFunding.PreConsume: an unconditional quota - amount. *)
WalletPreConsume(r) ==
    /\ pc[r] = "wallet_hold"
    /\ \E o \in Outcomes :
         /\ loc[r].eff = 0 => o = "ok"
         /\ Call(r, o)
         /\ TakeWallet(r, IF Applied(o) THEN loc[r].eff ELSE 0)
         /\ \/ /\ o = "ok" /\ Goto(r, "period")
               /\ sess' = [sess EXCEPT ![r] =
                            [@ EXCEPT !.source = "wallet", !.pre = loc[r].eff,
                                      !.consumed = loc[r].eff]]
            \/ o # "ok" /\ Refuse(r)
    /\ UNCHANGED <<prof, row, bg, loc, crashes>>

(* SubscriptionFunding.PreConsume is one transaction, which the record of the
   request id makes idempotent. Transactions that touch the same rows either
   take effect one after the other or fail ("lost"), as SQLite has it. *)
SubAmount(r) == IF prof[r].pre <= 0 THEN 1 ELSE prof[r].pre
RequiredAmount(r) == IF SubAmountTotal > 0 THEN SubAmount(r) ELSE 0
RequiredCount == IF SubResource = "request_count" /\ SubCountTotal > 0 THEN 1 ELSE 0

SubEligible(r) ==
    /\ SubResource # "none"
    /\ SubAmountTotal > 0 => AmountUsed + RequiredAmount(r) <= SubAmountTotal
    /\ RequiredCount = 1 => CountUsed + 1 <= SubCountTotal

(* The amount is reported as pre-consumed, or the count when there is none. *)
Primary(amt, cnt) == IF amt > 0 THEN amt ELSE cnt

SubSession(r, amt, cnt) ==
    sess' = [sess EXCEPT ![r] =
               [@ EXCEPT !.source = "subscription", !.subAmt = Primary(amt, cnt), !.subCnt = cnt,
                         !.pre = IF Primary(amt, cnt) > 0 THEN Primary(amt, cnt) ELSE SubAmount(r)]]

SubPreConsume(r) ==
    /\ pc[r] = "sub_hold"
    /\ loc' = [loc EXCEPT ![r].eff = SubAmount(r)]
    /\ \E o \in Outcomes :
         /\ Call(r, o)
         /\ \/ /\ o # "ok" /\ ~ (o = "applied" /\ row[r].status = "none" /\ SubEligible(r))
               /\ Refuse(r) /\ UNCHANGED <<row, debit>>
            \/ /\ o = "ok" /\ row[r].status = "refunded"
               /\ Refuse(r) /\ UNCHANGED <<row, debit>>
            \/ /\ o = "ok" /\ row[r].status = "consumed"
               /\ SubSession(r, row[r].amt, row[r].cnt)
               /\ Goto(r, "period") /\ UNCHANGED <<row, debit>>
            \/ /\ o = "ok" /\ row[r].status = "none" /\ ~ SubEligible(r)
               /\ IF prof[r].pref = "subscription_first"
                    THEN Goto(r, "wallet") /\ UNCHANGED sess
                    ELSE Refuse(r)
               /\ UNCHANGED <<row, debit>>
            \/ /\ Applied(o) /\ row[r].status = "none" /\ SubEligible(r)
               /\ row' = [row EXCEPT ![r] = [status |-> "consumed", amt |-> RequiredAmount(r),
                                             cnt |-> RequiredCount]]
               /\ TakeHold(r, RequiredAmount(r), RequiredCount)
               /\ IF o = "ok"
                    THEN SubSession(r, RequiredAmount(r), RequiredCount) /\ Goto(r, "period")
                    ELSE Refuse(r)
    /\ UNCHANGED <<prof, bg, crashes>>

(* mutant: refuses the request without returning the funding it took *)
PeriodCheckNoRollback(r) ==
    /\ pc[r] = "period"
    /\ \E exceeded \in PeriodOutcomes :
         Goto(r, IF UseTokenQuota(r) /\ exceeded THEN "refused"
                 ELSE IF UseTokenQuota(r) /\ loc[r].eff > 0 THEN "token" ELSE "serve")
    /\ UNCHANGED <<prof, sess, row, debit, bg, loc, faulted, faults, crashes>>

(* The period limit of the token is checked even for a trusted user. *)
PeriodCheck(r) ==
    /\ pc[r] = "period"
    /\ \E exceeded \in PeriodOutcomes :
         Goto(r, IF UseTokenQuota(r) /\ exceeded THEN "rollback"
                 ELSE IF UseTokenQuota(r) /\ loc[r].eff > 0 THEN "token" ELSE "serve")
    /\ loc' = [loc EXCEPT ![r].tries = 0]
    /\ UNCHANGED <<prof, sess, row, debit, bg, faulted, faults, crashes>>

(* PreConsumeTokenQuota up to the decrement: read the token and check it. *)
TokenCheck(r) ==
    /\ pc[r] = "token"
    /\ \E o \in {"ok", "lost"}, exceeded \in PeriodOutcomes :
         /\ prof[r].playground => o = "ok"
         /\ Call(r, o)
         /\ IF prof[r].playground
              THEN Goto(r, "serve") /\ sess' = [sess EXCEPT ![r].tok = loc[r].eff]
              ELSE /\ Goto(r, IF \/ o = "lost" \/ exceeded
                                 \/ ~ TokenUnlimited /\ RemainQuota < loc[r].eff
                              THEN "rollback" ELSE "token_hold")
                   /\ UNCHANGED sess
    /\ UNCHANGED <<prof, row, debit, bg, loc, crashes>>

(* DecreaseTokenQuota *)
TokenPreConsume(r) ==
    /\ pc[r] = "token_hold"
    /\ \E o \in Outcomes :
         /\ Call(r, o)
         /\ TakeToken(r, IF Applied(o) THEN loc[r].eff ELSE 0)
         /\ IF o = "ok" THEN Goto(r, "serve") /\ sess' = [sess EXCEPT ![r].tok = loc[r].eff]
            ELSE Goto(r, "rollback") /\ UNCHANGED sess
    /\ UNCHANGED <<prof, row, bg, loc, crashes>>

(* One attempt of funding.Refund(). The wallet adds back what it took; the
   subscription refund is a transaction that the status of the record makes
   idempotent, and is attempted up to three times (refundWithRetry). *)
MaxAttempts == 3

HoldsFunding(r) ==
    IF sess[r].source = "wallet" THEN sess[r].consumed > 0
    ELSE sess[r].subAmt > 0 \/ sess[r].subCnt > 0

(* mutant: gives the amount back and keeps the request that was counted *)
RefundFundingAmountOnly(r, o) ==
    /\ HoldsFunding(r) \/ o = "ok"
    /\ Call(r, o)
    /\ IF HoldsFunding(r) /\ Applied(o) /\ sess[r].source = "wallet"
         THEN TakeWallet(r, - sess[r].consumed) /\ UNCHANGED row
       ELSE IF HoldsFunding(r) /\ Applied(o) /\ row[r].status = "consumed"
         THEN TakeAmount(r, - row[r].amt) /\ row' = [row EXCEPT ![r].status = "refunded"]
       ELSE UNCHANGED <<row, debit>>

RefundFunding(r, o) ==
    /\ HoldsFunding(r) \/ o = "ok"
    /\ Call(r, o)
    /\ IF HoldsFunding(r) /\ Applied(o) /\ sess[r].source = "wallet"
         THEN TakeWallet(r, - sess[r].consumed) /\ UNCHANGED row
       ELSE IF HoldsFunding(r) /\ Applied(o) /\ row[r].status = "consumed"
         THEN /\ TakeHold(r, - row[r].amt, - row[r].cnt)
              /\ row' = [row EXCEPT ![r].status = "refunded"]
       ELSE UNCHANGED <<row, debit>>

(* mutant: the refund of the wallet is retried too *)
TriesAgainAnySource(r, o) == o # "ok" /\ loc[r].tries < MaxAttempts - 1

TriesAgain(r, o) ==
    sess[r].source = "subscription" /\ o # "ok" /\ loc[r].tries < MaxAttempts - 1

CountTry(r) == loc' = [loc EXCEPT ![r].tries = @ + 1]

(* A failed pre-consume returns the funding already taken; an error of this
   rollback is only logged. *)
RollBack(r) ==
    /\ pc[r] = "rollback"
    /\ \E o \in Outcomes :
         /\ RefundFunding(r, o)
         /\ IF TriesAgain(r, o) THEN CountTry(r) /\ UNCHANGED <<pc, sess>>
            ELSE Refuse(r) /\ UNCHANGED loc
    /\ UNCHANGED <<prof, bg, crashes>>

(* mutant: one upstream attempt too many *)
RetriesLeftOffByOne(r) == loc[r].retry <= RetryTimes

RetriesLeft(r) == loc[r].retry < RetryTimes

(* The next attempt stays in its group, or starts over in a later one, which has
   retries of its own: when no channel is left for the priority, or after the
   last retry of a group (SetRetry, ResetRetryNextTry). *)
TryNext(r) ==
    \/ /\ RetriesLeft(r)
       /\ loc' = [loc EXCEPT ![r].retry = @ + 1]
    \/ /\ RetriesLeft(r) \/ (CrossGroupRetry /\ RetryTimes > 0)
       /\ \E g \in loc[r].group + 1 .. AutoGroups :
            loc' = [loc EXCEPT ![r] = [@ EXCEPT !.retry = 0, !.group = g]]

(* Relay answers with the error. RelayTask treats a refused pre-consume as
   any failed attempt and may submit, and so pre-consume, again. *)
Refused(r) ==
    /\ pc[r] = "refused"
    /\ \/ Goto(r, "rejected") /\ UNCHANGED loc
       \/ prof[r].handler = "task" /\ TryNext(r) /\ Goto(r, "start")
    /\ UNCHANGED <<prof, sess, row, debit, bg, faulted, faults, crashes>>

-----------------------------------------------------------------------------
(* The upstream attempts *)

RetryUpstream(r) ==
    /\ pc[r] = "serve" /\ prof[r].handler # "image" /\ loc[r].turns = 0
    /\ TryNext(r)
    /\ UNCHANGED <<pc, prof, sess, row, debit, bg, faulted, faults, crashes>>

UpstreamFails(r) ==
    /\ pc[r] = "serve" /\ loc[r].turns = 0
    /\ \E fee \in BOOLEAN :
         /\ fee => prof[r].handler \in {"text", "realtime"} /\ ViolationFee > 0
         /\ loc' = [loc EXCEPT ![r] = [@ EXCEPT !.fee = fee, !.tries = 0]]
    /\ Goto(r, "fail")
    /\ UNCHANGED <<prof, sess, row, debit, bg, faulted, faults, crashes>>

(* The response is complete and its cost is known; SettleBilling follows.
   Without a session it charges the difference through PostConsumeQuota. *)
UpstreamSucceeds(r) ==
    /\ pc[r] = "serve" /\ prof[r].handler # "realtime"
    /\ \E u \in Usages :
         IF sess[r].source = "none"
           THEN /\ loc' = [loc EXCEPT ![r] = [@ EXCEPT !.usage = u, !.post = u, !.next = "ok"]]
                /\ Goto(r, IF u = 0 THEN "ok" ELSE "post_funding")
           ELSE /\ loc' = [loc EXCEPT ![r] = [@ EXCEPT !.usage = u, !.tries = 0]]
                /\ Goto(r, IF /\ sess[r].source = "subscription"
                              /\ SubResource = "request_count" /\ u <= 0
                           THEN "zero_refund" ELSE "settle")
    /\ UNCHANGED <<prof, sess, row, debit, bg, faulted, faults, crashes>>

CountTurn(l, u) ==
    [l EXCEPT !.turns = @ + 1, !.usage = @ + u, !.post = u, !.next = "serve"]

(* PreWssConsumeQuota: a realtime turn is checked against the wallet and the
   token, then charged at once; an error ends the connection. Turns of a model
   with a price per call are free. *)
Turn(r) ==
    /\ pc[r] = "serve" /\ prof[r].handler = "realtime" /\ loc[r].turns < MaxTurns
    /\ \/ /\ prof[r].usePrice
          /\ loc' = [loc EXCEPT ![r].turns = @ + 1]
          /\ UNCHANGED <<pc, faulted, faults>>
       \/ \E u \in Usages, o \in {"ok", "lost"} :
            /\ ~ prof[r].usePrice /\ Call(r, o)
            /\ IF o = "lost" \/ UserQuota < u \/ (~ TokenUnlimited /\ RemainQuota < u)
                 THEN Goto(r, "ok") /\ loc' = [loc EXCEPT ![r].turns = @ + 1]
                 ELSE loc' = [loc EXCEPT ![r] = CountTurn(@, u)] /\ Goto(r, "post_funding")
    /\ UNCHANGED <<prof, sess, row, debit, bg, crashes>>

(* PostWssConsumeQuota writes statistics and a log, and settles nothing. *)
EndRealtime(r) ==
    /\ pc[r] = "serve" /\ prof[r].handler = "realtime"
    /\ Goto(r, "ok")
    /\ UNCHANGED <<prof, sess, row, debit, bg, loc, faulted, faults, crashes>>

-----------------------------------------------------------------------------
(* PostConsumeQuota: charge the funding source, then the token *)

AfterError(next) ==
    IF next = "ok" THEN "settle_error" ELSE IF next = "serve" THEN "ok" ELSE "failed"

(* Move n from the funding source of the session to the debits of r. A
   subscription refuses an amount that does not fit (full). *)
SubFull(r, n) ==
    /\ sess[r].source = "subscription" /\ n # 0
    /\ SubAmountTotal > 0 /\ AmountUsed + n > SubAmountTotal

TakeFunding(r, n, o) ==
    IF SubFull(r, n) \/ ~ Applied(o) THEN UNCHANGED debit
    ELSE IF sess[r].source = "subscription" THEN TakeAmount(r, n) ELSE TakeWallet(r, n)

PostFunding(r) ==
    /\ pc[r] = "post_funding"
    /\ \E o \in Outcomes :
         /\ Call(r, o)
         /\ TakeFunding(r, loc[r].post, o)
         /\ Goto(r, IF SubFull(r, loc[r].post) \/ o # "ok" THEN AfterError(loc[r].next)
                    ELSE "post_token")
    /\ UNCHANGED <<prof, sess, row, bg, loc, crashes>>

PostToken(r) ==
    /\ pc[r] = "post_token"
    /\ \E o \in Outcomes :
         /\ Call(r, o)
         /\ IF (sess[r].source # "subscription" \/ SubAmountTotal > 0) /\ ~ prof[r].playground
              THEN /\ TakeToken(r, IF Applied(o) THEN loc[r].post ELSE 0)
                   /\ Goto(r, IF o = "ok" THEN loc[r].next ELSE AfterError(loc[r].next))
              ELSE o = "ok" /\ UNCHANGED debit /\ Goto(r, loc[r].next)
    /\ UNCHANGED <<prof, sess, row, bg, loc, crashes>>

-----------------------------------------------------------------------------
(* Settle: first the funding source, then the token *)

(* mutant: reports the session settled before the token is adjusted *)
CommitFundingAndToken(r) ==
    sess' = [sess EXCEPT ![r] = [@ EXCEPT !.fundingSettled = TRUE, !.settled = TRUE]]

CommitFunding(r) == sess' = [sess EXCEPT ![r].fundingSettled = TRUE]

SettleFunding(r) ==
    /\ pc[r] = "settle"
    /\ \E o \in Outcomes :
         LET delta == SettleDelta(r, loc[r].usage) IN
         /\ delta = 0 => o = "ok"
         /\ Call(r, o)
         /\ TakeFunding(r, delta, o)
         /\ IF SubFull(r, delta) \/ o # "ok" THEN Goto(r, "settle_error") /\ UNCHANGED sess
            ELSE Goto(r, "settle_token") /\ CommitFunding(r)
    /\ UNCHANGED <<prof, row, bg, loc, crashes>>

(* The session counts as settled even if the token could not be adjusted. *)
SettleToken(r) ==
    /\ pc[r] = "settle_token"
    /\ \E o \in Outcomes :
         /\ Call(r, o)
         /\ IF UseTokenQuota(r) /\ ~ prof[r].playground /\ loc[r].usage # sess[r].tok
              THEN TakeToken(r, IF Applied(o) THEN loc[r].usage - sess[r].tok ELSE 0)
              ELSE o = "ok" /\ UNCHANGED debit
    /\ sess' = [sess EXCEPT ![r].settled = TRUE]
    /\ Goto(r, "ok")
    /\ UNCHANGED <<prof, row, bg, loc, crashes>>

(* A request_count subscription gives back a request that cost nothing. *)
ZeroUsageRefund(r) ==
    /\ pc[r] = "zero_refund"
    /\ \E o \in Outcomes :
         /\ RefundFunding(r, o)
         /\ IF TriesAgain(r, o) THEN CountTry(r) /\ UNCHANGED pc
            ELSE Goto(r, IF o = "ok" THEN "zero_token" ELSE "settle_error") /\ UNCHANGED loc
    /\ UNCHANGED <<prof, sess, bg, crashes>>

ZeroUsageToken(r) ==
    /\ pc[r] = "zero_token"
    /\ \E o \in Outcomes :
         /\ Call(r, o)
         /\ IF UseTokenQuota(r) /\ ~ prof[r].playground /\ sess[r].tok > 0
              THEN TakeToken(r, IF Applied(o) THEN - sess[r].tok ELSE 0)
              ELSE o = "ok" /\ UNCHANGED debit
         /\ IF o # "ok" THEN Goto(r, "settle_error") /\ UNCHANGED sess
            ELSE /\ Goto(r, "ok")
                 /\ sess' = [sess EXCEPT ![r] = [@ EXCEPT !.pre = 0, !.tok = 0,
                                         !.fundingSettled = TRUE, !.settled = TRUE]]
    /\ UNCHANGED <<prof, row, bg, loc, crashes>>

-----------------------------------------------------------------------------
(* Refund: marks the session and leaves the work to a goroutine, which runs
   concurrently with the violation fee the controller charges next. *)

Refund(r) ==
    /\ pc[r] = "fail"
    /\ IF NeedsRefund(r)
         THEN sess' = [sess EXCEPT ![r].refunded = TRUE] /\ bg' = [bg EXCEPT ![r] = "funding"]
         ELSE UNCHANGED <<sess, bg>>
    /\ IF loc[r].fee
         THEN /\ loc' = [loc EXCEPT ![r] = [@ EXCEPT !.post = ViolationFee, !.next = "failed"]]
              /\ Goto(r, "post_funding")
         ELSE UNCHANGED loc /\ Goto(r, "failed")
    /\ UNCHANGED <<prof, row, debit, faulted, faults, crashes>>

BgRefundFunding(r) ==
    /\ bg[r] = "funding"
    /\ \E o \in Outcomes :
         /\ RefundFunding(r, o)
         /\ IF TriesAgain(r, o) THEN CountTry(r) /\ UNCHANGED bg
            ELSE bg' = [bg EXCEPT ![r] = "token"] /\ UNCHANGED loc
    /\ UNCHANGED <<pc, prof, sess, crashes>>

BgRefundToken(r) ==
    /\ bg[r] = "token"
    /\ \E o \in Outcomes :
         /\ Call(r, o)
         /\ IF sess[r].tok > 0 /\ ~ prof[r].playground
              THEN TakeToken(r, IF Applied(o) THEN - sess[r].tok ELSE 0)
              ELSE o = "ok" /\ UNCHANGED debit
    /\ bg' = [bg EXCEPT ![r] = "done"]
    /\ UNCHANGED <<pc, prof, sess, row, loc, crashes>>

-----------------------------------------------------------------------------
(* The first attempt has not begun. *)
NotArrived(r) == pc[r] = "start" /\ loc[r].retry = 0 /\ loc[r].group = 1

(* The process dies: goroutines and sessions are gone, the database stays.
   Requests that have not started arrive after the restart. *)
Crash ==
    /\ crashes < MaxCrashes
    /\ crashes' = crashes + 1
    /\ pc' = [r \in Requests |-> IF pc[r] \in Finals \/ NotArrived(r) THEN pc[r] ELSE "lost"]
    /\ bg' = [r \in Requests |-> IF bg[r] \in {"funding", "token"} THEN "lost" ELSE bg[r]]
    /\ UNCHANGED <<prof, sess, row, debit, loc, faulted, faults>>

RequestStep(r) ==
    \/ PreConsumeBilling(r) \/ TryWallet(r) \/ WalletPreConsume(r) \/ SubPreConsume(r)
    \/ PeriodCheck(r) \/ TokenCheck(r) \/ TokenPreConsume(r) \/ RollBack(r) \/ Refused(r)
    \/ RetryUpstream(r) \/ UpstreamFails(r) \/ UpstreamSucceeds(r) \/ Turn(r) \/ EndRealtime(r)
    \/ PostFunding(r) \/ PostToken(r)
    \/ SettleFunding(r) \/ SettleToken(r) \/ ZeroUsageRefund(r) \/ ZeroUsageToken(r) \/ Refund(r)

RefundStep(r) == BgRefundFunding(r) \/ BgRefundToken(r)

Quiescent == \A r \in Requests : pc[r] \in Finals /\ bg[r] \in {"idle", "done", "lost"}

Next ==
    \/ \E r \in Requests : RequestStep(r) \/ RefundStep(r)
    \/ Crash
    \/ Quiescent /\ UNCHANGED vars

(* Goroutines are scheduled, and every upstream attempt ends: the relay
   clients and the stream scanner run under timeouts. *)
Fairness == \A r \in Requests : WF_vars(RequestStep(r)) /\ WF_vars(RefundStep(r))

Spec == Init /\ [][Next]_vars /\ Fairness

-----------------------------------------------------------------------------
(* Properties *)

SessionType ==
    [source : {"none", "wallet", "subscription"}, pre : Nat, tok : Nat, consumed : Nat,
     subAmt : Nat, subCnt : Nat, fundingSettled : BOOLEAN, settled : BOOLEAN, refunded : BOOLEAN]

LocalType ==
    [eff : Nat, tokenTrusted : BOOLEAN, usage : Nat, retry : 0 .. RetryTimes,
     group : 1 .. AutoGroups, tries : 0 .. MaxAttempts - 1, turns : Nat, fee : BOOLEAN, post : Nat,
     next : {"ok", "serve", "failed"}]

RowType == [status : {"none", "consumed", "refunded"}, amt : Nat, cnt : Nat]

DebitType == [wallet : Int, token : Int, amt : Int, cnt : Int]

(* Type invariant: the fields of every session, record and goroutine keep
   their ranges; in particular no request is retried more than RetryTimes
   times in one group of its token, and no refund is attempted more than three
   times (refundWithRetry). *)
TypeOK ==
    /\ pc \in [Requests -> Points]
    /\ prof \in [Requests -> Profiles]
    /\ sess \in [Requests -> SessionType]
    /\ row \in [Requests -> RowType]
    /\ debit \in [Requests -> DebitType]
    /\ bg \in [Requests -> {"idle", "funding", "token", "done", "lost"}]
    /\ loc \in [Requests -> LocalType]
    /\ faulted \in [Requests -> BOOLEAN]
    /\ faults \in 0 .. MaxFaults
    /\ crashes \in 0 .. MaxCrashes

(* No request ever gives back more than it took, from any balance and at any
   moment: whatever database calls fail, are applied although they reported
   an error, or are cut off by a crash, no sequence of settle, rollback,
   refund and retry creates quota (the reason WalletFunding.Refund is never
   retried and the subscription refund is keyed by the request id). *)
NoQuotaMinted ==
    \A r \in Requests : /\ debit[r].wallet >= 0 /\ debit[r].token >= 0
                        /\ debit[r].amt >= 0 /\ debit[r].cnt >= 0

Finished(r) == pc[r] \in Finals \ {"lost"} /\ bg[r] \in {"idle", "done"} /\ ~ faulted[r]

Nothing == [wallet |-> 0, token |-> 0, amt |-> 0, cnt |-> 0]

TokenCharged(r) ==
    ~ prof[r].playground /\ (sess[r].source = "subscription" => SubAmountTotal > 0)

(* A request that was refused or failed ends up costing nothing on either
   funding source and on the token, apart from the violation fee, which is
   charged to the source of the failed session (on a subscription only as
   far as the amount allows). *)
FailedRequestRestored ==
    \A r \in Requests : Finished(r) =>
        /\ pc[r] = "rejected" => debit[r] = Nothing
        /\ pc[r] = "failed" /\ ~ loc[r].fee => debit[r] = Nothing
        /\ pc[r] = "failed" /\ loc[r].fee /\ sess[r].source # "subscription" =>
             debit[r] = [Nothing EXCEPT !.wallet = ViolationFee,
                                        !.token = IF TokenCharged(r) THEN ViolationFee ELSE 0]
        /\ pc[r] = "failed" /\ loc[r].fee /\ sess[r].source = "subscription" =>
             debit[r] \in {Nothing, [Nothing EXCEPT !.amt = ViolationFee,
                                        !.token = IF TokenCharged(r) THEN ViolationFee ELSE 0]}

(* A served request costs exactly its metered usage, once, on exactly one
   funding source, and the token is charged the same amount whenever the
   source counts against it. A request_count subscription keeps the one
   request it took unless the usage was zero. *)
SuccessChargedOnce ==
    \A r \in Requests : Finished(r) /\ pc[r] = "ok" /\ prof[r].handler # "realtime" =>
        LET u == loc[r].usage
            sub == sess[r].source = "subscription" IN
        debit[r] = [wallet |-> IF sub THEN 0 ELSE u,
                    token  |-> IF TokenCharged(r) THEN u ELSE 0,
                    amt    |-> IF sub /\ SubAmountTotal > 0 THEN u ELSE 0,
                    cnt    |-> IF sub /\ u > 0 THEN RequiredCount ELSE 0]

(* Once Settle has reported a session settled, nothing it took is moved
   again: no late refund, rollback or second settle. *)
SettledIsFinal ==
    [][\A r \in Requests : sess[r].settled =>
         /\ sess'[r].settled
         /\ debit'[r] = debit[r] /\ row'[r] = row[r]]_vars

(* Although Refund only starts a goroutine, a failed request eventually gets
   everything back, unless a database call of it failed or the process died. *)
FailedRequestMadeWhole ==
    \A r \in Requests :
        (pc[r] = "fail" /\ ~ loc[r].fee) ~>
            (debit[r] = Nothing \/ faulted[r] \/ pc[r] = "lost" \/ bg[r] = "lost")
=============================================================================

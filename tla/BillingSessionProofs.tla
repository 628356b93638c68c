------------------------ MODULE BillingSessionProofs ------------------------
(***************************************************************************)
(* Proofs about BillingSession, for any number of requests, any limits and *)
(* any bounds: type correctness; no interleaving of sessions, failed       *)
(* calls, retries and crashes creates quota (NoQuotaMinted); a failed      *)
(* request gives everything back and a served one is charged what it used  *)
(* (FailedRequestRestored, SuccessChargedOnce); what was settled stays     *)
(* settled (SettledIsFinal).                                               *)
(*                                                                         *)
(* A step of the system is a step of one request, so the inductive         *)
(* invariants are predicates of one request's values: Inv1, and for the    *)
(* exact accounting Exact1. Every action is shown to lead from values that *)
(* satisfy them to values that do.                                         *)
(***************************************************************************)
EXTENDS BillingSession, TLAPS

BgPoints == {"idle", "funding", "token", "done", "lost"}

(* Control points before a session exists, and those where the funding a
   session took has not been settled. *)
NoSessionPoints == {"start", "wallet", "wallet_hold", "sub_hold", "refused"}
HoldPoints == {"period", "token", "token_hold", "rollback", "serve", "settle", "zero_refund",
               "fail", "post_funding", "post_token"}

(* The values of one request: control point p, profile f, session s, record
   w, debits d, refund goroutine b, local variables l. *)
Type1(p, f, s, w, d, b, l) ==
    /\ p \in Points /\ f \in Profiles /\ s \in SessionType /\ w \in RowType
    /\ d \in DebitType /\ b \in BgPoints /\ l \in LocalType

(* No balance was given more than was taken. *)
Minted1(d) == d.wallet >= 0 /\ d.token >= 0 /\ d.amt >= 0 /\ d.cnt >= 0

(* Refund's goroutine runs only after the request has failed. *)
BgAfterFailure(p, b, l) ==
    b # "idle" => \/ p \in {"failed", "lost"}
                  \/ p \in {"post_funding", "post_token"} /\ l.next = "failed"

(* What a session believes it holds agrees with the funding source. *)
Consistent(p, s, w, l) ==
    /\ p \in NoSessionPoints => s = NoSession
    /\ w.status = "consumed" /\ SubAmountTotal > 0 => w.amt > 0
    /\ p \in HoldPoints /\ s.source = "wallet" => s.pre = s.consumed
    /\ p \in HoldPoints /\ s.source = "subscription" /\ SubAmountTotal > 0 => s.pre = w.amt
    /\ p = "settle" => s.source # "none"
    /\ s.source = "subscription"
         /\ \/ p \in {"period", "token", "token_hold", "serve", "settle"}
            \/ p \in {"post_funding", "post_token"} /\ l.next = "serve"
         => w.status = "consumed"

(* A hold that may still be returned is still taken from its balance. *)
WalletHeld(p, s, d, b) ==
    s.source = "wallet" /\ (b = "funding" \/ (b = "idle" /\ p \in HoldPoints))
        => d.wallet >= s.consumed

SubscriptionHeld(p, w, d, b) ==
    w.status = "consumed" /\ (b = "funding" \/ (b = "idle" /\ p \in HoldPoints \cup NoSessionPoints))
        => d.amt >= w.amt /\ d.cnt >= w.cnt

TokenHeld(p, f, s, d, b) ==
    /\ ~ f.playground
    /\ \/ b \in {"funding", "token"}
       \/ b = "idle" /\ p \in HoldPoints \cup {"settle_token", "zero_token"}
    => d.token >= s.tok

Safe1(p, f, s, w, d, b, l) ==
    /\ Minted1(d)
    /\ BgAfterFailure(p, b, l)
    /\ Consistent(p, s, w, l)
    /\ WalletHeld(p, s, d, b)
    /\ SubscriptionHeld(p, w, d, b)
    /\ TokenHeld(p, f, s, d, b)

Inv1(p, f, s, w, d, b, l) == Type1(p, f, s, w, d, b, l) /\ Safe1(p, f, s, w, d, b, l)

(* The inductive invariant *)
IInv ==
    /\ TypeOK
    /\ \A r \in Requests : Inv1(pc[r], prof[r], sess[r], row[r], debit[r], bg[r], loc[r])

(* Request r moves to the given values, the others stay where they are. *)
Becomes(r, p, s, w, d, b, l) ==
    /\ pc' = [pc EXCEPT ![r] = p]
    /\ sess' = [sess EXCEPT ![r] = s]
    /\ row' = [row EXCEPT ![r] = w]
    /\ debit' = [debit EXCEPT ![r] = d]
    /\ bg' = [bg EXCEPT ![r] = b]
    /\ loc' = [loc EXCEPT ![r] = l]
    /\ prof' = prof

(* The fault counters and the crash counter stay in their ranges. *)
CountersOK == faulted' \in [Requests -> BOOLEAN] /\ faults' \in 0 .. MaxFaults /\ crashes' = crashes

(* A database call, failed or not, keeps the fault counters in range. *)
LEMMA CallCounters ==
  ASSUME TypeOK, NEW r \in Requests, NEW o, Call(r, o), crashes' = crashes
  PROVE  CountersOK
<1>1. faulted \in [Requests -> BOOLEAN] /\ faults \in 0 .. MaxFaults
  BY DEF TypeOK
<1>2. MaxFaults \in Nat
  BY ConstantsAssumption
<1>3. CASE o = "ok" /\ UNCHANGED <<faults, faulted>>
  BY <1>1, <1>3 DEF CountersOK
<1>4. CASE /\ o # "ok" /\ faults < MaxFaults
           /\ faults' = faults + 1
           /\ faulted' = [faulted EXCEPT ![r] = TRUE]
  <2>1. faulted' \in [Requests -> BOOLEAN]
    BY <1>1, <1>4
  <2>2. faults' \in 0 .. MaxFaults
    BY <1>1, <1>2, <1>4
  <2> QED BY <2>1, <2>2 DEF CountersOK
<1> QED
  BY <1>3, <1>4 DEF Call

(* A step of one request preserves the invariant if its new values do. *)
LEMMA StepFrame ==
  ASSUME IInv, NEW r \in Requests, NEW p, NEW s, NEW w, NEW d, NEW b, NEW l,
         Becomes(r, p, s, w, d, b, l), Inv1(p, prof[r], s, w, d, b, l), CountersOK
  PROVE  IInv'
<1>1. TypeOK'
  BY DEF IInv, TypeOK, Becomes, Inv1, Type1, CountersOK, BgPoints
<1>2. ASSUME NEW q \in Requests
      PROVE  Inv1(pc[q], prof[q], sess[q], row[q], debit[q], bg[q], loc[q])'
  <2>1. CASE q = r
    BY <2>1 DEF IInv, TypeOK, Becomes
  <2>2. CASE q # r
    BY <2>2 DEF IInv, TypeOK, Becomes
  <2> QED BY <2>1, <2>2
<1> QED BY <1>1, <1>2 DEF IInv

(* The invariant survives choosing the funding source. *)
LEMMA L_PreConsumeBilling ==
  ASSUME IInv, NEW r \in Requests, PreConsumeBilling(r)
  PROVE  IInv'
<1> DEFINE t == IF TokenUnlimited \/ RemainQuota > TrustQuota THEN TRUE ELSE FALSE
           l == [loc[r] EXCEPT !.tokenTrusted = t]
<1>1. Inv1(pc[r], prof[r], sess[r], row[r], debit[r], bg[r], loc[r]) /\ pc[r] = "start"
  BY DEF IInv, PreConsumeBilling
<1>2. PICK o : Call(r, o)
  BY DEF PreConsumeBilling
<1>3. CountersOK
  BY <1>2, CallCounters DEF IInv, PreConsumeBilling
<1>4. PICK p \in {"serve", "sub_hold", "wallet", "refused"} : Goto(r, p)
  BY DEF PreConsumeBilling
<1>5. Becomes(r, p, sess[r], row[r], debit[r], bg[r], l)
  BY <1>4 DEF PreConsumeBilling, Becomes, Goto, IInv, TypeOK
<1>6. l \in LocalType
  <2>1. loc[r] \in LocalType
    BY <1>1 DEF Inv1, Type1
  <2>2. t \in BOOLEAN
    OBVIOUS
  <2> HIDE DEF t
  <2> QED BY <2>1, <2>2 DEF LocalType
<1> HIDE DEF l
<1>7. Type1(p, prof[r], sess[r], row[r], debit[r], bg[r], l)
  BY <1>1, <1>4, <1>6 DEF Inv1, Type1, Points
<1>8. Safe1(p, prof[r], sess[r], row[r], debit[r], bg[r], l)
  BY <1>1, <1>4 DEF Inv1, Type1, Safe1, Minted1, BgAfterFailure, Consistent, WalletHeld,
       SubscriptionHeld, TokenHeld, HoldPoints, NoSessionPoints, NoSession
<1> QED BY <1>3, <1>5, <1>7, <1>8, StepFrame DEF Inv1

(* The invariant survives checking the wallet. *)
LEMMA L_TryWallet ==
  ASSUME IInv, NEW r \in Requests, TryWallet(r)
  PROVE  IInv'
<1>1. Inv1(pc[r], prof[r], sess[r], row[r], debit[r], bg[r], loc[r]) /\ pc[r] = "wallet"
  BY DEF IInv, TryWallet
<1>2. PICK o : Call(r, o)
  BY DEF TryWallet
<1>3. CountersOK
  BY <1>2, CallCounters DEF IInv, TryWallet
<1>4. PICK p \in {"wallet_hold", "sub_hold", "refused"}, e \in {loc[r].eff, 0, prof[r].pre} :
        Goto(r, p) /\ loc' = [loc EXCEPT ![r].eff = e]
  <2>1. loc = [loc EXCEPT ![r].eff = loc[r].eff]
    BY <1>1 DEF Inv1, Type1, LocalType, IInv, TypeOK
  <2> QED BY <2>1 DEF TryWallet
<1> DEFINE l == [loc[r] EXCEPT !.eff = e]
<1>5. Becomes(r, p, sess[r], row[r], debit[r], bg[r], l)
  BY <1>4 DEF TryWallet, Becomes, Goto, IInv, TypeOK
<1>6. l \in LocalType
  <2>1. loc[r] \in LocalType /\ prof[r] \in Profiles
    BY <1>1 DEF Inv1, Type1
  <2>2. prof[r].pre \in Nat
    BY <2>1, ConstantsAssumption DEF Profile
  <2>3. e \in Nat
    BY <2>1, <2>2, <1>4 DEF LocalType
  <2> QED BY <2>1, <2>3 DEF LocalType
<1> HIDE DEF l
<1>7. Type1(p, prof[r], sess[r], row[r], debit[r], bg[r], l)
  BY <1>1, <1>4, <1>6 DEF Inv1, Type1, Points
<1>8. Safe1(p, prof[r], sess[r], row[r], debit[r], bg[r], l)
  BY <1>1, <1>4 DEF Inv1, Type1, Safe1, Minted1, BgAfterFailure, Consistent, WalletHeld,
       SubscriptionHeld, TokenHeld, HoldPoints, NoSessionPoints
<1> QED BY <1>3, <1>5, <1>7, <1>8, StepFrame DEF Inv1

(* The invariant survives taking the hold from the wallet. *)
LEMMA L_WalletPreConsume ==
  ASSUME IInv, NEW r \in Requests, WalletPreConsume(r)
  PROVE  IInv'
<1> DEFINE e == loc[r].eff
<1>0. Inv1(pc[r], prof[r], sess[r], row[r], debit[r], bg[r], loc[r]) /\ pc[r] = "wallet_hold"
  BY DEF IInv, WalletPreConsume
<1>1. PICK o \in Outcomes : Call(r, o) /\ TakeWallet(r, IF Applied(o) THEN e ELSE 0)
         /\ \/ /\ o = "ok" /\ Goto(r, "period")
               /\ sess' = [sess EXCEPT ![r] = [@ EXCEPT !.source = "wallet", !.pre = e, !.consumed = e]]
            \/ o # "ok" /\ Refuse(r)
  BY DEF WalletPreConsume
<1>2. CountersOK
  BY <1>1, CallCounters DEF IInv, WalletPreConsume
<1>3. CASE o = "ok"
  <2> DEFINE s == [sess[r] EXCEPT !.source = "wallet", !.pre = e, !.consumed = e]
             d == [debit[r] EXCEPT !.wallet = @ + e]
  <2>1. Becomes(r, "period", s, row[r], d, bg[r], loc[r])
    BY <1>1, <1>3 DEF WalletPreConsume, Becomes, Goto, TakeWallet, Applied, IInv, TypeOK
  <2>2. e \in Nat /\ sess[r] = NoSession /\ debit[r] \in DebitType
    BY <1>0 DEF Inv1, Type1, LocalType, Safe1, Consistent, NoSessionPoints
  <2>9. sess[r] \in SessionType /\ sess[r].tok = 0
    BY <1>0, <2>2 DEF Inv1, Type1, NoSession
  <2>3. s \in SessionType /\ s.source = "wallet" /\ s.pre = e /\ s.consumed = e /\ s.tok = 0
    BY <2>2, <2>9 DEF SessionType
  <2>4. d \in DebitType /\ d.wallet = debit[r].wallet + e /\ d.token = debit[r].token
        /\ d.amt = debit[r].amt /\ d.cnt = debit[r].cnt
    BY <2>2 DEF DebitType
  <2>5. Type1("period", prof[r], s, row[r], d, bg[r], loc[r])
    BY <1>0, <2>3, <2>4 DEF Inv1, Type1, Points
  <2>6. Safe1("period", prof[r], s, row[r], d, bg[r], loc[r])
    BY <1>0, <2>2, <2>3, <2>4 DEF Inv1, Type1, Safe1, Minted1, BgAfterFailure, Consistent,
         WalletHeld, SubscriptionHeld, TokenHeld, HoldPoints, NoSessionPoints, DebitType
  <2> QED BY <2>1, <2>5, <2>6, <1>2, StepFrame DEF Inv1
<1>4. CASE o # "ok"
  <2> DEFINE d == [debit[r] EXCEPT !.wallet = @ + (IF Applied(o) THEN e ELSE 0)]
  <2>1. Becomes(r, "refused", NoSession, row[r], d, bg[r], loc[r])
    BY <1>1, <1>4 DEF WalletPreConsume, Becomes, Goto, TakeWallet, Refuse, IInv, TypeOK
  <2>2. Inv1("refused", prof[r], NoSession, row[r], d, bg[r], loc[r])
    BY <1>0 DEF Inv1, Type1, Safe1, Minted1, BgAfterFailure, Consistent, WalletHeld,
         SubscriptionHeld, TokenHeld, SessionType, DebitType, LocalType, RowType, Points, HoldPoints,
         NoSessionPoints, NoSession
  <2> QED BY <2>1, <2>2, <1>2, StepFrame
<1> QED BY <1>3, <1>4

(* A subscription hold changes the amount and the count and nothing else. *)
LEMMA AddHoldFields ==
  ASSUME NEW d \in DebitType, NEW x \in Int, NEW y \in Int
  PROVE  /\ AddHold(d, x, y) \in DebitType
         /\ AddHold(d, x, y).wallet = d.wallet /\ AddHold(d, x, y).token = d.token
         /\ AddHold(d, x, y).amt = d.amt + x /\ AddHold(d, x, y).cnt = d.cnt + y
<1> DEFINE u == d.amt + x
           v == d.cnt + y
<1>1. AddHold(d, x, y) = [d EXCEPT !.amt = u, !.cnt = v]
  BY DEF AddHold
<1>2. u \in Int /\ v \in Int
  BY DEF DebitType
<1>3. u = d.amt + x /\ v = d.cnt + y
  OBVIOUS
<1> HIDE DEF u, v
<1>4. [d EXCEPT !.amt = u, !.cnt = v] \in DebitType
  BY <1>2 DEF DebitType
<1>5. /\ [d EXCEPT !.amt = u, !.cnt = v].wallet = d.wallet
      /\ [d EXCEPT !.amt = u, !.cnt = v].token = d.token
      /\ [d EXCEPT !.amt = u, !.cnt = v].amt = u
      /\ [d EXCEPT !.amt = u, !.cnt = v].cnt = v
  BY <1>2 DEF DebitType
<1> QED BY <1>1, <1>3, <1>4, <1>5

(* The amounts a subscription hold takes are natural numbers. *)
LEMMA SubAmounts ==
  ASSUME IInv, NEW r \in Requests
  PROVE  /\ SubAmount(r) \in Nat /\ SubAmount(r) > 0
         /\ RequiredAmount(r) \in Nat /\ RequiredCount \in Nat
         /\ SubAmountTotal > 0 => RequiredAmount(r) = SubAmount(r)
         /\ SubAmountTotal \in Nat
<1>1. prof[r] \in Profiles
  BY DEF IInv, TypeOK
<1>2. prof[r].pre \in Nat /\ SubAmountTotal \in Nat
  BY <1>1, ConstantsAssumption DEF Profile
<1> QED BY <1>2 DEF SubAmount, RequiredAmount, RequiredCount

(* The session a successful subscription hold leaves. *)
LEMMA SubSessionValue ==
  ASSUME IInv, NEW r \in Requests, sess[r] = NoSession,
         NEW amt \in Nat, NEW cnt \in Nat, SubSession(r, amt, cnt)
  PROVE  \E s \in SessionType :
           /\ sess' = [sess EXCEPT ![r] = s]
           /\ s.source = "subscription" /\ s.tok = 0
           /\ s.pre \in Nat /\ (amt > 0 => s.pre = amt)
<1> DEFINE q == Primary(amt, cnt)
           n == IF q > 0 THEN q ELSE SubAmount(r)
           s == [sess[r] EXCEPT !.source = "subscription", !.subAmt = q, !.subCnt = cnt, !.pre = n]
<1>1. q \in Nat /\ (amt > 0 => q = amt)
  BY DEF Primary
<1>2. n \in Nat /\ (amt > 0 => n = amt)
  BY <1>1, SubAmounts
<1>3. sess[r] \in SessionType
  BY DEF IInv, TypeOK
<1>4. sess[r].tok = 0
  BY DEF NoSession
<1>5. sess' = [sess EXCEPT ![r] = s]
  BY DEF SubSession
<1> HIDE DEF q, n
<1>6. s \in SessionType /\ s.source = "subscription" /\ s.tok = 0 /\ s.pre = n
  BY <1>1, <1>2, <1>3, <1>4 DEF SessionType
<1> QED BY <1>2, <1>5, <1>6

(* The invariant survives taking the hold from the subscription. *)
LEMMA L_SubPreConsume ==
  ASSUME IInv, NEW r \in Requests, SubPreConsume(r)
  PROVE  IInv'
<1> DEFINE l == [loc[r] EXCEPT !.eff = SubAmount(r)]
           A == RequiredAmount(r)
           C == RequiredCount
           w == [status |-> "consumed", amt |-> A, cnt |-> C]
           d == AddHold(debit[r], A, C)
<1>1. Inv1(pc[r], prof[r], sess[r], row[r], debit[r], bg[r], loc[r]) /\ pc[r] = "sub_hold"
  BY DEF IInv, SubPreConsume
<1>2. PICK o \in Outcomes :
         /\ Call(r, o)
         /\ \/ Refuse(r) /\ UNCHANGED <<row, debit>>
            \/ /\ row[r].status = "consumed"
               /\ SubSession(r, row[r].amt, row[r].cnt)
               /\ Goto(r, "period") /\ UNCHANGED <<row, debit>>
            \/ Goto(r, "wallet") /\ UNCHANGED <<sess, row, debit>>
            \/ /\ row[r].status = "none"
               /\ row' = [row EXCEPT ![r] = w]
               /\ debit' = [debit EXCEPT ![r] = d]
               /\ \/ SubSession(r, A, C) /\ Goto(r, "period")
                  \/ Refuse(r)
  BY DEF SubPreConsume, TakeHold
<1>3. CountersOK
  BY <1>2, CallCounters DEF IInv, SubPreConsume
<1>4. sess[r] = NoSession /\ bg[r] = "idle"
  BY <1>1 DEF Inv1, Type1, Safe1, Minted1, BgAfterFailure, Consistent, WalletHeld,
       SubscriptionHeld, TokenHeld, HoldPoints, NoSessionPoints
<1>5. loc' = [loc EXCEPT ![r] = l] /\ UNCHANGED <<prof, bg>>
  BY DEF SubPreConsume, IInv, TypeOK
<1>6. l \in LocalType
  <2>1. loc[r] \in LocalType
    BY <1>1 DEF Inv1, Type1
  <2>2. SubAmount(r) \in Nat
    BY SubAmounts
  <2> QED BY <2>1, <2>2 DEF LocalType
<1>7. w \in RowType /\ d \in DebitType
      /\ d.wallet = debit[r].wallet /\ d.token = debit[r].token
      /\ d.amt = debit[r].amt + A /\ d.cnt = debit[r].cnt + C
  <2>1. A \in Nat /\ C \in Nat
    BY SubAmounts
  <2>2. debit[r] \in DebitType
    BY <1>1 DEF Inv1, Type1
  <2> HIDE DEF A, C
  <2>3. w \in RowType
    BY <2>1 DEF RowType
  <2>4. A \in Int /\ C \in Int
    BY <2>1
  <2> QED BY <2>2, <2>3, <2>4, AddHoldFields
<1>8. A \in Nat /\ C \in Nat
  BY SubAmounts
<1>9. w.status = "consumed" /\ w.amt = A /\ w.cnt = C
  OBVIOUS
<1>10. row[r] \in RowType /\ row[r].amt \in Nat /\ row[r].cnt \in Nat
  BY <1>1 DEF Inv1, Type1, RowType
<1>11. NoSession \in SessionType
  BY DEF NoSession, SessionType
<1> HIDE DEF l, A, C, w, d
<1>12. CASE Refuse(r) /\ UNCHANGED <<row, debit>>
  <2>1. Becomes(r, "refused", NoSession, row[r], debit[r], bg[r], l)
    BY <1>12, <1>5 DEF Refuse, Becomes, Goto, IInv, TypeOK
  <2>2. Inv1("refused", prof[r], NoSession, row[r], debit[r], bg[r], l)
    BY <1>1, <1>4, <1>6 DEF Inv1, Type1, Safe1, Minted1, BgAfterFailure, Consistent, WalletHeld,
         SubscriptionHeld, TokenHeld, HoldPoints, NoSessionPoints, Points
  <2> QED BY <2>1, <2>2, <1>3, StepFrame
<1>13. CASE /\ row[r].status = "consumed"
            /\ SubSession(r, row[r].amt, row[r].cnt)
            /\ Goto(r, "period") /\ UNCHANGED <<row, debit>>
  <2>1. PICK s \in SessionType :
           /\ sess' = [sess EXCEPT ![r] = s]
           /\ s.source = "subscription" /\ s.tok = 0
           /\ s.pre \in Nat /\ (row[r].amt > 0 => s.pre = row[r].amt)
    BY <1>4, <1>10, <1>13, SubSessionValue
  <2>2. Becomes(r, "period", s, row[r], debit[r], bg[r], l)
    BY <1>13, <1>5, <2>1 DEF Becomes, Goto, IInv, TypeOK
  <2>3. Type1("period", prof[r], s, row[r], debit[r], bg[r], l)
    BY <1>1, <1>6, <2>1 DEF Inv1, Type1, Points
  <2>4. SubAmountTotal > 0 => s.pre = row[r].amt
    BY <2>1, <1>1, <1>13 DEF Inv1, Type1, Safe1, Minted1, BgAfterFailure, Consistent,
         WalletHeld, SubscriptionHeld, TokenHeld, HoldPoints, NoSessionPoints
  <2>5. Safe1("period", prof[r], s, row[r], debit[r], bg[r], l)
    BY <1>1, <1>4, <1>13, <2>1, <2>4 DEF Inv1, Type1, Safe1, Minted1, BgAfterFailure,
         Consistent, WalletHeld, SubscriptionHeld, TokenHeld, HoldPoints, NoSessionPoints
  <2> QED BY <2>2, <2>3, <2>5, <1>3, StepFrame DEF Inv1
<1>14. CASE Goto(r, "wallet") /\ UNCHANGED <<sess, row, debit>>
  <2>1. Becomes(r, "wallet", sess[r], row[r], debit[r], bg[r], l)
    BY <1>14, <1>5 DEF Becomes, Goto, IInv, TypeOK
  <2>2. Inv1("wallet", prof[r], sess[r], row[r], debit[r], bg[r], l)
    BY <1>1, <1>4, <1>6 DEF Inv1, Type1, Safe1, Minted1, BgAfterFailure, Consistent, WalletHeld,
         SubscriptionHeld, TokenHeld, HoldPoints, NoSessionPoints, Points
  <2> QED BY <2>1, <2>2, <1>3, StepFrame
<1>15. CASE /\ row[r].status = "none"
            /\ row' = [row EXCEPT ![r] = w]
            /\ debit' = [debit EXCEPT ![r] = d]
            /\ SubSession(r, A, C) /\ Goto(r, "period")
  <2>1. PICK s \in SessionType :
           /\ sess' = [sess EXCEPT ![r] = s]
           /\ s.source = "subscription" /\ s.tok = 0
           /\ s.pre \in Nat /\ (A > 0 => s.pre = A)
    BY <1>4, <1>8, <1>15, SubSessionValue
  <2>2. Becomes(r, "period", s, w, d, bg[r], l)
    BY <1>15, <1>5, <2>1 DEF Becomes, Goto, IInv, TypeOK
  <2>3. Type1("period", prof[r], s, w, d, bg[r], l)
    BY <1>1, <1>6, <1>7, <2>1 DEF Inv1, Type1, Points
  <2>4. SubAmountTotal > 0 => s.pre = w.amt /\ w.amt > 0
    BY <2>1, <1>9, SubAmounts DEF A
  <2>5. Safe1("period", prof[r], s, w, d, bg[r], l)
    BY <1>1, <1>4, <1>7, <1>8, <1>9, <2>1, <2>4 DEF Inv1, Type1, Safe1, Minted1, BgAfterFailure,
         Consistent, WalletHeld, SubscriptionHeld, TokenHeld, HoldPoints, NoSessionPoints, DebitType
  <2> QED BY <2>2, <2>3, <2>5, <1>3, StepFrame DEF Inv1
<1>16. CASE /\ row[r].status = "none"
            /\ row' = [row EXCEPT ![r] = w]
            /\ debit' = [debit EXCEPT ![r] = d]
            /\ Refuse(r)
  <2>1. Becomes(r, "refused", NoSession, w, d, bg[r], l)
    BY <1>16, <1>5 DEF Refuse, Becomes, Goto, IInv, TypeOK
  <2>4. SubAmountTotal > 0 => w.amt > 0
    BY <1>9, SubAmounts DEF A
  <2>2. Type1("refused", prof[r], NoSession, w, d, bg[r], l)
    BY <1>1, <1>6, <1>7, <1>11 DEF Inv1, Type1, Points
  <2>3. Safe1("refused", prof[r], NoSession, w, d, bg[r], l)
    BY <1>1, <1>4, <1>7, <1>8, <1>9, <2>4 DEF Inv1, Type1, Safe1, Minted1, BgAfterFailure,
         Consistent, WalletHeld, SubscriptionHeld, TokenHeld, HoldPoints, NoSessionPoints, DebitType
  <2> QED BY <2>1, <2>2, <2>3, <1>3, StepFrame DEF Inv1
<1> QED BY <1>2, <1>12, <1>13, <1>14, <1>15, <1>16

(* Steps that change nothing but the control point and local variables. *)
LEMMA LocalStep ==
  ASSUME IInv, NEW r \in Requests, NEW p \in Points, NEW l \in LocalType,
         Becomes(r, p, sess[r], row[r], debit[r], bg[r], l),
         Safe1(p, prof[r], sess[r], row[r], debit[r], bg[r], l), CountersOK
  PROVE  IInv'
<1>1. Inv1(pc[r], prof[r], sess[r], row[r], debit[r], bg[r], loc[r])
  BY DEF IInv
<1>2. Inv1(p, prof[r], sess[r], row[r], debit[r], bg[r], l)
  BY <1>1 DEF Inv1, Type1
<1> QED BY <1>2, StepFrame

(* A step without a database call leaves the counters alone. *)
LEMMA SameCounters ==
  ASSUME IInv, UNCHANGED <<faulted, faults, crashes>>
  PROVE  CountersOK
  BY DEF IInv, TypeOK, CountersOK

(* The invariant survives the check of the token's period. *)
LEMMA L_PeriodCheck ==
  ASSUME IInv, NEW r \in Requests, PeriodCheck(r)
  PROVE  IInv'
<1> DEFINE l == [loc[r] EXCEPT !.tries = 0]
<1>1. Inv1(pc[r], prof[r], sess[r], row[r], debit[r], bg[r], loc[r]) /\ pc[r] = "period"
  BY DEF IInv, PeriodCheck
<1>2. CountersOK
  BY SameCounters DEF PeriodCheck
<1>3. PICK p \in {"rollback", "token", "serve"} : Goto(r, p)
  BY DEF PeriodCheck
<1>4. Becomes(r, p, sess[r], row[r], debit[r], bg[r], l)
  BY <1>3 DEF PeriodCheck, Becomes, Goto, IInv, TypeOK
<1>5. l \in LocalType /\ l.next = loc[r].next
  BY <1>1 DEF Inv1, Type1, LocalType, MaxAttempts
<1> HIDE DEF l
<1>6. Safe1(p, prof[r], sess[r], row[r], debit[r], bg[r], l)
  BY <1>1, <1>3 DEF Inv1, Type1, Safe1, Minted1, BgAfterFailure, Consistent, WalletHeld,
       SubscriptionHeld, TokenHeld, HoldPoints, NoSessionPoints
<1>7. p \in Points
  BY <1>3 DEF Points
<1> QED BY <1>2, <1>4, <1>5, <1>6, <1>7, LocalStep

(* The invariant survives the check of the token's quota. *)
LEMMA L_TokenCheck ==
  ASSUME IInv, NEW r \in Requests, TokenCheck(r)
  PROVE  IInv'
<1> DEFINE s == [sess[r] EXCEPT !.tok = loc[r].eff]
<1>1. Inv1(pc[r], prof[r], sess[r], row[r], debit[r], bg[r], loc[r]) /\ pc[r] = "token"
  BY DEF IInv, TokenCheck
<1>2. PICK o : Call(r, o)
  BY DEF TokenCheck
<1>3. CountersOK
  BY <1>2, CallCounters DEF IInv, TokenCheck
<1>4. CASE prof[r].playground
  <2>1. Goto(r, "serve") /\ sess' = [sess EXCEPT ![r].tok = loc[r].eff]
    BY <1>4 DEF TokenCheck
  <2>2. Becomes(r, "serve", s, row[r], debit[r], bg[r], loc[r])
    BY <2>1 DEF TokenCheck, Becomes, Goto, IInv, TypeOK
  <2>3. sess[r] \in SessionType /\ loc[r].eff \in Nat
    BY <1>1 DEF Inv1, Type1, LocalType
  <2>4. s \in SessionType /\ s.source = sess[r].source /\ s.pre = sess[r].pre
        /\ s.consumed = sess[r].consumed
    BY <2>3 DEF SessionType
  <2> HIDE DEF s
  <2>5. Type1("serve", prof[r], s, row[r], debit[r], bg[r], loc[r])
    BY <1>1, <2>4 DEF Inv1, Type1, Points
  <2>6. Safe1("serve", prof[r], s, row[r], debit[r], bg[r], loc[r])
    BY <1>1, <1>4, <2>4 DEF Inv1, Type1, Safe1, Minted1, BgAfterFailure, Consistent, WalletHeld,
         SubscriptionHeld, TokenHeld, HoldPoints, NoSessionPoints
  <2> QED BY <1>3, <2>2, <2>5, <2>6, StepFrame DEF Inv1
<1>5. CASE ~ prof[r].playground
  <2>1. PICK p \in {"rollback", "token_hold"} : Goto(r, p)
    BY <1>5 DEF TokenCheck
  <2>2. UNCHANGED sess
    BY <1>5 DEF TokenCheck
  <2>3. Becomes(r, p, sess[r], row[r], debit[r], bg[r], loc[r])
    BY <2>1, <2>2 DEF TokenCheck, Becomes, Goto, IInv, TypeOK
  <2>4. Safe1(p, prof[r], sess[r], row[r], debit[r], bg[r], loc[r])
    BY <1>1, <2>1 DEF Inv1, Type1, Safe1, Minted1, BgAfterFailure, Consistent, WalletHeld,
         SubscriptionHeld, TokenHeld, HoldPoints, NoSessionPoints
  <2>5. p \in Points /\ loc[r] \in LocalType
    BY <1>1, <2>1 DEF Points, Inv1, Type1
  <2> QED BY <1>3, <2>3, <2>4, <2>5, LocalStep
<1> QED BY <1>4, <1>5

(* The invariant survives taking the hold from the token. *)
LEMMA L_TokenPreConsume ==
  ASSUME IInv, NEW r \in Requests, TokenPreConsume(r)
  PROVE  IInv'
<1> DEFINE e == loc[r].eff
<1>1. Inv1(pc[r], prof[r], sess[r], row[r], debit[r], bg[r], loc[r]) /\ pc[r] = "token_hold"
  BY DEF IInv, TokenPreConsume
<1>2. PICK o \in Outcomes :
        /\ Call(r, o)
        /\ TakeToken(r, IF Applied(o) THEN e ELSE 0)
        /\ IF o = "ok" THEN Goto(r, "serve") /\ sess' = [sess EXCEPT ![r].tok = e]
           ELSE Goto(r, "rollback") /\ UNCHANGED sess
  BY DEF TokenPreConsume
<1>3. CountersOK
  BY <1>2, CallCounters DEF IInv, TokenPreConsume
<1>4. sess[r] \in SessionType /\ e \in Nat /\ debit[r] \in DebitType
  BY <1>1 DEF Inv1, Type1, LocalType
<1>5. CASE o = "ok"
  <2> DEFINE s == [sess[r] EXCEPT !.tok = e]
             d == [debit[r] EXCEPT !.token = @ + e]
  <2>1. Becomes(r, "serve", s, row[r], d, bg[r], loc[r])
    BY <1>2, <1>5 DEF TokenPreConsume, Becomes, Goto, TakeToken, Applied, IInv, TypeOK
  <2> HIDE DEF e
  <2>2. s \in SessionType /\ s.source = sess[r].source /\ s.pre = sess[r].pre
        /\ s.consumed = sess[r].consumed /\ s.tok = e
    BY <1>4 DEF SessionType
  <2>3. d \in DebitType /\ d.token = debit[r].token + e /\ d.wallet = debit[r].wallet
        /\ d.amt = debit[r].amt /\ d.cnt = debit[r].cnt
    BY <1>4 DEF DebitType
  <2> HIDE DEF s, d
  <2>4. Type1("serve", prof[r], s, row[r], d, bg[r], loc[r])
    BY <1>1, <2>2, <2>3 DEF Inv1, Type1, Points
  <2>5. Safe1("serve", prof[r], s, row[r], d, bg[r], loc[r])
    BY <1>1, <1>4, <2>2, <2>3 DEF Inv1, Type1, Safe1, Minted1, BgAfterFailure, Consistent,
         WalletHeld, SubscriptionHeld, TokenHeld, HoldPoints, NoSessionPoints, DebitType
  <2> QED BY <1>3, <2>1, <2>4, <2>5, StepFrame DEF Inv1
<1>6. CASE o # "ok"
  <2> DEFINE n == IF Applied(o) THEN e ELSE 0
             d == [debit[r] EXCEPT !.token = @ + n]
  <2>1. Becomes(r, "rollback", sess[r], row[r], d, bg[r], loc[r])
    BY <1>2, <1>6 DEF TokenPreConsume, Becomes, Goto, TakeToken, IInv, TypeOK
  <2>2. n \in Nat
    BY <1>4
  <2> HIDE DEF n
  <2>3. d \in DebitType /\ d.token = debit[r].token + n /\ d.wallet = debit[r].wallet
        /\ d.amt = debit[r].amt /\ d.cnt = debit[r].cnt
    BY <1>4, <2>2 DEF DebitType
  <2> HIDE DEF d
  <2>4. Type1("rollback", prof[r], sess[r], row[r], d, bg[r], loc[r])
    BY <1>1, <2>3 DEF Inv1, Type1, Points
  <2>5. sess[r].tok \in Nat /\ debit[r].token \in Int
    BY <1>4 DEF SessionType, DebitType
  <2>6. Safe1("rollback", prof[r], sess[r], row[r], d, bg[r], loc[r])
    BY <1>1, <2>2, <2>3, <2>5 DEF Inv1, Type1, Safe1, Minted1, BgAfterFailure, Consistent,
         WalletHeld, SubscriptionHeld, TokenHeld, HoldPoints, NoSessionPoints
  <2> QED BY <1>3, <2>1, <2>4, <2>6, StepFrame DEF Inv1
<1> QED BY <1>5, <1>6

(* One attempt to refund the funding: if the hold was still there nothing is
   given back twice, and a record that is still "consumed" keeps its hold. *)
LEMMA RefundFundingEffect ==
  ASSUME IInv, NEW r \in Requests, NEW o, RefundFunding(r, o),
         sess[r].source = "wallet" => debit[r].wallet >= sess[r].consumed,
         row[r].status = "consumed" => debit[r].amt >= row[r].amt /\ debit[r].cnt >= row[r].cnt
  PROVE  \E d \in DebitType, w \in RowType :
           /\ debit' = [debit EXCEPT ![r] = d] /\ row' = [row EXCEPT ![r] = w]
           /\ Minted1(d) /\ d.token = debit[r].token
           /\ w.amt = row[r].amt /\ w.cnt = row[r].cnt
           /\ w.status = "consumed" => /\ row[r].status = "consumed"
                                       /\ d.amt >= w.amt /\ d.cnt >= w.cnt
<1>1. Inv1(pc[r], prof[r], sess[r], row[r], debit[r], bg[r], loc[r])
  BY DEF IInv
<1>2. debit[r] \in DebitType /\ sess[r] \in SessionType /\ row[r] \in RowType /\ Minted1(debit[r])
  BY <1>1 DEF Inv1, Type1, Safe1
<1>3. debit \in [Requests -> DebitType] /\ row \in [Requests -> RowType]
  BY DEF IInv, TypeOK
<1>4. CASE UNCHANGED <<row, debit>>
  <2>1. debit' = [debit EXCEPT ![r] = debit[r]] /\ row' = [row EXCEPT ![r] = row[r]]
    BY <1>3, <1>4
  <2> QED BY <1>2, <2>1
<1>5. CASE sess[r].source = "wallet" /\ TakeWallet(r, - sess[r].consumed) /\ UNCHANGED row
  <2> DEFINE n == - sess[r].consumed
             d == [debit[r] EXCEPT !.wallet = @ + n]
  <2>1. debit' = [debit EXCEPT ![r] = d] /\ row' = [row EXCEPT ![r] = row[r]]
    BY <1>3, <1>5 DEF TakeWallet
  <2>2. n \in Int /\ debit[r].wallet + n >= 0
    BY <1>2, <1>5 DEF SessionType, DebitType
  <2> HIDE DEF n
  <2>3. d \in DebitType /\ d.wallet = debit[r].wallet + n /\ d.token = debit[r].token
        /\ d.amt = debit[r].amt /\ d.cnt = debit[r].cnt
    BY <1>2, <2>2 DEF DebitType
  <2> HIDE DEF d
  <2>4. Minted1(d)
    BY <1>2, <2>2, <2>3 DEF Minted1
  <2> QED BY <1>2, <2>1, <2>3, <2>4
<1>6. CASE /\ row[r].status = "consumed"
           /\ TakeHold(r, - row[r].amt, - row[r].cnt)
           /\ row' = [row EXCEPT ![r].status = "refunded"]
  <2> DEFINE d == AddHold(debit[r], - row[r].amt, - row[r].cnt)
             w == [row[r] EXCEPT !.status = "refunded"]
  <2>1. debit' = [debit EXCEPT ![r] = d] /\ row' = [row EXCEPT ![r] = w]
    BY <1>3, <1>6 DEF TakeHold
  <2>2. row[r].amt \in Nat /\ row[r].cnt \in Nat
    BY <1>2 DEF RowType
  <2>3. - row[r].amt \in Int /\ - row[r].cnt \in Int
    BY <2>2
  <2>4. d \in DebitType /\ d.wallet = debit[r].wallet /\ d.token = debit[r].token
        /\ d.amt = debit[r].amt - row[r].amt /\ d.cnt = debit[r].cnt - row[r].cnt
    <3>1. d \in DebitType /\ d.wallet = debit[r].wallet /\ d.token = debit[r].token
          /\ d.amt = debit[r].amt + (- row[r].amt) /\ d.cnt = debit[r].cnt + (- row[r].cnt)
      BY <1>2, <2>3, AddHoldFields
    <3>2. debit[r].amt \in Int /\ debit[r].cnt \in Int
      BY <1>2 DEF DebitType
    <3> HIDE DEF d
    <3> QED BY <3>1, <3>2, <2>2
  <2>5. w \in RowType /\ w.status = "refunded" /\ w.amt = row[r].amt /\ w.cnt = row[r].cnt
    BY <1>2 DEF RowType
  <2> HIDE DEF d, w
  <2>6. debit[r].amt \in Int /\ debit[r].cnt \in Int
    BY <1>2 DEF DebitType
  <2>7. Minted1(d)
    BY <1>2, <1>6, <2>2, <2>4, <2>6 DEF Minted1
  <2> QED BY <2>1, <2>4, <2>5, <2>7
<1> QED BY <1>4, <1>5, <1>6 DEF RefundFunding

(* Counting an attempt keeps the counter in its range. *)
LEMMA CountTryLocal ==
  ASSUME IInv, NEW r \in Requests, NEW o, TriesAgain(r, o), CountTry(r)
  PROVE  \E l \in LocalType : loc' = [loc EXCEPT ![r] = l] /\ l.next = loc[r].next
<1> DEFINE n == loc[r].tries + 1
           l == [loc[r] EXCEPT !.tries = n]
<1>1. loc[r] \in LocalType /\ loc \in [Requests -> LocalType]
  BY DEF IInv, TypeOK
<1>2. n \in 0 .. MaxAttempts - 1
  BY <1>1 DEF TriesAgain, LocalType, MaxAttempts
<1>3. loc' = [loc EXCEPT ![r] = l]
  BY <1>1 DEF CountTry
<1> HIDE DEF n
<1>4. l \in LocalType /\ l.next = loc[r].next
  BY <1>1, <1>2 DEF LocalType
<1> QED BY <1>3, <1>4

(* The invariant survives the rollback of a failed pre-consume. *)
LEMMA L_RollBack ==
  ASSUME IInv, NEW r \in Requests, RollBack(r)
  PROVE  IInv'
<1>1. Inv1(pc[r], prof[r], sess[r], row[r], debit[r], bg[r], loc[r]) /\ pc[r] = "rollback"
  BY DEF IInv, RollBack
<1>2. PICK o \in Outcomes :
        /\ RefundFunding(r, o)
        /\ IF TriesAgain(r, o) THEN CountTry(r) /\ UNCHANGED <<pc, sess>>
           ELSE Refuse(r) /\ UNCHANGED loc
  BY DEF RollBack
<1>3. CountersOK
  <2>1. Call(r, o)
    BY <1>2 DEF RefundFunding
  <2> QED BY <2>1, CallCounters DEF IInv, RollBack
<1>4. bg[r] = "idle" /\ bg' = [bg EXCEPT ![r] = bg[r]] /\ prof' = prof
  BY <1>1 DEF RollBack, Inv1, Safe1, BgAfterFailure, IInv, TypeOK
<1>5. /\ sess[r].source = "wallet" => debit[r].wallet >= sess[r].consumed
      /\ row[r].status = "consumed" => debit[r].amt >= row[r].amt /\ debit[r].cnt >= row[r].cnt
  BY <1>1, <1>4 DEF Inv1, Safe1, WalletHeld, SubscriptionHeld, HoldPoints
<1>6. PICK d \in DebitType, w \in RowType :
           /\ debit' = [debit EXCEPT ![r] = d] /\ row' = [row EXCEPT ![r] = w]
           /\ Minted1(d) /\ d.token = debit[r].token
           /\ w.amt = row[r].amt /\ w.cnt = row[r].cnt
           /\ w.status = "consumed" => /\ row[r].status = "consumed"
                                       /\ d.amt >= w.amt /\ d.cnt >= w.cnt
  BY <1>2, <1>5, RefundFundingEffect
<1>7. CASE TriesAgain(r, o)
  <2>1. PICK l \in LocalType : loc' = [loc EXCEPT ![r] = l] /\ l.next = loc[r].next
    BY <1>2, <1>7, CountTryLocal
  <2>2. Becomes(r, "rollback", sess[r], w, d, bg[r], l)
    BY <1>1, <1>2, <1>4, <1>6, <1>7, <2>1 DEF Becomes, IInv, TypeOK
  <2>3. Type1("rollback", prof[r], sess[r], w, d, bg[r], l)
    BY <1>1, <1>6, <2>1 DEF Inv1, Type1
  <2>4. sess[r].source = "subscription"
    BY <1>7 DEF TriesAgain
  <2>5. Safe1("rollback", prof[r], sess[r], w, d, bg[r], l)
    BY <1>1, <1>6, <2>4 DEF Inv1, Type1, Safe1, Minted1, BgAfterFailure, Consistent, WalletHeld,
         SubscriptionHeld, TokenHeld, HoldPoints, NoSessionPoints
  <2> QED BY <1>3, <2>2, <2>3, <2>5, StepFrame DEF Inv1
<1>8. CASE ~ TriesAgain(r, o)
  <2>1. Becomes(r, "refused", NoSession, w, d, bg[r], loc[r])
    BY <1>2, <1>4, <1>6, <1>8 DEF Becomes, Refuse, Goto, IInv, TypeOK
  <2>2. NoSession \in SessionType
    BY DEF NoSession, SessionType
  <2>3. Type1("refused", prof[r], NoSession, w, d, bg[r], loc[r])
    BY <1>1, <1>6, <2>2 DEF Inv1, Type1, Points
  <2>4. NoSession.source = "none" /\ NoSession.tok = 0
    BY DEF NoSession
  <2>5. Safe1("refused", prof[r], NoSession, w, d, bg[r], loc[r])
    BY <1>1, <1>4, <1>6, <2>4 DEF Inv1, Type1, Safe1, Minted1, BgAfterFailure, Consistent,
         WalletHeld, SubscriptionHeld, TokenHeld, HoldPoints, NoSessionPoints
  <2> QED BY <1>3, <2>1, <2>3, <2>5, StepFrame DEF Inv1
<1> QED BY <1>7, <1>8

(* The invariant survives returning a request that cost nothing. *)
LEMMA L_ZeroUsageRefund ==
  ASSUME IInv, NEW r \in Requests, ZeroUsageRefund(r)
  PROVE  IInv'
<1>1. Inv1(pc[r], prof[r], sess[r], row[r], debit[r], bg[r], loc[r]) /\ pc[r] = "zero_refund"
  BY DEF IInv, ZeroUsageRefund
<1>2. PICK o \in Outcomes :
        /\ RefundFunding(r, o)
        /\ IF TriesAgain(r, o) THEN CountTry(r) /\ UNCHANGED pc
           ELSE Goto(r, IF o = "ok" THEN "zero_token" ELSE "settle_error") /\ UNCHANGED loc
  BY DEF ZeroUsageRefund
<1>3. CountersOK
  <2>1. Call(r, o)
    BY <1>2 DEF RefundFunding
  <2> QED BY <2>1, CallCounters DEF IInv, ZeroUsageRefund
<1>4. bg[r] = "idle" /\ bg' = [bg EXCEPT ![r] = bg[r]] /\ prof' = prof
      /\ sess' = [sess EXCEPT ![r] = sess[r]]
  BY <1>1 DEF ZeroUsageRefund, Inv1, Safe1, BgAfterFailure, IInv, TypeOK
<1>5. /\ sess[r].source = "wallet" => debit[r].wallet >= sess[r].consumed
      /\ row[r].status = "consumed" => debit[r].amt >= row[r].amt /\ debit[r].cnt >= row[r].cnt
  BY <1>1, <1>4 DEF Inv1, Safe1, WalletHeld, SubscriptionHeld, HoldPoints
<1>6. PICK d \in DebitType, w \in RowType :
           /\ debit' = [debit EXCEPT ![r] = d] /\ row' = [row EXCEPT ![r] = w]
           /\ Minted1(d) /\ d.token = debit[r].token
           /\ w.amt = row[r].amt /\ w.cnt = row[r].cnt
           /\ w.status = "consumed" => /\ row[r].status = "consumed"
                                       /\ d.amt >= w.amt /\ d.cnt >= w.cnt
  BY <1>2, <1>5, RefundFundingEffect
<1>7. CASE TriesAgain(r, o)
  <2>1. PICK l \in LocalType : loc' = [loc EXCEPT ![r] = l] /\ l.next = loc[r].next
    BY <1>2, <1>7, CountTryLocal
  <2>2. Becomes(r, "zero_refund", sess[r], w, d, bg[r], l)
    BY <1>1, <1>2, <1>4, <1>6, <1>7, <2>1 DEF Becomes, IInv, TypeOK
  <2>3. Type1("zero_refund", prof[r], sess[r], w, d, bg[r], l)
    BY <1>1, <1>6, <2>1 DEF Inv1, Type1
  <2>4. sess[r].source = "subscription"
    BY <1>7 DEF TriesAgain
  <2>5. Safe1("zero_refund", prof[r], sess[r], w, d, bg[r], l)
    BY <1>1, <1>6, <2>4 DEF Inv1, Type1, Safe1, Minted1, BgAfterFailure, Consistent, WalletHeld,
         SubscriptionHeld, TokenHeld, HoldPoints, NoSessionPoints
  <2> QED BY <1>3, <2>2, <2>3, <2>5, StepFrame DEF Inv1
<1>8. CASE ~ TriesAgain(r, o)
  <2>1. PICK p \in {"zero_token", "settle_error"} : Goto(r, p) /\ UNCHANGED loc
    BY <1>2, <1>8
  <2>2. Becomes(r, p, sess[r], w, d, bg[r], loc[r])
    BY <1>4, <1>6, <2>1 DEF Becomes, Goto, IInv, TypeOK
  <2>3. Type1(p, prof[r], sess[r], w, d, bg[r], loc[r])
    BY <1>1, <1>6, <2>1 DEF Inv1, Type1, Points, Finals
  <2>4. Safe1(p, prof[r], sess[r], w, d, bg[r], loc[r])
    BY <1>1, <1>4, <1>6, <2>1 DEF Inv1, Type1, Safe1, Minted1, BgAfterFailure, Consistent,
         WalletHeld, SubscriptionHeld, TokenHeld, HoldPoints, NoSessionPoints
  <2> QED BY <1>3, <2>2, <2>3, <2>4, StepFrame DEF Inv1
<1> QED BY <1>7, <1>8

(* The invariant survives the refund of the funding source. *)
LEMMA L_BgRefundFunding ==
  ASSUME IInv, NEW r \in Requests, BgRefundFunding(r)
  PROVE  IInv'
<1>1. Inv1(pc[r], prof[r], sess[r], row[r], debit[r], bg[r], loc[r]) /\ bg[r] = "funding"
  BY DEF IInv, BgRefundFunding
<1>2. PICK o \in Outcomes :
        /\ RefundFunding(r, o)
        /\ IF TriesAgain(r, o) THEN CountTry(r) /\ UNCHANGED bg
           ELSE bg' = [bg EXCEPT ![r] = "token"] /\ UNCHANGED loc
  BY DEF BgRefundFunding
<1>3. CountersOK
  <2>1. Call(r, o)
    BY <1>2 DEF RefundFunding
  <2> QED BY <2>1, CallCounters DEF IInv, BgRefundFunding
<1>4. pc' = [pc EXCEPT ![r] = pc[r]] /\ prof' = prof /\ sess' = [sess EXCEPT ![r] = sess[r]]
  BY DEF BgRefundFunding, IInv, TypeOK
<1>5. /\ sess[r].source = "wallet" => debit[r].wallet >= sess[r].consumed
      /\ row[r].status = "consumed" => debit[r].amt >= row[r].amt /\ debit[r].cnt >= row[r].cnt
  BY <1>1 DEF Inv1, Safe1, WalletHeld, SubscriptionHeld
<1>6. PICK d \in DebitType, w \in RowType :
           /\ debit' = [debit EXCEPT ![r] = d] /\ row' = [row EXCEPT ![r] = w]
           /\ Minted1(d) /\ d.token = debit[r].token
           /\ w.amt = row[r].amt /\ w.cnt = row[r].cnt
           /\ w.status = "consumed" => /\ row[r].status = "consumed"
                                       /\ d.amt >= w.amt /\ d.cnt >= w.cnt
  BY <1>2, <1>5, RefundFundingEffect
<1>7. CASE TriesAgain(r, o)
  <2>1. PICK l \in LocalType : loc' = [loc EXCEPT ![r] = l] /\ l.next = loc[r].next
    BY <1>2, <1>7, CountTryLocal
  <2>2. Becomes(r, pc[r], sess[r], w, d, "funding", l)
    BY <1>1, <1>2, <1>4, <1>6, <1>7, <2>1 DEF Becomes, IInv, TypeOK
  <2>3. Type1(pc[r], prof[r], sess[r], w, d, "funding", l)
    BY <1>1, <1>6, <2>1 DEF Inv1, Type1
  <2>4. sess[r].source = "subscription"
    BY <1>7 DEF TriesAgain
  <2>5. Safe1(pc[r], prof[r], sess[r], w, d, "funding", l)
    BY <1>1, <1>6, <2>1, <2>4 DEF Inv1, Type1, Safe1, Minted1, BgAfterFailure, Consistent,
         WalletHeld, SubscriptionHeld, TokenHeld, HoldPoints, NoSessionPoints
  <2> QED BY <1>3, <2>2, <2>3, <2>5, StepFrame DEF Inv1
<1>8. CASE ~ TriesAgain(r, o)
  <2>1. Becomes(r, pc[r], sess[r], w, d, "token", loc[r])
    BY <1>2, <1>4, <1>6, <1>8 DEF Becomes, IInv, TypeOK
  <2>2. Type1(pc[r], prof[r], sess[r], w, d, "token", loc[r])
    BY <1>1, <1>6 DEF Inv1, Type1, BgPoints
  <2>3. Safe1(pc[r], prof[r], sess[r], w, d, "token", loc[r])
    BY <1>1, <1>6 DEF Inv1, Type1, Safe1, Minted1, BgAfterFailure, Consistent, WalletHeld,
         SubscriptionHeld, TokenHeld, HoldPoints, NoSessionPoints
  <2> QED BY <1>3, <2>1, <2>2, <2>3, StepFrame DEF Inv1
<1> QED BY <1>7, <1>8

(* Another attempt, in the same group or in a later one, keeps the local
   variables in their ranges and counts no turn. *)
LEMMA TryNextLocal ==
  ASSUME loc \in [Requests -> LocalType], NEW r \in Requests, TryNext(r)
  PROVE  \E l \in LocalType : loc' = [loc EXCEPT ![r] = l] /\ l.turns = loc[r].turns
<1>1. loc[r] \in LocalType
  OBVIOUS
<1>2. CASE RetriesLeft(r) /\ loc' = [loc EXCEPT ![r].retry = @ + 1]
  <2> DEFINE n == loc[r].retry + 1
             l == [loc[r] EXCEPT !.retry = n]
  <2>1. loc' = [loc EXCEPT ![r] = l]
    BY <1>2
  <2>2. n \in 0 .. RetryTimes
    BY <1>1, <1>2, ConstantsAssumption DEF LocalType, RetriesLeft
  <2> HIDE DEF n
  <2>3. l \in LocalType /\ l.turns = loc[r].turns
    BY <1>1, <2>2 DEF LocalType
  <2> QED BY <2>1, <2>3
<1>3. ASSUME NEW g \in loc[r].group + 1 .. AutoGroups,
             loc' = [loc EXCEPT ![r] = [@ EXCEPT !.retry = 0, !.group = g]]
      PROVE  \E l \in LocalType : loc' = [loc EXCEPT ![r] = l] /\ l.turns = loc[r].turns
  <2> DEFINE l == [loc[r] EXCEPT !.retry = 0, !.group = g]
  <2>1. loc' = [loc EXCEPT ![r] = l]
    BY <1>3
  <2>2. g \in 1 .. AutoGroups /\ 0 \in 0 .. RetryTimes
    BY <1>1, ConstantsAssumption DEF LocalType
  <2>3. l \in LocalType /\ l.turns = loc[r].turns
    BY <1>1, <2>2 DEF LocalType
  <2> QED BY <2>1, <2>3
<1> QED BY <1>2, <1>3 DEF TryNext

(* The invariant survives answering or retrying a refused request. *)
LEMMA L_Refused ==
  ASSUME IInv, NEW r \in Requests, Refused(r)
  PROVE  IInv'
<1>1. Inv1(pc[r], prof[r], sess[r], row[r], debit[r], bg[r], loc[r]) /\ pc[r] = "refused"
  BY DEF IInv, Refused
<1>2. CountersOK
  BY SameCounters DEF Refused
<1>3. loc[r] \in LocalType
  BY <1>1 DEF Inv1, Type1
<1>4. CASE Goto(r, "rejected") /\ UNCHANGED loc
  <2>1. Becomes(r, "rejected", sess[r], row[r], debit[r], bg[r], loc[r])
    BY <1>4 DEF Refused, Becomes, Goto, IInv, TypeOK
  <2>2. Safe1("rejected", prof[r], sess[r], row[r], debit[r], bg[r], loc[r])
    BY <1>1 DEF Inv1, Type1, Safe1, Minted1, BgAfterFailure, Consistent, WalletHeld,
         SubscriptionHeld, TokenHeld, HoldPoints, NoSessionPoints
  <2>3. "rejected" \in Points
    BY DEF Points, Finals
  <2> QED BY <1>2, <1>3, <2>1, <2>2, <2>3, LocalStep
<1>5. CASE TryNext(r) /\ Goto(r, "start")
  <2>1. PICK l \in LocalType : loc' = [loc EXCEPT ![r] = l]
    BY <1>5, TryNextLocal DEF IInv, TypeOK
  <2>2. Becomes(r, "start", sess[r], row[r], debit[r], bg[r], l)
    BY <1>5, <2>1 DEF Refused, Becomes, Goto, IInv, TypeOK
  <2>3. Safe1("start", prof[r], sess[r], row[r], debit[r], bg[r], l)
    BY <1>1 DEF Inv1, Type1, Safe1, Minted1, BgAfterFailure, Consistent, WalletHeld,
         SubscriptionHeld, TokenHeld, HoldPoints, NoSessionPoints
  <2>4. "start" \in Points
    BY DEF Points
  <2> QED BY <1>2, <2>2, <2>3, <2>4, LocalStep
<1> QED BY <1>4, <1>5 DEF Refused

(* The invariant survives another upstream attempt. *)
LEMMA L_RetryUpstream ==
  ASSUME IInv, NEW r \in Requests, RetryUpstream(r)
  PROVE  IInv'
<1>1. Inv1(pc[r], prof[r], sess[r], row[r], debit[r], bg[r], loc[r]) /\ pc[r] = "serve"
  BY DEF IInv, RetryUpstream
<1>2. CountersOK
  BY SameCounters DEF RetryUpstream
<1>3. PICK l \in LocalType : loc' = [loc EXCEPT ![r] = l]
  BY TryNextLocal DEF RetryUpstream, IInv, TypeOK
<1>4. Becomes(r, "serve", sess[r], row[r], debit[r], bg[r], l)
  BY <1>1, <1>3 DEF RetryUpstream, Becomes, IInv, TypeOK
<1>5. Safe1("serve", prof[r], sess[r], row[r], debit[r], bg[r], l)
  BY <1>1 DEF Inv1, Type1, Safe1, Minted1, BgAfterFailure, Consistent, WalletHeld,
       SubscriptionHeld, TokenHeld, HoldPoints, NoSessionPoints
<1>6. "serve" \in Points
  BY DEF Points
<1> QED BY <1>2, <1>4, <1>5, <1>6, LocalStep

(* The invariant survives the failure of the upstream. *)
LEMMA L_UpstreamFails ==
  ASSUME IInv, NEW r \in Requests, UpstreamFails(r)
  PROVE  IInv'
<1>1. Inv1(pc[r], prof[r], sess[r], row[r], debit[r], bg[r], loc[r]) /\ pc[r] = "serve"
  BY DEF IInv, UpstreamFails
<1>2. CountersOK
  BY SameCounters DEF UpstreamFails
<1>3. PICK fee \in BOOLEAN : loc' = [loc EXCEPT ![r] = [@ EXCEPT !.fee = fee, !.tries = 0]]
  BY DEF UpstreamFails
<1> DEFINE l == [loc[r] EXCEPT !.fee = fee, !.tries = 0]
<1>4. Becomes(r, "fail", sess[r], row[r], debit[r], bg[r], l)
  BY <1>3 DEF UpstreamFails, Goto, Becomes, IInv, TypeOK
<1>5. l \in LocalType
  <2>1. loc[r] \in LocalType /\ 0 \in 0 .. MaxAttempts - 1
    BY <1>1 DEF Inv1, Type1, MaxAttempts
  <2> QED BY <1>3, <2>1 DEF LocalType
<1> HIDE DEF l
<1>6. Safe1("fail", prof[r], sess[r], row[r], debit[r], bg[r], l)
  BY <1>1 DEF Inv1, Type1, Safe1, Minted1, BgAfterFailure, Consistent, WalletHeld,
       SubscriptionHeld, TokenHeld, HoldPoints, NoSessionPoints
<1>7. "fail" \in Points
  BY DEF Points
<1> QED BY <1>2, <1>4, <1>5, <1>6, <1>7, LocalStep

(* The invariant survives the end of a served request. *)
LEMMA L_UpstreamSucceeds ==
  ASSUME IInv, NEW r \in Requests, UpstreamSucceeds(r)
  PROVE  IInv'
<1>1. Inv1(pc[r], prof[r], sess[r], row[r], debit[r], bg[r], loc[r]) /\ pc[r] = "serve"
  BY DEF IInv, UpstreamSucceeds
<1>2. CountersOK
  BY SameCounters DEF UpstreamSucceeds
<1>3. loc[r] \in LocalType
  BY <1>1 DEF Inv1, Type1
<1>4. CASE sess[r].source = "none"
  <2>1. PICK u \in Usages, p \in {"ok", "post_funding"} :
          /\ loc' = [loc EXCEPT ![r] = [@ EXCEPT !.usage = u, !.post = u, !.next = "ok"]]
          /\ Goto(r, p)
    BY <1>4 DEF UpstreamSucceeds
  <2> DEFINE l == [loc[r] EXCEPT !.usage = u, !.post = u, !.next = "ok"]
  <2>2. Becomes(r, p, sess[r], row[r], debit[r], bg[r], l)
    BY <2>1 DEF UpstreamSucceeds, Goto, Becomes, IInv, TypeOK
  <2>3. u \in Nat
    BY <2>1, ConstantsAssumption
  <2>4. l \in LocalType
    BY <1>3, <2>3 DEF LocalType
  <2> HIDE DEF l
  <2>5. Safe1(p, prof[r], sess[r], row[r], debit[r], bg[r], l)
    BY <1>1, <1>4, <2>1 DEF Inv1, Type1, Safe1, Minted1, BgAfterFailure, Consistent, WalletHeld,
         SubscriptionHeld, TokenHeld, HoldPoints, NoSessionPoints
  <2>6. p \in Points
    BY <2>1 DEF Points, Finals
  <2> QED BY <1>2, <2>2, <2>4, <2>5, <2>6, LocalStep
<1>5. CASE sess[r].source # "none"
  <2>1. PICK u \in Usages, p \in {"zero_refund", "settle"} :
          /\ loc' = [loc EXCEPT ![r] = [@ EXCEPT !.usage = u, !.tries = 0]]
          /\ Goto(r, p)
    BY <1>5 DEF UpstreamSucceeds
  <2> DEFINE l == [loc[r] EXCEPT !.usage = u, !.tries = 0]
  <2>2. Becomes(r, p, sess[r], row[r], debit[r], bg[r], l)
    BY <2>1 DEF UpstreamSucceeds, Goto, Becomes, IInv, TypeOK
  <2>3. u \in Nat
    BY <2>1, ConstantsAssumption
  <2>4. l \in LocalType
    <3>1. 0 \in 0 .. MaxAttempts - 1
      BY DEF MaxAttempts
    <3> QED BY <1>3, <2>3, <3>1 DEF LocalType
  <2> HIDE DEF l
  <2>5. Safe1(p, prof[r], sess[r], row[r], debit[r], bg[r], l)
    BY <1>1, <1>5, <2>1 DEF Inv1, Type1, Safe1, Minted1, BgAfterFailure, Consistent, WalletHeld,
         SubscriptionHeld, TokenHeld, HoldPoints, NoSessionPoints
  <2>6. p \in Points
    BY <2>1 DEF Points
  <2> QED BY <1>2, <2>2, <2>4, <2>5, <2>6, LocalStep
<1> QED BY <1>4, <1>5

(* A realtime turn keeps the local variables in their ranges and comes back to "serve". *)
LEMMA CountTurnLocal ==
  ASSUME NEW l \in LocalType, NEW u \in Nat
  PROVE  CountTurn(l, u) \in LocalType /\ CountTurn(l, u).next = "serve"
<1> DEFINE n == l.turns + 1
           v == l.usage + u
<1>1. n \in Nat /\ v \in Nat
  BY DEF LocalType
<1>2. CountTurn(l, u) = [l EXCEPT !.turns = n, !.usage = v, !.post = u, !.next = "serve"]
  BY DEF CountTurn
<1> HIDE DEF n, v
<1>3. /\ [l EXCEPT !.turns = n, !.usage = v, !.post = u, !.next = "serve"] \in LocalType
      /\ [l EXCEPT !.turns = n, !.usage = v, !.post = u, !.next = "serve"].next = "serve"
  BY <1>1 DEF LocalType
<1> QED BY <1>2, <1>3

(* The invariant survives a realtime turn. *)
LEMMA L_Turn ==
  ASSUME IInv, NEW r \in Requests, Turn(r)
  PROVE  IInv'
<1>1. Inv1(pc[r], prof[r], sess[r], row[r], debit[r], bg[r], loc[r]) /\ pc[r] = "serve"
  BY DEF IInv, Turn
<1>2. CountersOK
  <2>1. CASE UNCHANGED <<faulted, faults>>
    BY <2>1, SameCounters DEF Turn
  <2>2. ASSUME NEW o, Call(r, o) PROVE CountersOK
    BY <2>2, CallCounters DEF IInv, Turn
  <2> QED BY <2>1, <2>2 DEF Turn
<1>3. \/ (UNCHANGED pc \/ Goto(r, "ok")) /\ loc' = [loc EXCEPT ![r].turns = @ + 1]
      \/ \E u \in Usages : loc' = [loc EXCEPT ![r] = CountTurn(@, u)] /\ Goto(r, "post_funding")
  BY DEF Turn
<1>4. loc[r] \in LocalType
  BY <1>1 DEF Inv1, Type1
<1>5. ASSUME NEW p \in {"serve", "ok"}, pc' = [pc EXCEPT ![r] = p],
             loc' = [loc EXCEPT ![r].turns = @ + 1]
      PROVE  IInv'
  <2> DEFINE n == loc[r].turns + 1
             l == [loc[r] EXCEPT !.turns = n]
  <2>1. Becomes(r, p, sess[r], row[r], debit[r], bg[r], l)
    BY <1>5 DEF Turn, Becomes, IInv, TypeOK
  <2>2. n \in Nat
    BY <1>4 DEF LocalType
  <2> HIDE DEF n
  <2>3. l \in LocalType
    BY <1>4, <2>2 DEF LocalType
  <2> HIDE DEF l
  <2>4. Safe1(p, prof[r], sess[r], row[r], debit[r], bg[r], l)
    BY <1>1 DEF Inv1, Type1, Safe1, Minted1, BgAfterFailure, Consistent, WalletHeld,
         SubscriptionHeld, TokenHeld, HoldPoints, NoSessionPoints
  <2>5. p \in Points
    BY DEF Points, Finals
  <2> QED BY <1>2, <2>1, <2>3, <2>4, <2>5, LocalStep
<1>6. ASSUME NEW u \in Usages, loc' = [loc EXCEPT ![r] = CountTurn(@, u)], Goto(r, "post_funding")
      PROVE  IInv'
  <2> DEFINE l == CountTurn(loc[r], u)
  <2>1. Becomes(r, "post_funding", sess[r], row[r], debit[r], bg[r], l)
    BY <1>6 DEF Turn, Goto, Becomes, IInv, TypeOK
  <2>2. u \in Nat
    BY ConstantsAssumption
  <2>4. l \in LocalType /\ l.next = "serve"
    BY <1>4, <2>2, CountTurnLocal
  <2> HIDE DEF l
  <2>5. Safe1("post_funding", prof[r], sess[r], row[r], debit[r], bg[r], l)
    BY <1>1, <2>4 DEF Inv1, Type1, Safe1, Minted1, BgAfterFailure, Consistent, WalletHeld,
         SubscriptionHeld, TokenHeld, HoldPoints, NoSessionPoints
  <2>6. "post_funding" \in Points
    BY DEF Points
  <2> QED BY <1>2, <2>1, <2>4, <2>5, <2>6, LocalStep
<1>7. UNCHANGED pc => pc' = [pc EXCEPT ![r] = "serve"]
  BY <1>1 DEF IInv, TypeOK
<1> QED BY <1>3, <1>5, <1>6, <1>7 DEF Goto

(* The invariant survives the end of a realtime connection. *)
LEMMA L_EndRealtime ==
  ASSUME IInv, NEW r \in Requests, EndRealtime(r)
  PROVE  IInv'
<1>1. Inv1(pc[r], prof[r], sess[r], row[r], debit[r], bg[r], loc[r]) /\ pc[r] = "serve"
  BY DEF IInv, EndRealtime
<1>2. CountersOK
  BY SameCounters DEF EndRealtime
<1>3. Becomes(r, "ok", sess[r], row[r], debit[r], bg[r], loc[r])
  BY DEF EndRealtime, Goto, Becomes, IInv, TypeOK
<1>4. Safe1("ok", prof[r], sess[r], row[r], debit[r], bg[r], loc[r])
  BY <1>1 DEF Inv1, Type1, Safe1, Minted1, BgAfterFailure, Consistent, WalletHeld,
       SubscriptionHeld, TokenHeld, HoldPoints, NoSessionPoints
<1>5. "ok" \in Points /\ loc[r] \in LocalType
  BY <1>1 DEF Points, Finals, Inv1, Type1
<1> QED BY <1>2, <1>3, <1>4, <1>5, LocalStep

(* The invariant survives starting a refund. *)
LEMMA L_Refund ==
  ASSUME IInv, NEW r \in Requests, Refund(r)
  PROVE  IInv'
<1>1. Inv1(pc[r], prof[r], sess[r], row[r], debit[r], bg[r], loc[r]) /\ pc[r] = "fail"
  BY DEF IInv, Refund
<1>2. CountersOK
  BY SameCounters DEF Refund
<1>3. bg[r] = "idle"
  BY <1>1 DEF Inv1, Safe1, BgAfterFailure
<1>4. PICK l \in LocalType, p \in {"failed", "post_funding"} :
        /\ loc' = [loc EXCEPT ![r] = l] /\ pc' = [pc EXCEPT ![r] = p]
        /\ p = "post_funding" => l.next = "failed"
  <2>1. loc[r] \in LocalType /\ loc \in [Requests -> LocalType]
    BY DEF IInv, TypeOK
  <2>2. CASE loc[r].fee
    <3> DEFINE l == [loc[r] EXCEPT !.post = ViolationFee, !.next = "failed"]
    <3>1. loc' = [loc EXCEPT ![r] = l] /\ pc' = [pc EXCEPT ![r] = "post_funding"]
      BY <2>1, <2>2 DEF Refund, Goto
    <3>2. l \in LocalType /\ l.next = "failed"
      BY <2>1, ConstantsAssumption DEF LocalType
    <3> HIDE DEF l
    <3> QED BY <3>1, <3>2
  <2>3. CASE ~ loc[r].fee
    <3>1. loc' = [loc EXCEPT ![r] = loc[r]] /\ pc' = [pc EXCEPT ![r] = "failed"]
      BY <2>1, <2>3 DEF Refund, Goto
    <3> QED BY <2>1, <3>1
  <2> QED BY <2>2, <2>3
<1>5. CASE NeedsRefund(r)
  <2> DEFINE s == [sess[r] EXCEPT !.refunded = TRUE]
  <2>1. Becomes(r, p, s, row[r], debit[r], "funding", l)
    BY <1>4, <1>5 DEF Refund, Becomes, IInv, TypeOK
  <2>2. s \in SessionType /\ s.source = sess[r].source /\ s.pre = sess[r].pre
        /\ s.consumed = sess[r].consumed /\ s.tok = sess[r].tok
    BY <1>1 DEF Inv1, Type1, SessionType
  <2> HIDE DEF s
  <2>3. Type1(p, prof[r], s, row[r], debit[r], "funding", l)
    BY <1>1, <1>4, <2>2 DEF Inv1, Type1, Points, Finals, BgPoints
  <2>4. Safe1(p, prof[r], s, row[r], debit[r], "funding", l)
    BY <1>1, <1>3, <1>4, <2>2 DEF Inv1, Type1, Safe1, Minted1, BgAfterFailure, Consistent,
         WalletHeld, SubscriptionHeld, TokenHeld, HoldPoints, NoSessionPoints
  <2> QED BY <1>2, <2>1, <2>3, <2>4, StepFrame DEF Inv1
<1>6. CASE ~ NeedsRefund(r)
  <2>1. Becomes(r, p, sess[r], row[r], debit[r], bg[r], l)
    BY <1>4, <1>6 DEF Refund, Becomes, IInv, TypeOK
  <2>2. Safe1(p, prof[r], sess[r], row[r], debit[r], bg[r], l)
    BY <1>1, <1>3, <1>4 DEF Inv1, Type1, Safe1, Minted1, BgAfterFailure, Consistent, WalletHeld,
         SubscriptionHeld, TokenHeld, HoldPoints, NoSessionPoints
  <2>3. p \in Points
    BY <1>4 DEF Points, Finals
  <2> QED BY <1>2, <1>4, <2>1, <2>2, <2>3, LocalStep
<1> QED BY <1>5, <1>6

(* Taking from one account leaves the other debits alone. *)
LEMMA TakeToken1 ==
  ASSUME IInv, NEW r \in Requests, NEW n \in Int, TakeToken(r, n)
  PROVE  \E d \in DebitType :
           /\ debit' = [debit EXCEPT ![r] = d]
           /\ d.token = debit[r].token + n /\ d.wallet = debit[r].wallet
           /\ d.amt = debit[r].amt /\ d.cnt = debit[r].cnt
<1> DEFINE d == [debit[r] EXCEPT !.token = @ + n]
<1>1. debit \in [Requests -> DebitType] /\ debit[r] \in DebitType
  BY DEF IInv, TypeOK
<1>2. debit' = [debit EXCEPT ![r] = d]
  BY <1>1 DEF TakeToken
<1>3. /\ d \in DebitType
      /\ d.token = debit[r].token + n /\ d.wallet = debit[r].wallet
      /\ d.amt = debit[r].amt /\ d.cnt = debit[r].cnt
  BY <1>1 DEF DebitType
<1> HIDE DEF d
<1> QED BY <1>2, <1>3

(* Charging the funding source touches the wallet or the amount only. *)
LEMMA TakeFunding1 ==
  ASSUME IInv, NEW r \in Requests, NEW n \in Int, NEW o, TakeFunding(r, n, o)
  PROVE  \E d \in DebitType :
           /\ debit' = [debit EXCEPT ![r] = d]
           /\ d.token = debit[r].token /\ d.cnt = debit[r].cnt
           /\ \/ d.wallet = debit[r].wallet /\ d.amt = debit[r].amt
              \/ /\ sess[r].source = "subscription"
                 /\ d.amt = debit[r].amt + n /\ d.wallet = debit[r].wallet
              \/ /\ sess[r].source # "subscription"
                 /\ d.wallet = debit[r].wallet + n /\ d.amt = debit[r].amt
<1>1. debit \in [Requests -> DebitType] /\ debit[r] \in DebitType
  BY DEF IInv, TypeOK
<1>2. CASE UNCHANGED debit
  <2>1. debit' = [debit EXCEPT ![r] = debit[r]]
    BY <1>1, <1>2
  <2> QED BY <1>1, <2>1
<1>3. CASE sess[r].source = "subscription" /\ TakeAmount(r, n)
  <2> DEFINE d == [debit[r] EXCEPT !.amt = @ + n]
  <2>1. debit' = [debit EXCEPT ![r] = d]
    BY <1>1, <1>3 DEF TakeAmount
  <2>2. /\ d \in DebitType
        /\ d.amt = debit[r].amt + n /\ d.wallet = debit[r].wallet
        /\ d.token = debit[r].token /\ d.cnt = debit[r].cnt
    BY <1>1 DEF DebitType
  <2> HIDE DEF d
  <2> QED BY <1>3, <2>1, <2>2
<1>4. CASE sess[r].source # "subscription" /\ TakeWallet(r, n)
  <2> DEFINE d == [debit[r] EXCEPT !.wallet = @ + n]
  <2>1. debit' = [debit EXCEPT ![r] = d]
    BY <1>1, <1>4 DEF TakeWallet
  <2>2. /\ d \in DebitType
        /\ d.wallet = debit[r].wallet + n /\ d.amt = debit[r].amt
        /\ d.token = debit[r].token /\ d.cnt = debit[r].cnt
    BY <1>1 DEF DebitType
  <2> HIDE DEF d
  <2> QED BY <1>4, <2>1, <2>2
<1> QED BY <1>2, <1>3, <1>4 DEF TakeFunding

(* The invariant survives PostConsumeQuota on the funding source. *)
LEMMA L_PostFunding ==
  ASSUME IInv, NEW r \in Requests, PostFunding(r)
  PROVE  IInv'
<1>1. Inv1(pc[r], prof[r], sess[r], row[r], debit[r], bg[r], loc[r]) /\ pc[r] = "post_funding"
  BY DEF IInv, PostFunding
<1>2. PICK o \in Outcomes : Call(r, o) /\ TakeFunding(r, loc[r].post, o)
  BY DEF PostFunding
<1>3. CountersOK
  BY <1>2, CallCounters DEF IInv, PostFunding
<1>4. loc[r].post \in Nat /\ loc[r].next \in {"ok", "serve", "failed"}
  BY <1>1 DEF Inv1, Type1, LocalType
<1>5. PICK p \in {AfterError(loc[r].next), "post_token"} : Goto(r, p)
  BY DEF PostFunding
<1>6. PICK d \in DebitType :
           /\ debit' = [debit EXCEPT ![r] = d]
           /\ d.token = debit[r].token /\ d.cnt = debit[r].cnt
           /\ \/ d.wallet = debit[r].wallet /\ d.amt = debit[r].amt
              \/ /\ sess[r].source = "subscription"
                 /\ d.amt = debit[r].amt + loc[r].post /\ d.wallet = debit[r].wallet
              \/ /\ sess[r].source # "subscription"
                 /\ d.wallet = debit[r].wallet + loc[r].post /\ d.amt = debit[r].amt
  BY <1>2, <1>4, TakeFunding1
<1>7. debit[r].wallet \in Int /\ debit[r].amt \in Int
  BY <1>1 DEF Inv1, Type1, DebitType
<1>8. d.wallet >= debit[r].wallet /\ d.amt >= debit[r].amt /\ d.wallet \in Int /\ d.amt \in Int
  BY <1>4, <1>6, <1>7
<1>9. Becomes(r, p, sess[r], row[r], d, bg[r], loc[r])
  BY <1>5, <1>6 DEF PostFunding, Goto, Becomes, IInv, TypeOK
<1>10. p \in {"settle_error", "ok", "failed", "post_token"} /\ (loc[r].next = "failed" => p \in {"failed", "post_token"})
  BY <1>4, <1>5 DEF AfterError
<1>11. Type1(p, prof[r], sess[r], row[r], d, bg[r], loc[r])
  BY <1>1, <1>6, <1>10 DEF Inv1, Type1, Points, Finals
<1>12. sess[r].consumed \in Nat /\ row[r].amt \in Nat
  BY <1>1 DEF Inv1, Type1, SessionType, RowType
<1>13. Safe1(p, prof[r], sess[r], row[r], d, bg[r], loc[r])
  <2>1. Minted1(d)
    BY <1>1, <1>6, <1>7, <1>8 DEF Inv1, Safe1, Minted1
  <2>2. WalletHeld(p, sess[r], d, bg[r]) /\ SubscriptionHeld(p, row[r], d, bg[r])
    BY <1>1, <1>6, <1>7, <1>8, <1>10, <1>12 DEF Inv1, Safe1, WalletHeld, SubscriptionHeld,
         HoldPoints, NoSessionPoints
  <2>3. TokenHeld(p, prof[r], sess[r], d, bg[r])
    BY <1>1, <1>6, <1>10 DEF Inv1, Safe1, TokenHeld, HoldPoints
  <2>4. BgAfterFailure(p, bg[r], loc[r]) /\ Consistent(p, sess[r], row[r], loc[r])
    BY <1>1, <1>4, <1>10 DEF Inv1, Safe1, BgAfterFailure, Consistent, HoldPoints, NoSessionPoints
  <2> QED BY <2>1, <2>2, <2>3, <2>4 DEF Safe1
<1> QED BY <1>3, <1>9, <1>11, <1>13, StepFrame DEF Inv1

(* The invariant survives PostConsumeQuota on the token. *)
LEMMA L_PostToken ==
  ASSUME IInv, NEW r \in Requests, PostToken(r)
  PROVE  IInv'
<1>1. Inv1(pc[r], prof[r], sess[r], row[r], debit[r], bg[r], loc[r]) /\ pc[r] = "post_token"
  BY DEF IInv, PostToken
<1>2. PICK o \in Outcomes : Call(r, o)
  BY DEF PostToken
<1>3. CountersOK
  BY <1>2, CallCounters DEF IInv, PostToken
<1>4. loc[r].post \in Nat /\ loc[r].next \in {"ok", "serve", "failed"}
  BY <1>1 DEF Inv1, Type1, LocalType
<1>5. PICK p \in {loc[r].next, AfterError(loc[r].next)} : Goto(r, p)
  BY DEF PostToken
<1>6. debit[r] \in DebitType /\ debit \in [Requests -> DebitType]
  BY DEF IInv, TypeOK
<1>7. PICK d \in DebitType :
           /\ debit' = [debit EXCEPT ![r] = d]
           /\ d.token >= debit[r].token /\ d.wallet = debit[r].wallet
           /\ d.amt = debit[r].amt /\ d.cnt = debit[r].cnt
  <2>1. CASE UNCHANGED debit
    <3>1. debit' = [debit EXCEPT ![r] = debit[r]] /\ debit[r].token >= debit[r].token
      BY <1>6, <2>1 DEF DebitType
    <3> QED BY <1>6, <3>1
  <2>2. CASE \E n \in {0, loc[r].post} : TakeToken(r, n)
    <3>1. PICK n \in {0, loc[r].post} : TakeToken(r, n)
      BY <2>2
    <3>2. n \in Nat
      BY <1>4, <3>1
    <3>3. PICK d \in DebitType :
           /\ debit' = [debit EXCEPT ![r] = d]
           /\ d.token = debit[r].token + n /\ d.wallet = debit[r].wallet
           /\ d.amt = debit[r].amt /\ d.cnt = debit[r].cnt
      BY <3>1, <3>2, TakeToken1
    <3>4. d.token >= debit[r].token
      BY <1>6, <3>2, <3>3 DEF DebitType
    <3> QED BY <3>3, <3>4
  <2> QED BY <2>1, <2>2 DEF PostToken
<1>8. Becomes(r, p, sess[r], row[r], d, bg[r], loc[r])
  BY <1>5, <1>7 DEF PostToken, Goto, Becomes, IInv, TypeOK
<1>9. /\ p \in {"settle_error", "ok", "failed", "serve"}
      /\ loc[r].next = "failed" => p = "failed"
      /\ p = "serve" => loc[r].next = "serve"
  BY <1>4, <1>5 DEF AfterError
<1>10. Type1(p, prof[r], sess[r], row[r], d, bg[r], loc[r])
  BY <1>1, <1>7, <1>9 DEF Inv1, Type1, Points, Finals
<1>11. sess[r].tok \in Nat /\ debit[r].token \in Int /\ d.token \in Int
  BY <1>1, <1>7 DEF Inv1, Type1, SessionType, DebitType
<1>12. Safe1(p, prof[r], sess[r], row[r], d, bg[r], loc[r])
  <2>1. Minted1(d) /\ WalletHeld(p, sess[r], d, bg[r]) /\ SubscriptionHeld(p, row[r], d, bg[r])
    BY <1>1, <1>7, <1>9, <1>11 DEF Inv1, Safe1, Minted1, WalletHeld, SubscriptionHeld,
         HoldPoints, NoSessionPoints
  <2>2. TokenHeld(p, prof[r], sess[r], d, bg[r])
    BY <1>1, <1>7, <1>9, <1>11 DEF Inv1, Safe1, TokenHeld, HoldPoints
  <2>3. BgAfterFailure(p, bg[r], loc[r]) /\ Consistent(p, sess[r], row[r], loc[r])
    BY <1>1, <1>4, <1>9 DEF Inv1, Safe1, BgAfterFailure, Consistent, HoldPoints, NoSessionPoints
  <2> QED BY <2>1, <2>2, <2>3 DEF Safe1
<1> QED BY <1>3, <1>8, <1>10, <1>12, StepFrame DEF Inv1

(* The invariant survives settling the funding source. *)
LEMMA L_SettleFunding ==
  ASSUME IInv, NEW r \in Requests, SettleFunding(r)
  PROVE  IInv'
<1> DEFINE n == SettleDelta(r, loc[r].usage)
<1>1. Inv1(pc[r], prof[r], sess[r], row[r], debit[r], bg[r], loc[r]) /\ pc[r] = "settle"
  BY DEF IInv, SettleFunding
<1>2. PICK o \in Outcomes :
        /\ Call(r, o) /\ TakeFunding(r, n, o)
        /\ \/ Goto(r, "settle_error") /\ UNCHANGED sess
           \/ Goto(r, "settle_token") /\ CommitFunding(r)
  BY DEF SettleFunding
<1>3. CountersOK
  BY <1>2, CallCounters DEF IInv, SettleFunding
<1>4. /\ loc[r].usage \in Nat /\ sess[r].pre \in Nat /\ row[r].amt \in Nat
      /\ debit[r].wallet \in Int /\ debit[r].amt \in Int /\ sess[r] \in SessionType
  BY <1>1 DEF Inv1, Type1, LocalType, SessionType, RowType, DebitType
<1>5. bg[r] = "idle"
  BY <1>1 DEF Inv1, Safe1, BgAfterFailure
<1>6. /\ n \in Int
      /\ sess[r].source # "subscription" => debit[r].wallet + n >= 0
      /\ sess[r].source = "subscription" => debit[r].amt + n >= 0
  <2>1. CASE sess[r].source = "subscription" /\ SubAmountTotal = 0
    <3>1. n = 0
      BY <2>1 DEF SettleDelta
    <3> HIDE DEF n
    <3> QED BY <1>1, <1>4, <2>1, <3>1 DEF Inv1, Safe1, Minted1
  <2>2. CASE sess[r].source = "subscription" /\ SubAmountTotal # 0
    <3>1. n = loc[r].usage - sess[r].pre
      BY <2>2 DEF SettleDelta
    <3>2. SubAmountTotal > 0
      BY <2>2, ConstantsAssumption
    <3>3. sess[r].pre = row[r].amt /\ debit[r].amt >= row[r].amt
      BY <1>1, <1>5, <2>2, <3>2 DEF Inv1, Safe1, Consistent, SubscriptionHeld, HoldPoints
    <3> HIDE DEF n
    <3> QED BY <1>4, <2>2, <3>1, <3>3
  <2>3. CASE sess[r].source # "subscription"
    <3>1. n = loc[r].usage - sess[r].pre
      BY <2>3 DEF SettleDelta
    <3>2. sess[r].source = "wallet"
      BY <1>1, <1>4, <2>3 DEF Inv1, Safe1, Consistent, SessionType
    <3>3. debit[r].wallet >= sess[r].pre
      BY <1>1, <1>5, <3>2 DEF Inv1, Safe1, Consistent, WalletHeld, HoldPoints
    <3> HIDE DEF n
    <3> QED BY <1>4, <2>3, <3>1, <3>3
  <2> QED BY <2>1, <2>2, <2>3
<1> HIDE DEF n
<1>7. PICK d \in DebitType :
           /\ debit' = [debit EXCEPT ![r] = d]
           /\ d.token = debit[r].token /\ d.cnt = debit[r].cnt
           /\ \/ d.wallet = debit[r].wallet /\ d.amt = debit[r].amt
              \/ /\ sess[r].source = "subscription"
                 /\ d.amt = debit[r].amt + n /\ d.wallet = debit[r].wallet
              \/ /\ sess[r].source # "subscription"
                 /\ d.wallet = debit[r].wallet + n /\ d.amt = debit[r].amt
  BY <1>2, <1>6, TakeFunding1
<1>8. Minted1(d)
  BY <1>1, <1>6, <1>7 DEF Inv1, Safe1, Minted1
<1>9. PICK s \in SessionType, p \in {"settle_error", "settle_token"} :
        /\ sess' = [sess EXCEPT ![r] = s] /\ Goto(r, p)
        /\ s.source = sess[r].source /\ s.tok = sess[r].tok
  <2>1. sess \in [Requests -> SessionType]
    BY DEF IInv, TypeOK
  <2>2. CASE Goto(r, "settle_error") /\ UNCHANGED sess
    <3>1. sess' = [sess EXCEPT ![r] = sess[r]]
      BY <2>1, <2>2
    <3> QED BY <1>4, <2>2, <3>1
  <2>3. CASE Goto(r, "settle_token") /\ CommitFunding(r)
    <3> DEFINE s == [sess[r] EXCEPT !.fundingSettled = TRUE]
    <3>1. sess' = [sess EXCEPT ![r] = s]
      BY <2>1, <2>3 DEF CommitFunding
    <3>2. s \in SessionType /\ s.source = sess[r].source /\ s.tok = sess[r].tok
      BY <1>4 DEF SessionType
    <3> HIDE DEF s
    <3> QED BY <2>3, <3>1, <3>2
  <2> QED BY <1>2, <2>2, <2>3
<1>10. Becomes(r, p, s, row[r], d, bg[r], loc[r])
  BY <1>7, <1>9 DEF SettleFunding, Goto, Becomes, IInv, TypeOK
<1>11. Type1(p, prof[r], s, row[r], d, bg[r], loc[r])
  BY <1>1, <1>7, <1>9 DEF Inv1, Type1, Points, Finals
<1>12. Safe1(p, prof[r], s, row[r], d, bg[r], loc[r])
  BY <1>1, <1>5, <1>7, <1>8, <1>9 DEF Inv1, Type1, Safe1, Minted1, BgAfterFailure, Consistent,
       WalletHeld, SubscriptionHeld, TokenHeld, HoldPoints, NoSessionPoints
<1> QED BY <1>3, <1>10, <1>11, <1>12, StepFrame DEF Inv1

(* Moving the token to what it should be charged leaves it charged. *)
LEMMA TokenAdjusted ==
  ASSUME IInv, NEW r \in Requests, NEW n \in Int, debit[r].token + n >= 0,
         \/ TakeToken(r, n)
         \/ TakeToken(r, 0)
         \/ UNCHANGED debit
  PROVE  \E d \in DebitType :
           /\ debit' = [debit EXCEPT ![r] = d] /\ Minted1(d)
           /\ d.wallet = debit[r].wallet /\ d.amt = debit[r].amt /\ d.cnt = debit[r].cnt
<1>1. Inv1(pc[r], prof[r], sess[r], row[r], debit[r], bg[r], loc[r])
  BY DEF IInv
<1>2. debit[r] \in DebitType /\ debit \in [Requests -> DebitType] /\ Minted1(debit[r])
  BY <1>1 DEF IInv, TypeOK, Inv1, Safe1
<1>3. ASSUME NEW m \in Int, TakeToken(r, m), debit[r].token + m >= 0
      PROVE  \E d \in DebitType :
               /\ debit' = [debit EXCEPT ![r] = d] /\ Minted1(d)
               /\ d.wallet = debit[r].wallet /\ d.amt = debit[r].amt /\ d.cnt = debit[r].cnt
  <2>1. PICK d \in DebitType :
           /\ debit' = [debit EXCEPT ![r] = d]
           /\ d.token = debit[r].token + m /\ d.wallet = debit[r].wallet
           /\ d.amt = debit[r].amt /\ d.cnt = debit[r].cnt
    BY <1>3, TakeToken1
  <2>2. Minted1(d)
    BY <1>2, <1>3, <2>1 DEF Minted1
  <2> QED BY <2>1, <2>2
<1>4. CASE TakeToken(r, n)
  BY <1>3, <1>4
<1>5. CASE TakeToken(r, 0)
  <2>1. debit[r].token + 0 >= 0 /\ 0 \in Int
    BY <1>2 DEF Minted1, DebitType
  <2> QED BY <1>3, <1>5, <2>1
<1>6. CASE UNCHANGED debit
  <2>1. debit' = [debit EXCEPT ![r] = debit[r]]
    BY <1>2, <1>6
  <2> QED BY <1>2, <2>1
<1> QED BY <1>4, <1>5, <1>6

(* The invariant survives settling the token. *)
LEMMA L_SettleToken ==
  ASSUME IInv, NEW r \in Requests, SettleToken(r)
  PROVE  IInv'
<1> DEFINE n == loc[r].usage - sess[r].tok
           s == [sess[r] EXCEPT !.settled = TRUE]
<1>1. Inv1(pc[r], prof[r], sess[r], row[r], debit[r], bg[r], loc[r]) /\ pc[r] = "settle_token"
  BY DEF IInv, SettleToken
<1>2. PICK o \in Outcomes : Call(r, o)
  BY DEF SettleToken
<1>3. CountersOK
  BY <1>2, CallCounters DEF IInv, SettleToken
<1>4. loc[r].usage \in Nat /\ sess[r].tok \in Nat /\ debit[r].token \in Int /\ sess[r] \in SessionType
  BY <1>1 DEF Inv1, Type1, LocalType, SessionType, DebitType
<1>5. bg[r] = "idle"
  BY <1>1 DEF Inv1, Safe1, BgAfterFailure
<1>6. PICK d \in DebitType :
           /\ debit' = [debit EXCEPT ![r] = d] /\ Minted1(d)
           /\ d.wallet = debit[r].wallet /\ d.amt = debit[r].amt /\ d.cnt = debit[r].cnt
  <2>1. n \in Int
    BY <1>4
  <2>2. CASE ~ prof[r].playground
    <3>1. debit[r].token >= sess[r].tok
      BY <1>1, <1>5, <2>2 DEF Inv1, Safe1, TokenHeld
    <3>2. debit[r].token + n >= 0
      BY <1>4, <3>1
    <3>3. TakeToken(r, n) \/ TakeToken(r, 0) \/ UNCHANGED debit
      BY DEF SettleToken
    <3> HIDE DEF n
    <3> QED BY <2>1, <3>2, <3>3, TokenAdjusted
  <2>3. CASE prof[r].playground
    <3>1. UNCHANGED debit
      BY <2>3 DEF SettleToken
    <3>2. debit[r].token + 0 >= 0 /\ 0 \in Int
      BY <1>1, <1>4 DEF Inv1, Safe1, Minted1
    <3> QED BY <3>1, <3>2, TokenAdjusted
  <2> QED BY <2>2, <2>3
<1>7. Becomes(r, "ok", s, row[r], d, bg[r], loc[r])
  BY <1>6 DEF SettleToken, Goto, Becomes, IInv, TypeOK
<1>8. s \in SessionType
  BY <1>4 DEF SessionType
<1> HIDE DEF s
<1>9. Type1("ok", prof[r], s, row[r], d, bg[r], loc[r])
  BY <1>1, <1>6, <1>8 DEF Inv1, Type1, Points, Finals
<1>10. Safe1("ok", prof[r], s, row[r], d, bg[r], loc[r])
  BY <1>1, <1>5, <1>6 DEF Inv1, Type1, Safe1, Minted1, BgAfterFailure, Consistent, WalletHeld,
       SubscriptionHeld, TokenHeld, HoldPoints, NoSessionPoints
<1> QED BY <1>3, <1>7, <1>9, <1>10, StepFrame DEF Inv1

(* The invariant survives returning the token's hold of such a request. *)
LEMMA L_ZeroUsageToken ==
  ASSUME IInv, NEW r \in Requests, ZeroUsageToken(r)
  PROVE  IInv'
<1> DEFINE n == - sess[r].tok
<1>1. Inv1(pc[r], prof[r], sess[r], row[r], debit[r], bg[r], loc[r]) /\ pc[r] = "zero_token"
  BY DEF IInv, ZeroUsageToken
<1>2. PICK o \in Outcomes :
        /\ Call(r, o)
        /\ IF UseTokenQuota(r) /\ ~ prof[r].playground /\ sess[r].tok > 0
             THEN TakeToken(r, IF Applied(o) THEN n ELSE 0)
             ELSE o = "ok" /\ UNCHANGED debit
        /\ \/ Goto(r, "settle_error") /\ UNCHANGED sess
           \/ /\ Goto(r, "ok")
              /\ sess' = [sess EXCEPT ![r] = [@ EXCEPT !.pre = 0, !.tok = 0,
                                              !.fundingSettled = TRUE, !.settled = TRUE]]
  BY DEF ZeroUsageToken
<1>3. CountersOK
  BY <1>2, CallCounters DEF IInv, ZeroUsageToken
<1>4. sess[r].tok \in Nat /\ debit[r].token \in Int /\ sess[r] \in SessionType
  BY <1>1 DEF Inv1, Type1, SessionType, DebitType
<1>5. bg[r] = "idle"
  BY <1>1 DEF Inv1, Safe1, BgAfterFailure
<1>6. PICK d \in DebitType :
           /\ debit' = [debit EXCEPT ![r] = d] /\ Minted1(d)
           /\ d.wallet = debit[r].wallet /\ d.amt = debit[r].amt /\ d.cnt = debit[r].cnt
  <2>1. n \in Int
    BY <1>4
  <2>2. CASE ~ prof[r].playground
    <3>1. debit[r].token >= sess[r].tok
      BY <1>1, <1>5, <2>2 DEF Inv1, Safe1, TokenHeld
    <3>2. debit[r].token + n >= 0
      BY <1>4, <3>1
    <3>3. TakeToken(r, n) \/ TakeToken(r, 0) \/ UNCHANGED debit
      BY <1>2
    <3> HIDE DEF n
    <3> QED BY <2>1, <3>2, <3>3, TokenAdjusted
  <2>3. CASE prof[r].playground
    <3>1. UNCHANGED debit
      BY <1>2, <2>3
    <3>2. debit[r].token + 0 >= 0 /\ 0 \in Int
      BY <1>1, <1>4 DEF Inv1, Safe1, Minted1
    <3> QED BY <3>1, <3>2, TokenAdjusted
  <2> QED BY <2>2, <2>3
<1>7. PICK s \in SessionType, p \in {"settle_error", "ok"} :
        sess' = [sess EXCEPT ![r] = s] /\ Goto(r, p)
  <2>1. sess \in [Requests -> SessionType]
    BY DEF IInv, TypeOK
  <2>2. CASE Goto(r, "settle_error") /\ UNCHANGED sess
    <3>1. sess' = [sess EXCEPT ![r] = sess[r]]
      BY <2>1, <2>2
    <3> QED BY <1>4, <2>2, <3>1
  <2>3. CASE /\ Goto(r, "ok")
             /\ sess' = [sess EXCEPT ![r] = [@ EXCEPT !.pre = 0, !.tok = 0,
                                              !.fundingSettled = TRUE, !.settled = TRUE]]
    <3>1. [sess[r] EXCEPT !.pre = 0, !.tok = 0, !.fundingSettled = TRUE, !.settled = TRUE]
            \in SessionType
      BY <1>4 DEF SessionType
    <3> QED BY <2>3, <3>1
  <2> QED BY <1>2, <2>2, <2>3
<1>8. Becomes(r, p, s, row[r], d, bg[r], loc[r])
  BY <1>6, <1>7 DEF ZeroUsageToken, Goto, Becomes, IInv, TypeOK
<1>9. Type1(p, prof[r], s, row[r], d, bg[r], loc[r])
  BY <1>1, <1>6, <1>7 DEF Inv1, Type1, Points, Finals
<1>10. Safe1(p, prof[r], s, row[r], d, bg[r], loc[r])
  BY <1>1, <1>5, <1>6, <1>7 DEF Inv1, Type1, Safe1, Minted1, BgAfterFailure, Consistent,
       WalletHeld, SubscriptionHeld, TokenHeld, HoldPoints, NoSessionPoints
<1> QED BY <1>3, <1>8, <1>9, <1>10, StepFrame DEF Inv1

(* The invariant survives the refund of the token. *)
LEMMA L_BgRefundToken ==
  ASSUME IInv, NEW r \in Requests, BgRefundToken(r)
  PROVE  IInv'
<1> DEFINE n == - sess[r].tok
<1>1. Inv1(pc[r], prof[r], sess[r], row[r], debit[r], bg[r], loc[r]) /\ bg[r] = "token"
  BY DEF IInv, BgRefundToken
<1>2. PICK o \in Outcomes :
        /\ Call(r, o)
        /\ IF sess[r].tok > 0 /\ ~ prof[r].playground
             THEN TakeToken(r, IF Applied(o) THEN n ELSE 0)
             ELSE o = "ok" /\ UNCHANGED debit
  BY DEF BgRefundToken
<1>3. CountersOK
  BY <1>2, CallCounters DEF IInv, BgRefundToken
<1>4. sess[r].tok \in Nat /\ debit[r].token \in Int
  BY <1>1 DEF Inv1, Type1, SessionType, DebitType
<1>5. PICK d \in DebitType :
           /\ debit' = [debit EXCEPT ![r] = d] /\ Minted1(d)
           /\ d.wallet = debit[r].wallet /\ d.amt = debit[r].amt /\ d.cnt = debit[r].cnt
  <2>1. n \in Int
    BY <1>4
  <2>2. CASE ~ prof[r].playground
    <3>1. debit[r].token >= sess[r].tok
      BY <1>1, <2>2 DEF Inv1, Safe1, TokenHeld
    <3>2. debit[r].token + n >= 0
      BY <1>4, <3>1
    <3>3. TakeToken(r, n) \/ TakeToken(r, 0) \/ UNCHANGED debit
      BY <1>2
    <3> HIDE DEF n
    <3> QED BY <2>1, <3>2, <3>3, TokenAdjusted
  <2>3. CASE prof[r].playground
    <3>1. UNCHANGED debit
      BY <1>2, <2>3
    <3>2. debit[r].token + 0 >= 0 /\ 0 \in Int
      BY <1>1, <1>4 DEF Inv1, Safe1, Minted1
    <3> QED BY <3>1, <3>2, TokenAdjusted
  <2> QED BY <2>2, <2>3
<1>6. Becomes(r, pc[r], sess[r], row[r], d, "done", loc[r])
  BY <1>5 DEF BgRefundToken, Becomes, IInv, TypeOK
<1>7. Type1(pc[r], prof[r], sess[r], row[r], d, "done", loc[r])
  BY <1>1, <1>5 DEF Inv1, Type1, BgPoints
<1>8. Safe1(pc[r], prof[r], sess[r], row[r], d, "done", loc[r])
  BY <1>1, <1>5 DEF Inv1, Type1, Safe1, Minted1, BgAfterFailure, Consistent, WalletHeld,
       SubscriptionHeld, TokenHeld, HoldPoints, NoSessionPoints
<1> QED BY <1>3, <1>6, <1>7, <1>8, StepFrame DEF Inv1

(* The invariant survives a crash of the process. *)
LEMMA L_Crash ==
  ASSUME IInv, Crash
  PROVE  IInv'
<1> DEFINE P(r) == IF pc[r] \in Finals \/ NotArrived(r) THEN pc[r] ELSE "lost"
           B(r) == IF bg[r] \in {"funding", "token"} THEN "lost" ELSE bg[r]
<1>1. /\ pc' = [r \in Requests |-> P(r)]
      /\ bg' = [r \in Requests |-> B(r)]
      /\ UNCHANGED <<prof, sess, row, debit, loc, faulted, faults>>
      /\ crashes < MaxCrashes /\ crashes' = crashes + 1
  BY DEF Crash
<1>2. ASSUME NEW r \in Requests
      PROVE  Inv1(P(r), prof[r], sess[r], row[r], debit[r], B(r), loc[r])
  <2>1. Inv1(pc[r], prof[r], sess[r], row[r], debit[r], bg[r], loc[r])
    BY DEF IInv
  <2>2. P(r) \in {pc[r], "lost"} /\ (P(r) # "lost" => pc[r] \in Finals \cup {"start"})
    BY DEF NotArrived
  <2>3. B(r) \in {bg[r], "lost"} /\ B(r) \notin {"funding", "token"} /\ (B(r) = "idle" => bg[r] = "idle")
        /\ (bg[r] = "idle" => B(r) = "idle")
    OBVIOUS
  <2> HIDE DEF P, B
  <2>4. Type1(P(r), prof[r], sess[r], row[r], debit[r], B(r), loc[r])
    BY <2>1, <2>2, <2>3 DEF Inv1, Type1, Points, Finals, BgPoints
  <2>5. Safe1(P(r), prof[r], sess[r], row[r], debit[r], B(r), loc[r])
    BY <2>1, <2>2, <2>3 DEF Inv1, Type1, Safe1, Minted1, BgAfterFailure, Consistent, WalletHeld,
         SubscriptionHeld, TokenHeld, HoldPoints, NoSessionPoints, Finals
  <2> QED BY <2>4, <2>5 DEF Inv1
<1>3. crashes' \in 0 .. MaxCrashes
  BY <1>1, ConstantsAssumption DEF IInv, TypeOK
<1> HIDE DEF P, B
<1>4. pc' \in [Requests -> Points] /\ bg' \in [Requests -> BgPoints]
  BY <1>1, <1>2 DEF Inv1, Type1
<1>5. TypeOK'
  BY <1>1, <1>3, <1>4 DEF IInv, TypeOK, BgPoints
<1>6. ASSUME NEW r \in Requests
      PROVE  Inv1(pc[r], prof[r], sess[r], row[r], debit[r], bg[r], loc[r])'
  <2>1. pc'[r] = P(r) /\ bg'[r] = B(r)
    BY <1>1
  <2> QED BY <1>1, <1>2, <2>1
<1> QED BY <1>5, <1>6 DEF IInv

(* The invariant holds before the first request. *)
LEMMA InitIInv == Init => IInv
<1> SUFFICES ASSUME Init PROVE IInv
  OBVIOUS
<1> DEFINE l0 == [eff |-> 0, tokenTrusted |-> FALSE, usage |-> 0, retry |-> 0, group |-> 1,
                  tries |-> 0, turns |-> 0, fee |-> FALSE, post |-> 0, next |-> "ok"]
           d0 == [wallet |-> 0, token |-> 0, amt |-> 0, cnt |-> 0]
<1>1. l0 \in LocalType
  BY ConstantsAssumption DEF LocalType, MaxAttempts
<1>2. d0 \in DebitType /\ Minted1(d0) /\ NoSession \in SessionType /\ NoRow \in RowType
      /\ NoSession.source = "none" /\ NoSession.tok = 0 /\ NoRow.status = "none"
  BY DEF DebitType, Minted1, NoSession, SessionType, NoRow, RowType
<1>3. /\ prof \in [Requests -> Profiles] /\ pc = [r \in Requests |-> "start"]
      /\ sess = [r \in Requests |-> NoSession] /\ row = [r \in Requests |-> NoRow]
      /\ debit = [r \in Requests |-> d0] /\ bg = [r \in Requests |-> "idle"]
      /\ loc = [r \in Requests |-> l0] /\ faulted = [r \in Requests |-> FALSE]
      /\ faults = 0 /\ crashes = 0
  BY DEF Init
<1>4. d0.token = 0
  OBVIOUS
<1> HIDE DEF l0, d0
<1>5. TypeOK
  BY <1>1, <1>2, <1>3, ConstantsAssumption DEF TypeOK, Points
<1>6. ASSUME NEW r \in Requests
      PROVE  Inv1(pc[r], prof[r], sess[r], row[r], debit[r], bg[r], loc[r])
  <2>1. /\ pc[r] = "start" /\ sess[r] = NoSession /\ row[r] = NoRow /\ debit[r] = d0
        /\ bg[r] = "idle" /\ loc[r] = l0 /\ prof[r] \in Profiles
    BY <1>3
  <2>2. Type1("start", prof[r], NoSession, NoRow, d0, "idle", l0)
    BY <1>1, <1>2, <2>1 DEF Type1, Points, BgPoints
  <2>3. Safe1("start", prof[r], NoSession, NoRow, d0, "idle", l0)
    BY <1>2, <1>4 DEF Safe1, BgAfterFailure, Consistent, WalletHeld, SubscriptionHeld, TokenHeld,
           HoldPoints, NoSessionPoints
  <2> QED BY <2>1, <2>2, <2>3 DEF Inv1
<1> QED BY <1>5, <1>6 DEF IInv

(* Every step of the system preserves the invariant. *)
LEMMA NextIInv == IInv /\ [Next]_vars => IInv'
<1> SUFFICES ASSUME IInv, [Next]_vars PROVE IInv'
  OBVIOUS
<1>1. ASSUME NEW r \in Requests, RequestStep(r) PROVE IInv'
  BY <1>1, L_PreConsumeBilling, L_TryWallet, L_WalletPreConsume, L_SubPreConsume, L_PeriodCheck,
     L_TokenCheck, L_TokenPreConsume, L_RollBack, L_Refused, L_RetryUpstream, L_UpstreamFails,
     L_UpstreamSucceeds, L_Turn, L_EndRealtime, L_PostFunding, L_PostToken, L_SettleFunding,
     L_SettleToken, L_ZeroUsageRefund, L_ZeroUsageToken, L_Refund DEF RequestStep
<1>2. ASSUME NEW r \in Requests, RefundStep(r) PROVE IInv'
  BY <1>2, L_BgRefundFunding, L_BgRefundToken DEF RefundStep
<1>3. CASE UNCHANGED vars
  BY <1>3 DEF vars, IInv, TypeOK, Inv1, Type1, Safe1, Minted1, BgAfterFailure, Consistent,
     WalletHeld, SubscriptionHeld, TokenHeld
<1> QED BY <1>1, <1>2, <1>3, L_Crash DEF Next

(* The inductive invariant holds in every reachable state, for any set of
   requests, any profiles and any bounds. *)
THEOREM SpecIInv == Spec => []IInv
<1>1. Init => IInv
  BY InitIInv
<1>2. IInv /\ [Next]_vars => IInv'
  BY NextIInv
<1> QED BY <1>1, <1>2, PTL DEF Spec

(* Type correctness: sessions, records and goroutines keep their ranges, no
   request is retried more than RetryTimes times in one group of its token (Relay,
   RelayTask) and no refund attempted more than three times (refundWithRetry). *)
THEOREM TypeCorrect == Spec => []TypeOK
<1>1. IInv => TypeOK
  BY DEF IInv
<1> QED BY <1>1, SpecIInv, PTL

(* No sequence of settle, rollback, refund, retry, failed call and crash ever
   gives a request back more than it took, from any of the four balances
   (Settle, Refund, preConsume's rollback and RefundSubscriptionPreConsume). *)
THEOREM QuotaNeverMinted == Spec => []NoQuotaMinted
<1>1. IInv => NoQuotaMinted
  BY DEF IInv, Inv1, Safe1, Minted1, NoQuotaMinted
<1> QED BY <1>1, SpecIInv, PTL
-----------------------------------------------------------------------------
(* Exact accounting: what a request whose database calls all succeeded has taken
   from each balance at each of its control points. *)

Held(p, l) ==
    \/ p \in {"period", "token", "token_hold", "rollback", "settle", "zero_refund", "fail"}
    \/ p = "serve" /\ l.turns = 0

Failing(p, l) == p = "failed" \/ (p \in {"post_funding", "post_token"} /\ l.next = "failed")

Required(f) == IF SubAmountTotal > 0 THEN (IF f.pre <= 0 THEN 1 ELSE f.pre) ELSE 0
OnToken(f, s) == IF f.playground THEN 0 ELSE s.tok
FromSub(s) == s.source = "subscription"
Charged(f, s) == ~ f.playground /\ (FromSub(s) => SubAmountTotal > 0)
Empty(w) == w.status = "consumed" => w.amt = 0 /\ w.cnt = 0

Debits(d, wallet, token, amt, cnt) ==
    d.wallet = wallet /\ d.token = token /\ d.amt = amt /\ d.cnt = cnt

(* The session knows what its request holds. *)
SessionExact(p, f, s, w, l) ==
    /\ s.source = "none" => s = NoSession
    /\ s.tok > 0 => s.source = "wallet" \/ SubAmountTotal > 0
    /\ w.status = "consumed" => w.amt = Required(f) /\ w.cnt = RequiredCount
    /\ FromSub(s) => s.subAmt = Primary(w.amt, w.cnt) /\ s.subCnt = w.cnt
    /\ p \in {"period", "token", "token_hold", "rollback"} => s.tok = 0
    /\ p \in {"period", "token", "token_hold"} =>
         s.source # "none" /\ (s.source = "wallet" => l.eff = s.consumed)
    /\ p \in {"token", "token_hold"} => s.source = "wallet" \/ SubAmountTotal > 0
    /\ p = "token_hold" => ~ f.playground
    /\ p \in {"serve", "settle", "fail"} /\ Held(p, l) /\ s.source = "wallet" => s.tok = s.consumed
    /\ p \in {"settle", "settle_token"} => s.source # "none"
    /\ p \in {"zero_refund", "zero_token"} => FromSub(s)
    /\ Held(p, l) => ~ s.settled /\ ~ s.refunded /\ ~ s.fundingSettled
    /\ l.turns > 0 => f.handler = "realtime"
    /\ p \in {"zero_refund", "zero_token"} => l.usage = 0
    /\ p = "settle" /\ FromSub(s) /\ l.usage = 0 => RequiredCount = 0

(* A request is served: what it holds, then its cost. *)
ServedExact(p, f, s, w, d, l) ==
    /\ p \in NoSessionPoints \cup {"rejected"} => Debits(d, 0, 0, 0, 0) /\ Empty(w)
    /\ Held(p, l) =>
         /\ Debits(d, IF s.source = "wallet" THEN s.consumed ELSE 0, OnToken(f, s),
                   IF FromSub(s) THEN w.amt ELSE 0, IF FromSub(s) THEN w.cnt ELSE 0)
         /\ IF FromSub(s) THEN w.status = "consumed" ELSE Empty(w)
    /\ p = "settle_token" \/ (p = "ok" /\ f.handler # "realtime") =>
         Debits(d, IF FromSub(s) THEN 0 ELSE l.usage,
                IF p = "settle_token" THEN OnToken(f, s) ELSE IF Charged(f, s) THEN l.usage ELSE 0,
                IF FromSub(s) /\ SubAmountTotal > 0 THEN l.usage ELSE 0,
                IF FromSub(s) /\ l.usage > 0 THEN RequiredCount ELSE 0)
    /\ p = "zero_token" => Debits(d, 0, OnToken(f, s), 0, 0)
    /\ p \in {"post_funding", "post_token"} /\ l.next = "ok" =>
         s.source = "none" /\ l.post = l.usage
         /\ Debits(d, IF p = "post_token" THEN l.usage ELSE 0, 0, 0, 0)
    /\ p \in {"post_funding", "post_token"} /\ l.next = "serve" => l.turns > 0

(* A request has failed: what its refund has not given back yet, and the fee. *)
FeeExact(f, s, w, d, b, funding, token) ==
    Debits(d, (IF b = "funding" /\ s.source = "wallet" THEN s.consumed ELSE 0)
                + (IF FromSub(s) THEN 0 ELSE funding),
           (IF b \in {"funding", "token"} THEN OnToken(f, s) ELSE 0) + token,
           (IF b = "funding" /\ FromSub(s) THEN w.amt ELSE 0) + (IF FromSub(s) THEN funding ELSE 0),
           IF b = "funding" /\ FromSub(s) THEN w.cnt ELSE 0)

FailedExact(p, f, s, w, d, b, l) ==
    /\ Failing(p, l) /\ p # "failed" => l.fee /\ l.post = ViolationFee
    /\ Failing(p, l) /\ b = "funding" /\ FromSub(s) => w.status = "consumed"
    /\ Failing(p, l) /\ (p = "post_funding" \/ ~ l.fee) => FeeExact(f, s, w, d, b, 0, 0)
    /\ Failing(p, l) /\ p = "post_token" => FeeExact(f, s, w, d, b, ViolationFee, 0)
    /\ p = "failed" /\ l.fee =>
         \/ FeeExact(f, s, w, d, b, ViolationFee, IF Charged(f, s) THEN ViolationFee ELSE 0)
         \/ FromSub(s) /\ FeeExact(f, s, w, d, b, 0, 0)

Exact1(p, f, s, w, d, b, l) ==
    SessionExact(p, f, s, w, l) /\ ServedExact(p, f, s, w, d, l) /\ FailedExact(p, f, s, w, d, b, l)

Sound(r) == ~ faulted[r] /\ pc[r] # "lost" /\ bg[r] # "lost"

ExactInv ==
    \A r \in Requests :
        Sound(r) => Exact1(pc[r], prof[r], sess[r], row[r], debit[r], bg[r], loc[r])



(* Request r takes a step and the others stay where they are. *)
Only(r) ==
    /\ prof' = prof
    /\ \A q \in Requests \ {r} :
         /\ pc'[q] = pc[q] /\ sess'[q] = sess[q] /\ row'[q] = row[q] /\ debit'[q] = debit[q]
         /\ bg'[q] = bg[q] /\ loc'[q] = loc[q] /\ faulted'[q] = faulted[q]

Old(r) == Exact1(pc[r], prof[r], sess[r], row[r], debit[r], bg[r], loc[r])
New(r) == Exact1(pc'[r], prof[r], sess'[r], row'[r], debit'[r], bg'[r], loc'[r])

(* It is enough to look at the request that takes the step. *)
LEMMA ExactFrame ==
  ASSUME ExactInv, NEW r \in Requests, Only(r), Sound(r)' => New(r)
  PROVE  ExactInv'
<1> SUFFICES ASSUME NEW q \in Requests, Sound(q)'
             PROVE  Exact1(pc[q], prof[q], sess[q], row[q], debit[q], bg[q], loc[q])'
  BY DEF ExactInv
<1>1. CASE q = r
  BY <1>1 DEF New, Only
<1>2. CASE q # r
  <2>1. Sound(q) /\ UNCHANGED <<pc[q], prof[q], sess[q], row[q], debit[q], bg[q], loc[q]>>
    BY <1>2 DEF Only, Sound
  <2> QED BY <2>1 DEF ExactInv
<1> QED BY <1>1, <1>2

(* A call that was not counted as failed succeeded. *)
LEMMA CallSound ==
  ASSUME TypeOK, NEW r \in Requests, NEW o, Call(r, o)
  PROVE  /\ \A q \in Requests \ {r} : faulted'[q] = faulted[q]
         /\ ~ faulted'[r] => o = "ok" /\ ~ faulted[r]
BY DEF Call, TypeOK

(* Choosing the funding source *)
LEMMA E_PreConsumeBilling ==
  ASSUME IInv, ExactInv, NEW r \in Requests, PreConsumeBilling(r)
  PROVE  ExactInv'
<1> DEFINE t == IF TokenUnlimited \/ RemainQuota > TrustQuota THEN TRUE ELSE FALSE
<1>1. PICK o : Call(r, o) /\ pc[r] = "start" /\ UNCHANGED <<prof, sess, row, debit, bg>>
               /\ loc' = [loc EXCEPT ![r].tokenTrusted = t]
               /\ \/ o = "lost" /\ Goto(r, "refused")
                  \/ o = "ok" /\ \E p \in {"serve", "sub_hold", "wallet"} : Goto(r, p)
  BY DEF PreConsumeBilling
<1> HIDE DEF t
<1>2. Only(r)
  BY <1>1, CallSound DEF Only, Goto, IInv, TypeOK
<1> SUFFICES ASSUME Sound(r)' PROVE New(r)
  BY <1>2, ExactFrame
<1>3. o = "ok" /\ Sound(r) /\ Old(r)
  BY <1>1, CallSound DEF Sound, IInv, ExactInv, Old
<1>4. PICK p \in {"serve", "sub_hold", "wallet"} : pc'[r] = p
  BY <1>1, <1>3 DEF Goto, IInv, TypeOK
<1>5. sess[r] = NoSession
  BY <1>1 DEF IInv, Inv1, Safe1, Consistent, NoSessionPoints
<1>6. loc'[r].turns = loc[r].turns /\ loc'[r].usage = loc[r].usage
  <2>1. loc[r] \in LocalType
    BY DEF IInv, TypeOK
  <2> QED BY <1>1, <2>1 DEF LocalType, IInv, TypeOK
<1> QED BY <1>1, <1>3, <1>4, <1>5, <1>6
    DEF Old, New, Exact1, SessionExact, ServedExact, FailedExact, Debits, Held, Failing, OnToken, FromSub,
        Empty, NoSessionPoints, NoSession

(* Checking the wallet *)
LEMMA E_TryWallet ==
  ASSUME IInv, ExactInv, NEW r \in Requests, TryWallet(r)
  PROVE  ExactInv'
<1>1. PICK o : Call(r, o) /\ pc[r] = "wallet" /\ UNCHANGED <<prof, sess, row, debit, bg>>
               /\ \E p \in {"wallet_hold", "sub_hold", "refused"} : Goto(r, p)
               /\ \/ UNCHANGED loc
                  \/ \E e \in {0, prof[r].pre} : loc' = [loc EXCEPT ![r].eff = e]
  BY DEF TryWallet
<1>2. Only(r)
  BY <1>1, CallSound DEF Only, Goto, IInv, TypeOK
<1> SUFFICES ASSUME Sound(r)' PROVE New(r)
  BY <1>2, ExactFrame
<1>3. Sound(r) /\ Old(r)
  BY <1>1, CallSound DEF Sound, IInv, ExactInv, Old
<1>4. PICK p \in {"wallet_hold", "sub_hold", "refused"} : pc'[r] = p
  BY <1>1, <1>3 DEF Goto, IInv, TypeOK
<1>6. loc'[r].turns = loc[r].turns /\ loc'[r].usage = loc[r].usage
  <2>1. loc[r] \in LocalType
    BY DEF IInv, TypeOK
  <2> QED BY <1>1, <2>1 DEF LocalType, IInv, TypeOK
<1> QED BY <1>1, <1>3, <1>4, <1>6
    DEF Old, New, Exact1, SessionExact, ServedExact, FailedExact, Debits, Held, Failing, OnToken, FromSub,
        Empty, NoSessionPoints

(* Taking the hold from the wallet *)
LEMMA E_WalletPreConsume ==
  ASSUME IInv, ExactInv, NEW r \in Requests, WalletPreConsume(r)
  PROVE  ExactInv'
<1> DEFINE e == loc[r].eff
<1>1. PICK o \in Outcomes : Call(r, o) /\ pc[r] = "wallet_hold" /\ UNCHANGED <<prof, row, bg, loc>>
         /\ TakeWallet(r, IF Applied(o) THEN e ELSE 0)
         /\ \/ /\ o = "ok" /\ Goto(r, "period")
               /\ sess' = [sess EXCEPT ![r] = [@ EXCEPT !.source = "wallet", !.pre = e, !.consumed = e]]
            \/ o # "ok" /\ Refuse(r)
  BY DEF WalletPreConsume
<1>2. Only(r)
  BY <1>1, CallSound DEF Only, Goto, Refuse, TakeWallet, IInv, TypeOK
<1> SUFFICES ASSUME Sound(r)' PROVE New(r)
  BY <1>2, ExactFrame
<1>3. o = "ok" /\ Sound(r) /\ Old(r)
  BY <1>1, CallSound DEF Sound, IInv, ExactInv, Old
<1>4. sess[r] = NoSession /\ debit[r] \in DebitType /\ e \in Nat /\ sess[r] \in SessionType
  BY <1>1 DEF IInv, Inv1, Type1, Safe1, Consistent, NoSessionPoints, LocalType
<1>5. sess[r].tok = 0 /\ ~ sess[r].settled /\ ~ sess[r].refunded /\ ~ sess[r].fundingSettled
  BY <1>4 DEF NoSession
<1>6. pc'[r] = "period" /\ sess'[r] = [sess[r] EXCEPT !.source = "wallet", !.pre = e, !.consumed = e]
      /\ debit'[r] = [debit[r] EXCEPT !.wallet = @ + e]
  BY <1>1, <1>3 DEF Goto, TakeWallet, Applied, IInv, TypeOK
<1> HIDE DEF e
<1>7. sess'[r].source = "wallet" /\ sess'[r].consumed = e /\ sess'[r].tok = 0
      /\ ~ sess'[r].settled /\ ~ sess'[r].refunded /\ ~ sess'[r].fundingSettled
  BY <1>4, <1>5, <1>6 DEF SessionType
<1>8. debit'[r].wallet = debit[r].wallet + e /\ debit'[r].token = debit[r].token
      /\ debit'[r].amt = debit[r].amt /\ debit'[r].cnt = debit[r].cnt
  BY <1>4, <1>6 DEF DebitType
<1>9. e = loc[r].eff
  BY DEF e
<1> QED BY <1>1, <1>3, <1>4, <1>6, <1>7, <1>8, <1>9
    DEF Old, New, Exact1, SessionExact, ServedExact, FailedExact, Debits, Held, Failing, OnToken, FromSub,
        Empty, NoSessionPoints

(* The session a subscription hold leaves *)
LEMMA SubSessionFields ==
  ASSUME IInv, NEW r \in Requests, sess[r] = NoSession,
         NEW amt \in Nat, NEW cnt \in Nat, SubSession(r, amt, cnt)
  PROVE  /\ sess'[r].source = "subscription" /\ sess'[r].tok = 0
         /\ sess'[r].subAmt = Primary(amt, cnt) /\ sess'[r].subCnt = cnt
         /\ ~ sess'[r].settled /\ ~ sess'[r].refunded /\ ~ sess'[r].fundingSettled
<1> DEFINE q == Primary(amt, cnt)
           n == IF q > 0 THEN q ELSE SubAmount(r)
<1>1. sess'[r] = [sess[r] EXCEPT !.source = "subscription", !.subAmt = q, !.subCnt = cnt, !.pre = n]
  BY DEF SubSession, IInv, TypeOK
<1>2. sess[r] \in SessionType
  BY DEF IInv, TypeOK
<1>3. sess[r].tok = 0 /\ ~ sess[r].settled /\ ~ sess[r].refunded /\ ~ sess[r].fundingSettled
  BY DEF NoSession
<1>4. q = Primary(amt, cnt)
  OBVIOUS
<1> HIDE DEF q, n
<1> QED BY <1>1, <1>2, <1>3, <1>4 DEF SessionType

(* Taking the hold from the subscription *)
LEMMA E_SubPreConsume ==
  ASSUME IInv, ExactInv, NEW r \in Requests, SubPreConsume(r)
  PROVE  ExactInv'
<1> DEFINE A == RequiredAmount(r)
           C == RequiredCount
           w == [status |-> "consumed", amt |-> A, cnt |-> C]
           R == row[r].status = "consumed" /\ SubSession(r, row[r].amt, row[r].cnt) /\ Goto(r, "period")
                  /\ UNCHANGED <<row, debit>>
           T == row' = [row EXCEPT ![r] = w] /\ debit' = [debit EXCEPT ![r] = AddHold(@, A, C)]
<1>1. PICK o \in Outcomes :
         /\ Call(r, o)
         /\ \/ Refuse(r) /\ UNCHANGED <<row, debit>>
            \/ R
            \/ Goto(r, "wallet") /\ UNCHANGED <<sess, row, debit>>
            \/ T /\ o = "ok" /\ SubSession(r, A, C) /\ Goto(r, "period")
            \/ T /\ o # "ok" /\ Refuse(r)
  BY DEF SubPreConsume, TakeHold
<1>2. pc[r] = "sub_hold" /\ UNCHANGED <<prof, bg>> /\ loc' = [loc EXCEPT ![r].eff = SubAmount(r)]
  BY DEF SubPreConsume
<1>3. Only(r)
  BY <1>1, <1>2, CallSound DEF Only, Goto, Refuse, SubSession, IInv, TypeOK
<1> SUFFICES ASSUME Sound(r)' PROVE New(r)
  BY <1>3, ExactFrame
<1>4. o = "ok" /\ Sound(r) /\ Old(r)
  BY <1>1, <1>2, CallSound DEF Sound, IInv, ExactInv, Old
<1>5. sess[r] = NoSession /\ debit[r] \in DebitType /\ row[r] \in RowType /\ row[r].amt \in Nat
      /\ row[r].cnt \in Nat
  BY <1>2 DEF IInv, Inv1, Type1, Safe1, Consistent, NoSessionPoints, RowType
<1>6. loc'[r].turns = loc[r].turns /\ loc'[r].usage = loc[r].usage
  <2>1. loc[r] \in LocalType
    BY DEF IInv, TypeOK
  <2> QED BY <1>2, <2>1 DEF LocalType, IInv, TypeOK
<1>7. A \in Nat /\ C \in Nat /\ A \in Int /\ C \in Int
  BY SubAmounts
<1>8. A = Required(prof[r]) /\ C = RequiredCount
  BY DEF RequiredAmount, Required, SubAmount
<1>9. w.status = "consumed" /\ w.amt = A /\ w.cnt = C
  OBVIOUS
<1>10. T => row'[r] = w /\ debit'[r] = AddHold(debit[r], A, C)
  BY DEF IInv, TypeOK
<1> HIDE DEF w, A, C
<1>11. CASE Refuse(r) /\ UNCHANGED <<row, debit>>
  <2>1. pc'[r] = "refused" /\ sess'[r] = NoSession /\ row'[r] = row[r] /\ debit'[r] = debit[r]
    BY <1>11 DEF Refuse, Goto, IInv, TypeOK
  <2> QED BY <1>2, <1>4, <1>5, <1>6, <2>1
    DEF Old, New, Exact1, SessionExact, ServedExact, FailedExact, Debits, Held, Failing, OnToken, FromSub,
        Empty, NoSessionPoints
<1>12. CASE R
  <2>1. pc'[r] = "period" /\ row'[r] = row[r] /\ debit'[r] = debit[r] /\ row[r].status = "consumed"
    BY <1>12 DEF Goto, IInv, TypeOK
  <2>2. /\ sess'[r].source = "subscription" /\ sess'[r].tok = 0
        /\ sess'[r].subAmt = Primary(row[r].amt, row[r].cnt) /\ sess'[r].subCnt = row[r].cnt
        /\ ~ sess'[r].settled /\ ~ sess'[r].refunded /\ ~ sess'[r].fundingSettled
    BY <1>5, <1>12, SubSessionFields
  <2> QED BY <1>2, <1>4, <1>6, <2>1, <2>2
    DEF Old, New, Exact1, SessionExact, ServedExact, FailedExact, Debits, Held, Failing, OnToken, FromSub,
        Empty, NoSessionPoints
<1>13. CASE Goto(r, "wallet") /\ UNCHANGED <<sess, row, debit>>
  <2>1. pc'[r] = "wallet" /\ sess'[r] = NoSession /\ row'[r] = row[r] /\ debit'[r] = debit[r]
    BY <1>5, <1>13 DEF Goto, IInv, TypeOK
  <2> QED BY <1>2, <1>4, <1>5, <1>6, <2>1
    DEF Old, New, Exact1, SessionExact, ServedExact, FailedExact, Debits, Held, Failing, OnToken, FromSub,
        Empty, NoSessionPoints
<1>14. CASE T /\ SubSession(r, A, C) /\ Goto(r, "period")
  <2>1. pc'[r] = "period"
    BY <1>14 DEF Goto, IInv, TypeOK
  <2>2. /\ sess'[r].source = "subscription" /\ sess'[r].tok = 0
        /\ sess'[r].subAmt = Primary(A, C) /\ sess'[r].subCnt = C
        /\ ~ sess'[r].settled /\ ~ sess'[r].refunded /\ ~ sess'[r].fundingSettled
    BY <1>5, <1>7, <1>14, SubSessionFields
  <2>3. row'[r].status = "consumed" /\ row'[r].amt = A /\ row'[r].cnt = C
    BY <1>9, <1>10, <1>14
  <2>4. debit'[r].wallet = debit[r].wallet /\ debit'[r].token = debit[r].token
        /\ debit'[r].amt = debit[r].amt + A /\ debit'[r].cnt = debit[r].cnt + C
    BY <1>5, <1>7, <1>10, <1>14, AddHoldFields
  <2> QED BY <1>2, <1>4, <1>6, <1>7, <1>8, <2>1, <2>2, <2>3, <2>4
    DEF Old, New, Exact1, SessionExact, ServedExact, FailedExact, Debits, Held, Failing, OnToken, FromSub,
        Empty, NoSessionPoints
<1> QED BY <1>1, <1>4, <1>11, <1>12, <1>13, <1>14

(* The period limit of the token *)
LEMMA E_PeriodCheck ==
  ASSUME IInv, ExactInv, NEW r \in Requests, PeriodCheck(r)
  PROVE  ExactInv'
<1>1. PICK p \in {"rollback", "token", "serve"} :
        /\ pc[r] = "period" /\ UNCHANGED <<prof, sess, row, debit, bg, faulted>>
        /\ loc' = [loc EXCEPT ![r].tries = 0] /\ Goto(r, p)
        /\ p = "token" => UseTokenQuota(r)
        /\ p = "serve" => ~ UseTokenQuota(r) \/ ~ (loc[r].eff > 0)
  BY DEF PeriodCheck
<1>2. Only(r)
  BY <1>1 DEF Only, Goto, IInv, TypeOK
<1> SUFFICES ASSUME Sound(r)' PROVE New(r)
  BY <1>2, ExactFrame
<1>3. Sound(r) /\ Old(r)
  BY <1>1 DEF Sound, ExactInv, Old
<1>4. pc'[r] = p
  BY <1>1 DEF Goto, IInv, TypeOK
<1>5. loc[r] \in LocalType /\ loc[r].eff \in Nat /\ loc[r].turns \in Nat
  BY DEF IInv, TypeOK, LocalType
<1>6. loc'[r].turns = loc[r].turns /\ loc'[r].usage = loc[r].usage /\ loc'[r].eff = loc[r].eff
  BY <1>1, <1>5 DEF LocalType, IInv, TypeOK
<1> QED BY <1>1, <1>3, <1>4, <1>5, <1>6
    DEF UseTokenQuota, Old, New, Exact1, SessionExact, ServedExact, FailedExact, Debits, Held, Failing,
        OnToken, FromSub, Empty, NoSessionPoints

(* The session after its hold on the token has been taken *)
LEMMA TokField ==
  ASSUME IInv, NEW r \in Requests, sess' = [sess EXCEPT ![r].tok = loc[r].eff]
  PROVE  /\ sess'[r].tok = loc[r].eff /\ sess'[r].source = sess[r].source
         /\ sess'[r].consumed = sess[r].consumed
         /\ sess'[r].subAmt = sess[r].subAmt /\ sess'[r].subCnt = sess[r].subCnt
         /\ sess'[r].settled = sess[r].settled /\ sess'[r].refunded = sess[r].refunded
         /\ sess'[r].fundingSettled = sess[r].fundingSettled
<1>1. sess[r] \in SessionType /\ sess'[r] = [sess[r] EXCEPT !.tok = loc[r].eff]
  BY DEF IInv, TypeOK
<1> QED BY <1>1 DEF SessionType

(* Checking the quota of the token *)
LEMMA E_TokenCheck ==
  ASSUME IInv, ExactInv, NEW r \in Requests, TokenCheck(r)
  PROVE  ExactInv'
<1>1. PICK o : /\ Call(r, o) /\ pc[r] = "token" /\ UNCHANGED <<prof, row, debit, bg, loc>>
               /\ \/ /\ prof[r].playground /\ Goto(r, "serve")
                     /\ sess' = [sess EXCEPT ![r].tok = loc[r].eff]
                  \/ ~ prof[r].playground /\ \E p \in {"rollback", "token_hold"} : Goto(r, p) /\ UNCHANGED sess
  BY DEF TokenCheck
<1>2. Only(r)
  BY <1>1, CallSound DEF Only, Goto, IInv, TypeOK
<1> SUFFICES ASSUME Sound(r)' PROVE New(r)
  BY <1>2, ExactFrame
<1>3. Sound(r) /\ Old(r)
  BY <1>1, CallSound DEF Sound, IInv, ExactInv, Old
<1>4. CASE /\ prof[r].playground /\ Goto(r, "serve")
           /\ sess' = [sess EXCEPT ![r].tok = loc[r].eff]
  <2>1. pc'[r] = "serve"
    BY <1>4 DEF Goto, IInv, TypeOK
  <2>2. /\ sess'[r].tok = loc[r].eff /\ sess'[r].source = sess[r].source
        /\ sess'[r].consumed = sess[r].consumed
        /\ sess'[r].subAmt = sess[r].subAmt /\ sess'[r].subCnt = sess[r].subCnt
        /\ sess'[r].settled = sess[r].settled /\ sess'[r].refunded = sess[r].refunded
        /\ sess'[r].fundingSettled = sess[r].fundingSettled
    BY <1>4, TokField
  <2> QED BY <1>1, <1>3, <1>4, <2>1, <2>2
    DEF Old, New, Exact1, SessionExact, ServedExact, FailedExact, Debits, Held, Failing, OnToken, FromSub,
        Empty, NoSessionPoints
<1>5. CASE ~ prof[r].playground /\ \E p \in {"rollback", "token_hold"} : Goto(r, p) /\ UNCHANGED sess
  <2>1. PICK p \in {"rollback", "token_hold"} : pc'[r] = p /\ sess'[r] = sess[r]
    BY <1>5 DEF Goto, IInv, TypeOK
  <2> QED BY <1>1, <1>3, <1>5, <2>1
    DEF Old, New, Exact1, SessionExact, ServedExact, FailedExact, Debits, Held, Failing, OnToken, FromSub,
        Empty, NoSessionPoints
<1> QED BY <1>1, <1>4, <1>5

(* Taking from the wallet, the token or the amount changes that field. *)
LEMMA TakeFields ==
  ASSUME IInv, NEW r \in Requests, NEW n \in Int
  PROVE  /\ TakeWallet(r, n) => /\ debit'[r].wallet = debit[r].wallet + n
                                /\ debit'[r].token = debit[r].token
                                /\ debit'[r].amt = debit[r].amt /\ debit'[r].cnt = debit[r].cnt
         /\ TakeToken(r, n)  => /\ debit'[r].token = debit[r].token + n
                                /\ debit'[r].wallet = debit[r].wallet
                                /\ debit'[r].amt = debit[r].amt /\ debit'[r].cnt = debit[r].cnt
         /\ TakeAmount(r, n) => /\ debit'[r].amt = debit[r].amt + n
                                /\ debit'[r].wallet = debit[r].wallet
                                /\ debit'[r].token = debit[r].token /\ debit'[r].cnt = debit[r].cnt
         /\ debit[r].wallet \in Int /\ debit[r].token \in Int /\ debit[r].amt \in Int
         /\ debit[r].cnt \in Int
<1>1. debit[r] \in DebitType
  BY DEF IInv, TypeOK
<1>2. ASSUME TakeWallet(r, n) PROVE debit'[r] = [debit[r] EXCEPT !.wallet = @ + n]
  BY <1>2 DEF TakeWallet, IInv, TypeOK
<1>3. ASSUME TakeToken(r, n) PROVE debit'[r] = [debit[r] EXCEPT !.token = @ + n]
  BY <1>3 DEF TakeToken, IInv, TypeOK
<1>4. ASSUME TakeAmount(r, n) PROVE debit'[r] = [debit[r] EXCEPT !.amt = @ + n]
  BY <1>4 DEF TakeAmount, IInv, TypeOK
<1>5. TakeWallet(r, n) => /\ debit'[r].wallet = debit[r].wallet + n
                          /\ debit'[r].token = debit[r].token
                          /\ debit'[r].amt = debit[r].amt /\ debit'[r].cnt = debit[r].cnt
  BY <1>1, <1>2 DEF DebitType
<1>6. TakeToken(r, n)  => /\ debit'[r].token = debit[r].token + n
                          /\ debit'[r].wallet = debit[r].wallet
                          /\ debit'[r].amt = debit[r].amt /\ debit'[r].cnt = debit[r].cnt
  BY <1>1, <1>3 DEF DebitType
<1>7. TakeAmount(r, n) => /\ debit'[r].amt = debit[r].amt + n
                          /\ debit'[r].wallet = debit[r].wallet
                          /\ debit'[r].token = debit[r].token /\ debit'[r].cnt = debit[r].cnt
  BY <1>1, <1>4 DEF DebitType
<1> QED BY <1>1, <1>5, <1>6, <1>7 DEF DebitType

(* Taking the hold from the token *)
LEMMA E_TokenPreConsume ==
  ASSUME IInv, ExactInv, NEW r \in Requests, TokenPreConsume(r)
  PROVE  ExactInv'
<1>1. PICK o : /\ Call(r, o) /\ pc[r] = "token_hold" /\ UNCHANGED <<prof, row, bg, loc>>
               /\ TakeToken(r, IF Applied(o) THEN loc[r].eff ELSE 0)
               /\ IF o = "ok" THEN Goto(r, "serve") /\ sess' = [sess EXCEPT ![r].tok = loc[r].eff]
                  ELSE Goto(r, "rollback") /\ UNCHANGED sess
  BY DEF TokenPreConsume
<1>2. Only(r)
  BY <1>1, CallSound DEF Only, Goto, TakeToken, IInv, TypeOK
<1> SUFFICES ASSUME Sound(r)' PROVE New(r)
  BY <1>2, ExactFrame
<1>3. o = "ok" /\ Sound(r) /\ Old(r)
  BY <1>1, CallSound DEF Sound, IInv, ExactInv, Old
<1>4. pc'[r] = "serve" /\ sess' = [sess EXCEPT ![r].tok = loc[r].eff] /\ TakeToken(r, loc[r].eff)
  BY <1>1, <1>3 DEF Goto, Applied, IInv, TypeOK
<1>5. loc[r].eff \in Int
  BY DEF IInv, TypeOK, LocalType
<1>6. /\ debit'[r].token = debit[r].token + loc[r].eff /\ debit'[r].wallet = debit[r].wallet
      /\ debit'[r].amt = debit[r].amt /\ debit'[r].cnt = debit[r].cnt
  BY <1>4, <1>5, TakeFields
<1>7. /\ sess'[r].tok = loc[r].eff /\ sess'[r].source = sess[r].source
      /\ sess'[r].consumed = sess[r].consumed
      /\ sess'[r].subAmt = sess[r].subAmt /\ sess'[r].subCnt = sess[r].subCnt
      /\ sess'[r].settled = sess[r].settled /\ sess'[r].refunded = sess[r].refunded
      /\ sess'[r].fundingSettled = sess[r].fundingSettled
  BY <1>4, TokField
<1> QED BY <1>1, <1>3, <1>4, <1>5, <1>6, <1>7
    DEF Old, New, Exact1, SessionExact, ServedExact, FailedExact, Debits, Held, Failing, OnToken, FromSub,
        Empty, NoSessionPoints

(* A successful refund gives back the whole hold, or there was none. *)
LEMMA RefundExact ==
  ASSUME IInv, NEW r \in Requests, RefundFunding(r, "ok"),
         SessionExact(pc[r], prof[r], sess[r], row[r], loc[r]),
         FromSub(sess[r]) => row[r].status = "consumed"
  PROVE  /\ debit'[r].wallet = debit[r].wallet - (IF sess[r].source = "wallet" THEN sess[r].consumed ELSE 0)
         /\ debit'[r].token = debit[r].token
         /\ debit'[r].amt = debit[r].amt - (IF FromSub(sess[r]) THEN row[r].amt ELSE 0)
         /\ debit'[r].cnt = debit[r].cnt - (IF FromSub(sess[r]) THEN row[r].cnt ELSE 0)
         /\ row'[r].amt = row[r].amt /\ row'[r].cnt = row[r].cnt
         /\ row'[r].status = "consumed" => row[r].status = "consumed"
         /\ FromSub(sess[r]) => Empty(row'[r])
         /\ sess[r].source = "wallet" => row'[r] = row[r]
<1>1. sess[r] \in SessionType /\ row[r] \in RowType /\ debit[r] \in DebitType
  BY DEF IInv, TypeOK
<1>2. /\ sess[r].consumed \in Nat /\ sess[r].subAmt \in Nat /\ sess[r].subCnt \in Nat
      /\ row[r].amt \in Nat /\ row[r].cnt \in Nat
      /\ sess[r].source \in {"none", "wallet", "subscription"}
      /\ debit[r].wallet \in Int /\ debit[r].amt \in Int /\ debit[r].cnt \in Int
  BY <1>1 DEF SessionType, RowType, DebitType
<1>3. CASE sess[r].source = "wallet"
  <2>1. CASE sess[r].consumed > 0
    <3>1. TakeWallet(r, - sess[r].consumed) /\ UNCHANGED row
      BY <1>3, <2>1 DEF RefundFunding, HoldsFunding, Applied
    <3>2. - sess[r].consumed \in Int
      BY <1>2
    <3>3. /\ debit'[r].wallet = debit[r].wallet + (- sess[r].consumed)
          /\ debit'[r].token = debit[r].token
          /\ debit'[r].amt = debit[r].amt /\ debit'[r].cnt = debit[r].cnt
      BY <3>1, <3>2, TakeFields
    <3> QED BY <1>2, <1>3, <3>1, <3>3 DEF FromSub
  <2>2. CASE ~ (sess[r].consumed > 0)
    <3>1. UNCHANGED <<row, debit>>
      BY <1>3, <2>2 DEF RefundFunding, HoldsFunding
    <3> QED BY <1>2, <1>3, <2>2, <3>1 DEF FromSub
  <2> QED BY <2>1, <2>2
<1>4. CASE sess[r].source = "subscription"
  <2>1. CASE sess[r].subAmt > 0 \/ sess[r].subCnt > 0
    <3>1. TakeHold(r, - row[r].amt, - row[r].cnt) /\ row' = [row EXCEPT ![r].status = "refunded"]
      BY <1>4, <2>1 DEF RefundFunding, HoldsFunding, Applied, FromSub
    <3>2. - row[r].amt \in Int /\ - row[r].cnt \in Int
      BY <1>2
    <3>3. debit'[r] = AddHold(debit[r], - row[r].amt, - row[r].cnt)
      BY <3>1 DEF TakeHold, IInv, TypeOK
    <3>4. /\ debit'[r].wallet = debit[r].wallet /\ debit'[r].token = debit[r].token
          /\ debit'[r].amt = debit[r].amt + (- row[r].amt)
          /\ debit'[r].cnt = debit[r].cnt + (- row[r].cnt)
      BY <1>1, <3>2, <3>3, AddHoldFields
    <3>5. row'[r] = [row[r] EXCEPT !.status = "refunded"]
      BY <3>1 DEF IInv, TypeOK
    <3>6. row'[r].status = "refunded" /\ row'[r].amt = row[r].amt /\ row'[r].cnt = row[r].cnt
      BY <1>1, <3>5 DEF RowType
    <3> QED BY <1>2, <1>4, <3>4, <3>6 DEF FromSub, Empty
  <2>2. CASE ~ (sess[r].subAmt > 0 \/ sess[r].subCnt > 0)
    <3>1. UNCHANGED <<row, debit>>
      BY <1>4, <2>2 DEF RefundFunding, HoldsFunding
    <3>2. row[r].amt = 0 /\ row[r].cnt = 0
      BY <1>2, <1>4, <2>2 DEF SessionExact, FromSub, Primary
    <3> QED BY <1>2, <1>4, <3>1, <3>2 DEF FromSub, Empty
  <2> QED BY <2>1, <2>2
<1>5. CASE sess[r].source = "none"
  <2>1. sess[r].subAmt = 0 /\ sess[r].subCnt = 0
    BY <1>5 DEF SessionExact, NoSession
  <2>2. UNCHANGED <<row, debit>>
    BY <1>5, <2>1 DEF RefundFunding, HoldsFunding
  <2> QED BY <1>2, <1>5, <2>2 DEF FromSub
<1> QED BY <1>2, <1>3, <1>4, <1>5

(* A rolled back request holds nothing. *)
LEMMA E_RollBack ==
  ASSUME IInv, ExactInv, NEW r \in Requests, RollBack(r)
  PROVE  ExactInv'
<1>1. PICK o \in Outcomes :
        /\ RefundFunding(r, o) /\ Call(r, o) /\ pc[r] = "rollback" /\ UNCHANGED <<prof, bg>>
        /\ IF TriesAgain(r, o) THEN CountTry(r) /\ UNCHANGED <<pc, sess>> ELSE Refuse(r) /\ UNCHANGED loc
  BY DEF RollBack, RefundFunding
<1>2. Only(r)
  BY <1>1, CallSound DEF Only, RefundFunding, TakeWallet, TakeHold, CountTry, Refuse, Goto, IInv, TypeOK
<1> SUFFICES ASSUME Sound(r)' PROVE New(r)
  BY <1>2, ExactFrame
<1>3. o = "ok" /\ Sound(r) /\ Old(r)
  BY <1>1, CallSound DEF Sound, IInv, ExactInv, Old
<1>4. Refuse(r) /\ UNCHANGED loc
  BY <1>1, <1>3 DEF TriesAgain
<1>5. pc'[r] = "refused" /\ sess'[r] = NoSession
  BY <1>4 DEF Refuse, Goto, IInv, TypeOK
<1>6. SessionExact(pc[r], prof[r], sess[r], row[r], loc[r])
      /\ (FromSub(sess[r]) => row[r].status = "consumed")
      /\ (~ FromSub(sess[r]) => Empty(row[r]))
      /\ sess[r].tok = 0
  BY <1>1, <1>3 DEF Old, Exact1, SessionExact, ServedExact, Held
<1>7. /\ debit'[r].wallet = debit[r].wallet - (IF sess[r].source = "wallet" THEN sess[r].consumed ELSE 0)
      /\ debit'[r].token = debit[r].token
      /\ debit'[r].amt = debit[r].amt - (IF FromSub(sess[r]) THEN row[r].amt ELSE 0)
      /\ debit'[r].cnt = debit[r].cnt - (IF FromSub(sess[r]) THEN row[r].cnt ELSE 0)
      /\ row'[r].amt = row[r].amt /\ row'[r].cnt = row[r].cnt
      /\ row'[r].status = "consumed" => row[r].status = "consumed"
      /\ FromSub(sess[r]) => Empty(row'[r])
      /\ sess[r].source = "wallet" => row'[r] = row[r]
  BY <1>1, <1>3, <1>6, RefundExact
<1>8. Empty(row'[r])
  BY <1>6, <1>7 DEF Empty
<1>9. /\ sess[r].consumed \in Nat /\ row[r].amt \in Nat /\ row[r].cnt \in Nat
  BY DEF IInv, TypeOK, SessionType, RowType
<1>10. Debits(debit'[r], 0, 0, 0, 0)
  BY <1>1, <1>3, <1>6, <1>7, <1>9 DEF Old, Exact1, ServedExact, Held, Debits, OnToken
<1> QED BY <1>1, <1>3, <1>4, <1>5, <1>7, <1>8, <1>10
    DEF Old, New, Exact1, SessionExact, ServedExact, FailedExact, Held, Failing, FromSub,
        NoSessionPoints, NoSession

(* A refused request *)
LEMMA E_Refused ==
  ASSUME IInv, ExactInv, NEW r \in Requests, Refused(r)
  PROVE  ExactInv'
<1>1. PICK p \in {"rejected", "start"} :
        /\ pc[r] = "refused" /\ UNCHANGED <<prof, sess, row, debit, bg, faulted>>
        /\ Goto(r, p) /\ (UNCHANGED loc \/ TryNext(r))
  BY DEF Refused
<1>try. \E l \in LocalType : loc' = [loc EXCEPT ![r] = l] /\ l.turns = loc[r].turns
  BY <1>1, TryNextLocal DEF IInv, TypeOK
<1>2. Only(r)
  BY <1>1, <1>try DEF Only, Goto, IInv, TypeOK
<1> SUFFICES ASSUME Sound(r)' PROVE New(r)
  BY <1>2, ExactFrame
<1>3. Sound(r) /\ Old(r)
  BY <1>1 DEF Sound, ExactInv, Old
<1>4. pc'[r] = p
  BY <1>1 DEF Goto, IInv, TypeOK
<1>5. loc'[r].turns = loc[r].turns
  BY <1>try DEF IInv, TypeOK
<1> QED BY <1>1, <1>3, <1>4, <1>5
    DEF Old, New, Exact1, SessionExact, ServedExact, FailedExact, Debits, Held, Failing, OnToken, FromSub,
        Empty, NoSessionPoints

(* Another attempt upstream *)
LEMMA E_RetryUpstream ==
  ASSUME IInv, ExactInv, NEW r \in Requests, RetryUpstream(r)
  PROVE  ExactInv'
<1>1. /\ pc[r] = "serve" /\ UNCHANGED <<pc, prof, sess, row, debit, bg, faulted>>
      /\ TryNext(r)
  BY DEF RetryUpstream
<1>try. PICK l \in LocalType : loc' = [loc EXCEPT ![r] = l] /\ l.turns = loc[r].turns
  BY <1>1, TryNextLocal DEF IInv, TypeOK
<1>2. Only(r)
  BY <1>1, <1>try DEF Only, IInv, TypeOK
<1> SUFFICES ASSUME Sound(r)' PROVE New(r)
  BY <1>2, ExactFrame
<1>3. Sound(r) /\ Old(r)
  BY <1>1 DEF Sound, ExactInv, Old
<1>4. loc'[r].turns = loc[r].turns
  BY <1>try DEF IInv, TypeOK
<1> QED BY <1>1, <1>3, <1>4
    DEF Old, New, Exact1, SessionExact, ServedExact, FailedExact, Debits, Held, Failing, OnToken, FromSub,
        Empty, NoSessionPoints

(* The upstream fails. *)
LEMMA E_UpstreamFails ==
  ASSUME IInv, ExactInv, NEW r \in Requests, UpstreamFails(r)
  PROVE  ExactInv'
<1>1. PICK fee \in BOOLEAN :
      /\ pc[r] = "serve" /\ loc[r].turns = 0 /\ UNCHANGED <<prof, sess, row, debit, bg, faulted>>
      /\ loc' = [loc EXCEPT ![r] = [@ EXCEPT !.fee = fee, !.tries = 0]] /\ Goto(r, "fail")
  BY DEF UpstreamFails
<1>2. Only(r)
  BY <1>1 DEF Only, Goto, IInv, TypeOK
<1> SUFFICES ASSUME Sound(r)' PROVE New(r)
  BY <1>2, ExactFrame
<1>3. Sound(r) /\ Old(r)
  BY <1>1 DEF Sound, ExactInv, Old
<1>4. pc'[r] = "fail"
  BY <1>1 DEF Goto, IInv, TypeOK
<1>5. loc'[r].turns = loc[r].turns
  <2>1. loc[r] \in LocalType
    BY DEF IInv, TypeOK
  <2> QED BY <1>1, <2>1 DEF LocalType, IInv, TypeOK
<1> QED BY <1>1, <1>3, <1>4, <1>5
    DEF Old, New, Exact1, SessionExact, ServedExact, FailedExact, Debits, Held, Failing, OnToken, FromSub,
        Empty, NoSessionPoints

(* The cost of a served request is known. *)
LEMMA E_UpstreamSucceeds ==
  ASSUME IInv, ExactInv, NEW r \in Requests, UpstreamSucceeds(r)
  PROVE  ExactInv'
<1>1. PICK u \in Usages :
         IF sess[r].source = "none"
           THEN /\ loc' = [loc EXCEPT ![r] = [@ EXCEPT !.usage = u, !.post = u, !.next = "ok"]]
                /\ Goto(r, IF u = 0 THEN "ok" ELSE "post_funding")
           ELSE /\ loc' = [loc EXCEPT ![r] = [@ EXCEPT !.usage = u, !.tries = 0]]
                /\ Goto(r, IF /\ sess[r].source = "subscription"
                              /\ SubResource = "request_count" /\ u <= 0
                           THEN "zero_refund" ELSE "settle")
  BY DEF UpstreamSucceeds
<1>2. pc[r] = "serve" /\ prof[r].handler # "realtime" /\ UNCHANGED <<prof, sess, row, debit, bg, faulted>>
  BY DEF UpstreamSucceeds
<1>3. Only(r)
  BY <1>1, <1>2 DEF Only, Goto, IInv, TypeOK
<1> SUFFICES ASSUME Sound(r)' PROVE New(r)
  BY <1>3, ExactFrame
<1>4. Sound(r) /\ Old(r)
  BY <1>2 DEF Sound, ExactInv, Old
<1>5. loc[r] \in LocalType /\ loc[r].turns \in Nat /\ u \in Nat
  BY ConstantsAssumption DEF IInv, TypeOK, LocalType
<1>6. loc[r].turns = 0
  BY <1>2, <1>4, <1>5 DEF Old, Exact1, SessionExact
<1>7. CASE sess[r].source = "none"
  <2>1. loc'[r].usage = u /\ loc'[r].post = u /\ loc'[r].next = "ok" /\ loc'[r].turns = 0
    <3>1. loc'[r] = [loc[r] EXCEPT !.usage = u, !.post = u, !.next = "ok"]
      BY <1>1, <1>7 DEF IInv, TypeOK
    <3> QED BY <1>5, <1>6, <3>1 DEF LocalType
  <2>2. pc'[r] = IF u = 0 THEN "ok" ELSE "post_funding"
    BY <1>1, <1>7 DEF Goto, IInv, TypeOK
  <2>3. sess[r].tok = 0
    BY <1>4, <1>7 DEF Old, Exact1, SessionExact, NoSession
  <2> QED BY <1>2, <1>4, <1>5, <1>6, <1>7, <2>1, <2>2, <2>3
    DEF Charged, Old, New, Exact1, SessionExact, ServedExact, FailedExact, Debits, Held, Failing, OnToken,
        FromSub, Empty, NoSessionPoints
<1>8. CASE sess[r].source # "none"
  <2>1. loc'[r].usage = u /\ loc'[r].turns = 0
    <3>1. loc'[r] = [loc[r] EXCEPT !.usage = u, !.tries = 0]
      BY <1>1, <1>8 DEF IInv, TypeOK
    <3> QED BY <1>5, <1>6, <3>1 DEF LocalType
  <2>2. pc'[r] = IF /\ sess[r].source = "subscription" /\ SubResource = "request_count" /\ u <= 0
                 THEN "zero_refund" ELSE "settle"
    BY <1>1, <1>8 DEF Goto, IInv, TypeOK
  <2> QED BY <1>2, <1>4, <1>5, <1>6, <1>8, <2>1, <2>2
    DEF RequiredCount, Old, New, Exact1, SessionExact, ServedExact, FailedExact, Debits, Held, Failing,
        OnToken, FromSub, Empty, NoSessionPoints
<1> QED BY <1>7, <1>8

(* A turn of a realtime connection *)
LEMMA E_Turn ==
  ASSUME IInv, ExactInv, NEW r \in Requests, Turn(r)
  PROVE  ExactInv'
<1>1. /\ UNCHANGED faulted \/ \E o : Call(r, o)
      /\ \/ (UNCHANGED pc \/ Goto(r, "ok")) /\ loc' = [loc EXCEPT ![r].turns = @ + 1]
         \/ \E u \in Usages : loc' = [loc EXCEPT ![r] = CountTurn(@, u)] /\ Goto(r, "post_funding")
  BY DEF Turn
<1>2. pc[r] = "serve" /\ prof[r].handler = "realtime" /\ UNCHANGED <<prof, sess, row, debit, bg>>
  BY DEF Turn
<1>3. Only(r)
  BY <1>1, <1>2, CallSound DEF Only, Goto, IInv, TypeOK
<1> SUFFICES ASSUME Sound(r)' PROVE New(r)
  BY <1>3, ExactFrame
<1>4. Sound(r) /\ Old(r)
  BY <1>1, <1>2, CallSound DEF Sound, IInv, ExactInv, Old
<1>5. loc[r] \in LocalType /\ loc[r].turns \in Nat
  BY DEF IInv, TypeOK, LocalType
<1>6. CASE Goto(r, "ok")
  <2>1. pc'[r] = "ok"
    BY <1>6 DEF Goto, IInv, TypeOK
  <2> QED BY <1>2, <1>4, <2>1
    DEF Old, New, Exact1, SessionExact, ServedExact, FailedExact, Debits, Held, Failing, OnToken, FromSub,
        Empty, NoSessionPoints
<1>7. ASSUME NEW u \in Usages, loc' = [loc EXCEPT ![r] = CountTurn(@, u)], Goto(r, "post_funding")
      PROVE  New(r)
  <2>1. pc'[r] = "post_funding" /\ loc'[r] = CountTurn(loc[r], u)
    BY <1>7 DEF Goto, IInv, TypeOK
  <2>2. loc'[r].next = "serve" /\ loc'[r].turns = loc[r].turns + 1
    BY <1>5, <2>1 DEF CountTurn, LocalType
  <2> QED BY <1>2, <1>4, <1>5, <2>1, <2>2
    DEF Old, New, Exact1, SessionExact, ServedExact, FailedExact, Debits, Held, Failing, OnToken, FromSub,
        Empty, NoSessionPoints
<1>8. CASE UNCHANGED pc /\ loc' = [loc EXCEPT ![r].turns = @ + 1]
  <2>1. loc'[r] = [loc[r] EXCEPT !.turns = @ + 1]
    BY <1>8 DEF IInv, TypeOK
  <2>2. loc'[r].turns = loc[r].turns + 1
    BY <1>5, <2>1 DEF LocalType
  <2> QED BY <1>2, <1>4, <1>5, <1>8, <2>2
    DEF Old, New, Exact1, SessionExact, ServedExact, FailedExact, Debits, Held, Failing, OnToken, FromSub,
        Empty, NoSessionPoints
<1> QED BY <1>1, <1>6, <1>7, <1>8

(* The end of a realtime connection *)
LEMMA E_EndRealtime ==
  ASSUME IInv, ExactInv, NEW r \in Requests, EndRealtime(r)
  PROVE  ExactInv'
<1>1. /\ pc[r] = "serve" /\ prof[r].handler = "realtime" /\ UNCHANGED <<prof, sess, row, debit, bg, loc, faulted>>
      /\ Goto(r, "ok")
  BY DEF EndRealtime
<1>2. Only(r)
  BY <1>1 DEF Only, Goto, IInv, TypeOK
<1> SUFFICES ASSUME Sound(r)' PROVE New(r)
  BY <1>2, ExactFrame
<1>3. Sound(r) /\ Old(r)
  BY <1>1 DEF Sound, ExactInv, Old
<1>4. pc'[r] = "ok"
  BY <1>1 DEF Goto, IInv, TypeOK
<1> QED BY <1>1, <1>3, <1>4
    DEF Old, New, Exact1, SessionExact, ServedExact, FailedExact, Debits, Held, Failing, OnToken, FromSub,
        Empty, NoSessionPoints

(* A charge to the funding source that succeeds *)
LEMMA TakeFundingFields ==
  ASSUME IInv, NEW r \in Requests, NEW n \in Int, TakeFunding(r, n, "ok")
  PROVE  /\ SubFull(r, n) => FromSub(sess[r]) /\ debit'[r] = debit[r]
         /\ ~ SubFull(r, n) =>
              /\ debit'[r].wallet = debit[r].wallet + (IF FromSub(sess[r]) THEN 0 ELSE n)
              /\ debit'[r].token = debit[r].token
              /\ debit'[r].amt = debit[r].amt + (IF FromSub(sess[r]) THEN n ELSE 0)
              /\ debit'[r].cnt = debit[r].cnt
         /\ \A q \in Requests \ {r} : debit'[q] = debit[q]
<1>1. debit[r].wallet \in Int /\ debit[r].amt \in Int
  BY TakeFields
<1>2. CASE SubFull(r, n)
  BY <1>2 DEF SubFull, TakeFunding, FromSub
<1>3. CASE ~ SubFull(r, n) /\ sess[r].source = "subscription"
  <2>1. TakeAmount(r, n)
    BY <1>3 DEF TakeFunding, Applied
  <2>2. \A q \in Requests \ {r} : debit'[q] = debit[q]
    BY <2>1 DEF TakeAmount, IInv, TypeOK
  <2>3. /\ debit'[r].amt = debit[r].amt + n /\ debit'[r].wallet = debit[r].wallet
        /\ debit'[r].token = debit[r].token /\ debit'[r].cnt = debit[r].cnt
    BY <2>1, TakeFields
  <2> QED BY <1>1, <1>3, <2>2, <2>3 DEF FromSub
<1>4. CASE ~ SubFull(r, n) /\ sess[r].source # "subscription"
  <2>1. TakeWallet(r, n)
    BY <1>4 DEF TakeFunding, Applied
  <2>2. \A q \in Requests \ {r} : debit'[q] = debit[q]
    BY <2>1 DEF TakeWallet, IInv, TypeOK
  <2>3. /\ debit'[r].wallet = debit[r].wallet + n /\ debit'[r].amt = debit[r].amt
        /\ debit'[r].token = debit[r].token /\ debit'[r].cnt = debit[r].cnt
    BY <2>1, TakeFields
  <2> QED BY <1>1, <1>4, <2>2, <2>3 DEF FromSub
<1> QED BY <1>2, <1>3, <1>4

(* Where a request is that charges through PostConsumeQuota, and how many may do
   so while a refund runs *)
LEMMA E_PostFunding ==
  ASSUME IInv, ExactInv, NEW r \in Requests, PostFunding(r)
  PROVE  ExactInv'
<1> DEFINE n == loc[r].post
<1>1. PICK o \in Outcomes :
         /\ Call(r, o) /\ TakeFunding(r, n, o)
         /\ Goto(r, IF SubFull(r, n) \/ o # "ok" THEN AfterError(loc[r].next) ELSE "post_token")
  BY DEF PostFunding
<1>2. pc[r] = "post_funding" /\ UNCHANGED <<prof, sess, row, bg, loc>>
  BY DEF PostFunding
<1>3. Only(r)
  BY <1>1, <1>2, CallSound DEF Only, TakeFunding, TakeAmount, TakeWallet, Goto, IInv, TypeOK
<1> SUFFICES ASSUME Sound(r)' PROVE New(r)
  BY <1>3, ExactFrame
<1>4. o = "ok" /\ Sound(r) /\ Old(r)
  BY <1>1, <1>2, CallSound DEF Sound, IInv, ExactInv, Old
<1>5. n \in Int /\ loc[r].next \in {"ok", "serve", "failed"}
  BY DEF IInv, TypeOK, LocalType
<1>6. pc'[r] = IF SubFull(r, n) THEN AfterError(loc[r].next) ELSE "post_token"
  BY <1>1, <1>4 DEF Goto, IInv, TypeOK
<1>7. /\ SubFull(r, n) => FromSub(sess[r]) /\ debit'[r] = debit[r]
      /\ ~ SubFull(r, n) =>
           /\ debit'[r].wallet = debit[r].wallet + (IF FromSub(sess[r]) THEN 0 ELSE n)
           /\ debit'[r].token = debit[r].token
           /\ debit'[r].amt = debit[r].amt + (IF FromSub(sess[r]) THEN n ELSE 0)
           /\ debit'[r].cnt = debit[r].cnt
  BY <1>1, <1>4, <1>5, TakeFundingFields
<1>8. SessionExact(pc'[r], prof[r], sess'[r], row'[r], loc'[r])
  BY <1>2, <1>4, <1>5, <1>6 DEF Old, Exact1, SessionExact, AfterError, Held
<1>9. CASE loc[r].next = "ok"
  <2>1. sess[r].source = "none" /\ n = loc[r].usage /\ Debits(debit[r], 0, 0, 0, 0)
    BY <1>2, <1>4, <1>9 DEF Old, Exact1, ServedExact
  <2>2. pc'[r] = "post_token" /\ Debits(debit'[r], n, 0, 0, 0)
    BY <1>5, <1>6, <1>7, <2>1 DEF FromSub, Debits
  <2>3. ServedExact(pc'[r], prof[r], sess'[r], row'[r], debit'[r], loc'[r])
    BY <1>2, <1>9, <2>1, <2>2 DEF ServedExact, Held, NoSessionPoints
  <2>4. FailedExact(pc'[r], prof[r], sess'[r], row'[r], debit'[r], bg'[r], loc'[r])
    BY <1>2, <1>9, <2>2 DEF FailedExact, Failing
  <2> QED BY <1>8, <2>3, <2>4 DEF New, Exact1
<1>10. CASE loc[r].next = "serve"
  <2>1. pc'[r] \in {"ok", "post_token"} /\ loc[r].turns > 0 /\ prof[r].handler = "realtime"
    BY <1>2, <1>4, <1>6, <1>10 DEF Old, Exact1, SessionExact, ServedExact, AfterError
  <2>2. ServedExact(pc'[r], prof[r], sess'[r], row'[r], debit'[r], loc'[r])
    BY <1>2, <1>10, <2>1 DEF ServedExact, Held, NoSessionPoints
  <2>3. FailedExact(pc'[r], prof[r], sess'[r], row'[r], debit'[r], bg'[r], loc'[r])
    BY <1>2, <1>10, <2>1 DEF FailedExact, Failing
  <2> QED BY <1>8, <2>2, <2>3 DEF New, Exact1
<1>11. CASE loc[r].next = "failed"
  <2>1. pc'[r] = IF SubFull(r, n) THEN "failed" ELSE "post_token"
    BY <1>6, <1>11 DEF AfterError
  <2>2. n = ViolationFee /\ loc[r].fee /\ FeeExact(prof[r], sess[r], row[r], debit[r], bg[r], 0, 0)
        /\ (bg[r] = "funding" /\ FromSub(sess[r]) => row[r].status = "consumed")
    BY <1>2, <1>4, <1>11 DEF Old, Exact1, FailedExact, Failing
  <2>3. ServedExact(pc'[r], prof[r], sess'[r], row'[r], debit'[r], loc'[r])
    BY <1>2, <1>11, <2>1 DEF ServedExact, Held, NoSessionPoints
  <2>4. CASE SubFull(r, n)
    <3>1. pc'[r] = "failed" /\ FromSub(sess[r]) /\ debit'[r] = debit[r]
      BY <1>7, <2>1, <2>4
    <3>2. FailedExact(pc'[r], prof[r], sess'[r], row'[r], debit'[r], bg'[r], loc'[r])
      BY <1>2, <2>2, <3>1 DEF FailedExact, Failing
    <3> QED BY <1>8, <2>3, <3>2 DEF New, Exact1
  <2>5. CASE ~ SubFull(r, n)
    <3>1. pc'[r] = "post_token"
      BY <2>1, <2>5
    <3>2. debit[r].wallet \in Int /\ debit[r].amt \in Int /\ row[r].amt \in Int /\ sess[r].consumed \in Int
      BY DEF IInv, TypeOK, DebitType, RowType, SessionType
    <3>3. FeeExact(prof[r], sess[r], row[r], debit'[r], bg[r], n, 0)
      BY <1>5, <1>7, <2>2, <2>5, <3>2 DEF FeeExact, Debits
    <3>4. FailedExact(pc'[r], prof[r], sess'[r], row'[r], debit'[r], bg'[r], loc'[r])
      BY <1>2, <1>11, <2>2, <3>1, <3>3 DEF FailedExact, Failing
    <3> QED BY <1>8, <2>3, <3>4 DEF New, Exact1
  <2> QED BY <2>4, <2>5
<1> QED BY <1>5, <1>9, <1>10, <1>11

(* The charge to the token that follows *)
LEMMA E_PostToken ==
  ASSUME IInv, ExactInv, NEW r \in Requests, PostToken(r)
  PROVE  ExactInv'
<1> DEFINE n == loc[r].post
           on == (sess[r].source # "subscription" \/ SubAmountTotal > 0) /\ ~ prof[r].playground
<1>1. PICK o \in Outcomes :
         /\ Call(r, o)
         /\ IF on
              THEN /\ TakeToken(r, IF Applied(o) THEN n ELSE 0)
                   /\ Goto(r, IF o = "ok" THEN loc[r].next ELSE AfterError(loc[r].next))
              ELSE o = "ok" /\ UNCHANGED debit /\ Goto(r, loc[r].next)
  BY DEF PostToken
<1>2. pc[r] = "post_token" /\ UNCHANGED <<prof, sess, row, bg, loc>>
  BY DEF PostToken
<1>3. Only(r)
  BY <1>1, <1>2, CallSound DEF Only, TakeToken, Goto, IInv, TypeOK
<1> SUFFICES ASSUME Sound(r)' PROVE New(r)
  BY <1>3, ExactFrame
<1>4. o = "ok" /\ Sound(r) /\ Old(r)
  BY <1>1, <1>2, CallSound DEF Sound, IInv, ExactInv, Old
<1>5. n \in Int /\ loc[r].next \in {"ok", "serve", "failed"} /\ debit[r].token \in Int
  BY DEF IInv, TypeOK, LocalType, DebitType
<1>6. pc'[r] = loc[r].next /\ (IF on THEN TakeToken(r, n) ELSE UNCHANGED debit)
  BY <1>1, <1>4 DEF Goto, Applied, IInv, TypeOK
<1>7. /\ debit'[r].token = debit[r].token + (IF on THEN n ELSE 0)
      /\ debit'[r].wallet = debit[r].wallet /\ debit'[r].amt = debit[r].amt
      /\ debit'[r].cnt = debit[r].cnt
  <2>1. CASE on
    <3>1. TakeToken(r, n)
      BY <1>6, <2>1
    <3> QED BY <1>5, <2>1, <3>1, TakeFields
  <2>2. CASE ~ on
    BY <1>5, <1>6, <2>2
  <2> QED BY <2>1, <2>2
<1>8. on = Charged(prof[r], sess[r])
  BY DEF Charged, FromSub
<1> HIDE DEF on
<1>9. CASE loc[r].next = "ok"
  <2>1. sess[r].source = "none" /\ n = loc[r].usage /\ Debits(debit[r], n, 0, 0, 0)
    BY <1>2, <1>4, <1>9 DEF Old, Exact1, ServedExact
  <2>2. pc'[r] = "ok" /\ Debits(debit'[r], n, IF on THEN n ELSE 0, 0, 0)
    BY <1>5, <1>6, <1>7, <1>9, <2>1 DEF Debits
  <2>3. ServedExact(pc'[r], prof[r], sess'[r], row'[r], debit'[r], loc'[r])
    BY <1>2, <1>8, <2>1, <2>2 DEF ServedExact, Held, NoSessionPoints, FromSub
  <2>4. FailedExact(pc'[r], prof[r], sess'[r], row'[r], debit'[r], bg'[r], loc'[r])
    BY <2>2 DEF FailedExact, Failing
  <2>5. SessionExact(pc'[r], prof[r], sess'[r], row'[r], loc'[r])
    BY <1>2, <1>4, <2>2 DEF Old, Exact1, SessionExact, Held
  <2> QED BY <2>3, <2>4, <2>5 DEF New, Exact1
<1>10. CASE loc[r].next = "serve"
  <2>1. pc'[r] = "serve" /\ loc[r].turns > 0
    BY <1>2, <1>4, <1>6, <1>10 DEF Old, Exact1, ServedExact
  <2>2. loc[r].turns # 0
    BY <2>1
  <2> QED BY <1>2, <1>4, <2>1, <2>2
    DEF Old, New, Exact1, SessionExact, ServedExact, FailedExact, Debits, Held, Failing, OnToken, FromSub,
        Empty, NoSessionPoints
<1>11. CASE loc[r].next = "failed"
  <2>1. pc'[r] = "failed"
    BY <1>6, <1>11
  <2>2. n = ViolationFee /\ loc[r].fee /\ FeeExact(prof[r], sess[r], row[r], debit[r], bg[r], n, 0)
        /\ (bg[r] = "funding" /\ FromSub(sess[r]) => row[r].status = "consumed")
    BY <1>2, <1>4, <1>11 DEF Old, Exact1, FailedExact, Failing
  <2>3. sess[r].tok \in Int
    BY DEF IInv, TypeOK, SessionType
  <2>4. FeeExact(prof[r], sess[r], row[r], debit'[r], bg[r], n, IF on THEN n ELSE 0)
    BY <1>5, <1>7, <2>2, <2>3 DEF FeeExact, Debits, OnToken
  <2>5. FailedExact(pc'[r], prof[r], sess'[r], row'[r], debit'[r], bg'[r], loc'[r])
    BY <1>2, <1>8, <2>1, <2>2, <2>4 DEF FailedExact, Failing
  <2>6. ServedExact(pc'[r], prof[r], sess'[r], row'[r], debit'[r], loc'[r])
    BY <2>1 DEF ServedExact, Held, NoSessionPoints
  <2>7. SessionExact(pc'[r], prof[r], sess'[r], row'[r], loc'[r])
    BY <1>2, <1>4, <2>1 DEF Old, Exact1, SessionExact, Held
  <2> QED BY <2>5, <2>6, <2>7 DEF New, Exact1
<1> QED BY <1>5, <1>9, <1>10, <1>11

(* Settling the funding source leaves the usage as its cost. *)
LEMMA E_SettleFunding ==
  ASSUME IInv, ExactInv, NEW r \in Requests, SettleFunding(r)
  PROVE  ExactInv'
<1> DEFINE delta == SettleDelta(r, loc[r].usage)
<1>1. PICK o \in Outcomes :
         /\ Call(r, o) /\ TakeFunding(r, delta, o)
         /\ IF SubFull(r, delta) \/ o # "ok" THEN Goto(r, "settle_error") /\ UNCHANGED sess
            ELSE Goto(r, "settle_token") /\ CommitFunding(r)
  BY DEF SettleFunding
<1>2. pc[r] = "settle" /\ UNCHANGED <<prof, row, bg, loc>>
  BY DEF SettleFunding
<1>3. Only(r)
  BY <1>1, <1>2, CallSound DEF Only, TakeFunding, TakeAmount, TakeWallet, CommitFunding, Goto, IInv, TypeOK
<1> SUFFICES ASSUME Sound(r)' PROVE New(r)
  BY <1>3, ExactFrame
<1>4. o = "ok" /\ Sound(r) /\ Old(r)
  BY <1>1, <1>2, CallSound DEF Sound, IInv, ExactInv, Old
<1>5. /\ loc[r].usage \in Nat /\ sess[r].pre \in Nat /\ sess[r].consumed \in Nat /\ row[r].amt \in Nat
      /\ SubAmountTotal \in Nat /\ sess[r] \in SessionType
      /\ sess[r].source \in {"none", "wallet", "subscription"}
  BY ConstantsAssumption DEF IInv, TypeOK, LocalType, SessionType, RowType
<1>6. /\ sess[r].source # "none" /\ (sess[r].source = "wallet" => sess[r].pre = sess[r].consumed)
      /\ (FromSub(sess[r]) /\ SubAmountTotal > 0 => sess[r].pre = row[r].amt)
  BY <1>2 DEF IInv, Inv1, Safe1, Consistent, HoldPoints, FromSub
<1>7. delta \in Int /\ delta = IF FromSub(sess[r]) /\ SubAmountTotal = 0 THEN 0 ELSE loc[r].usage - sess[r].pre
  BY <1>5 DEF SettleDelta, FromSub
<1> HIDE DEF delta
<1>8. CASE SubFull(r, delta)
  <2>1. pc'[r] = "settle_error" /\ sess'[r] = sess[r]
    BY <1>1, <1>8 DEF Goto, IInv, TypeOK
  <2> QED BY <1>2, <1>4, <2>1
    DEF Old, New, Exact1, SessionExact, ServedExact, FailedExact, Debits, Held, Failing, OnToken, FromSub,
        Empty, NoSessionPoints
<1>9. CASE ~ SubFull(r, delta)
  <2>1. pc'[r] = "settle_token" /\ sess'[r] = [sess[r] EXCEPT !.fundingSettled = TRUE]
    BY <1>1, <1>4, <1>9 DEF CommitFunding, Goto, IInv, TypeOK
  <2>2. /\ sess'[r].source = sess[r].source /\ sess'[r].tok = sess[r].tok
        /\ sess'[r].consumed = sess[r].consumed
        /\ sess'[r].subAmt = sess[r].subAmt /\ sess'[r].subCnt = sess[r].subCnt
    BY <1>5, <2>1 DEF SessionType
  <2>3. /\ debit'[r].wallet = debit[r].wallet + (IF FromSub(sess[r]) THEN 0 ELSE delta)
        /\ debit'[r].token = debit[r].token
        /\ debit'[r].amt = debit[r].amt + (IF FromSub(sess[r]) THEN delta ELSE 0)
        /\ debit'[r].cnt = debit[r].cnt
    BY <1>1, <1>4, <1>7, <1>9, TakeFundingFields
  <2>4. /\ Debits(debit[r], IF sess[r].source = "wallet" THEN sess[r].consumed ELSE 0, OnToken(prof[r], sess[r]),
                  IF FromSub(sess[r]) THEN row[r].amt ELSE 0, IF FromSub(sess[r]) THEN row[r].cnt ELSE 0)
        /\ FromSub(sess[r]) => row[r].amt = Required(prof[r]) /\ row[r].cnt = RequiredCount
        /\ FromSub(sess[r]) /\ loc[r].usage = 0 => RequiredCount = 0
    BY <1>2, <1>4 DEF Old, Exact1, SessionExact, ServedExact, Held
  <2>5. SubAmountTotal = 0 => Required(prof[r]) = 0
    BY DEF Required
  <2>6. debit'[r].wallet = IF FromSub(sess[r]) THEN 0 ELSE loc[r].usage
    BY <1>5, <1>6, <1>7, <2>3, <2>4 DEF Debits, FromSub
  <2>7. debit'[r].amt = IF FromSub(sess[r]) /\ SubAmountTotal > 0 THEN loc[r].usage ELSE 0
    BY <1>5, <1>6, <1>7, <2>3, <2>4, <2>5 DEF Debits
  <2>8. debit'[r].cnt = IF FromSub(sess[r]) /\ loc[r].usage > 0 THEN RequiredCount ELSE 0
    BY <1>5, <2>3, <2>4 DEF Debits
  <2>9. debit'[r].token = OnToken(prof[r], sess'[r])
    BY <2>2, <2>3, <2>4 DEF Debits, OnToken
  <2>10. ServedExact(pc'[r], prof[r], sess'[r], row'[r], debit'[r], loc'[r])
    BY <1>2, <2>1, <2>2, <2>6, <2>7, <2>8, <2>9 DEF ServedExact, Debits, Held, NoSessionPoints, FromSub
  <2>11. SessionExact(pc'[r], prof[r], sess'[r], row'[r], loc'[r])
    BY <1>2, <1>4, <1>6, <2>1, <2>2 DEF Old, Exact1, SessionExact, Held, FromSub
  <2>12. FailedExact(pc'[r], prof[r], sess'[r], row'[r], debit'[r], bg'[r], loc'[r])
    BY <2>1 DEF FailedExact, Failing
  <2> QED BY <2>10, <2>11, <2>12 DEF New, Exact1
<1> QED BY <1>8, <1>9

(* Settling the token leaves the usage as its charge. *)
LEMMA E_SettleToken ==
  ASSUME IInv, ExactInv, NEW r \in Requests, SettleToken(r)
  PROVE  ExactInv'
<1> DEFINE n == loc[r].usage - sess[r].tok
           on == UseTokenQuota(r) /\ ~ prof[r].playground /\ loc[r].usage # sess[r].tok
<1>1. PICK o \in Outcomes :
         /\ Call(r, o)
         /\ IF on THEN TakeToken(r, IF Applied(o) THEN n ELSE 0) ELSE o = "ok" /\ UNCHANGED debit
  BY DEF SettleToken
<1>2. /\ pc[r] = "settle_token" /\ UNCHANGED <<prof, row, bg, loc>>
      /\ sess' = [sess EXCEPT ![r].settled = TRUE] /\ Goto(r, "ok")
  BY DEF SettleToken
<1>3. Only(r)
  BY <1>1, <1>2, CallSound DEF Only, TakeToken, Goto, IInv, TypeOK
<1> SUFFICES ASSUME Sound(r)' PROVE New(r)
  BY <1>3, ExactFrame
<1>4. pc'[r] = "ok" /\ sess'[r] = [sess[r] EXCEPT !.settled = TRUE]
  BY <1>2 DEF Goto, IInv, TypeOK
<1>5. o = "ok" /\ Sound(r) /\ Old(r)
  BY <1>1, <1>2, CallSound DEF Sound, IInv, ExactInv, Old
<1>6. /\ loc[r].usage \in Nat /\ sess[r].tok \in Nat /\ debit[r].token \in Int /\ n \in Int
      /\ SubAmountTotal \in Nat /\ sess[r] \in SessionType
      /\ sess[r].source \in {"none", "wallet", "subscription"}
  BY ConstantsAssumption DEF IInv, TypeOK, LocalType, SessionType, DebitType
<1>7. /\ sess'[r].source = sess[r].source /\ sess'[r].tok = sess[r].tok
      /\ sess'[r].subAmt = sess[r].subAmt /\ sess'[r].subCnt = sess[r].subCnt
  BY <1>4, <1>6 DEF SessionType
<1>8. IF on THEN TakeToken(r, n) ELSE UNCHANGED debit
  BY <1>1, <1>5 DEF Applied
<1>9. /\ debit'[r].token = IF on THEN debit[r].token + n ELSE debit[r].token
      /\ debit'[r].wallet = debit[r].wallet /\ debit'[r].amt = debit[r].amt
      /\ debit'[r].cnt = debit[r].cnt
  <2>1. CASE on
    <3>1. TakeToken(r, n)
      BY <1>8, <2>1
    <3> HIDE DEF n
    <3> QED BY <1>6, <2>1, <3>1, TakeFields
  <2>2. CASE ~ on
    BY <1>8, <2>2
  <2> QED BY <2>1, <2>2
<1>10. /\ debit[r].token = OnToken(prof[r], sess[r]) /\ sess[r].source # "none"
       /\ (sess[r].tok > 0 => sess[r].source = "wallet" \/ SubAmountTotal > 0)
  BY <1>2, <1>5 DEF Old, Exact1, SessionExact, ServedExact, Debits
<1>11. debit'[r].token = IF Charged(prof[r], sess[r]) THEN loc[r].usage ELSE 0
  <2>1. CASE Charged(prof[r], sess[r])
    <3>1. UseTokenQuota(r) /\ ~ prof[r].playground
      BY <1>6, <1>10, <2>1 DEF Charged, UseTokenQuota, FromSub
    <3> QED BY <1>6, <1>9, <1>10, <2>1, <3>1 DEF OnToken
  <2>2. CASE ~ Charged(prof[r], sess[r])
    <3>1. ~ on
      BY <1>6, <1>10, <2>2 DEF Charged, UseTokenQuota, FromSub
    <3>2. OnToken(prof[r], sess[r]) = 0
      BY <1>6, <1>10, <2>2 DEF Charged, FromSub, OnToken
    <3> QED BY <1>9, <1>10, <2>2, <3>1, <3>2
  <2> QED BY <2>1, <2>2
<1> HIDE DEF on, n
<1>12. ServedExact(pc'[r], prof[r], sess'[r], row'[r], debit'[r], loc'[r])
  BY <1>2, <1>4, <1>5, <1>7, <1>9, <1>11
     DEF Old, Exact1, ServedExact, Debits, Held, NoSessionPoints, FromSub, Charged
<1>13. SessionExact(pc'[r], prof[r], sess'[r], row'[r], loc'[r])
  BY <1>2, <1>4, <1>5, <1>7, <1>10 DEF Old, Exact1, SessionExact, Held, FromSub
<1>14. FailedExact(pc'[r], prof[r], sess'[r], row'[r], debit'[r], bg'[r], loc'[r])
  BY <1>4 DEF FailedExact, Failing
<1> QED BY <1>12, <1>13, <1>14 DEF New, Exact1

(* The refund of a request that cost nothing *)
LEMMA E_ZeroUsageRefund ==
  ASSUME IInv, ExactInv, NEW r \in Requests, ZeroUsageRefund(r)
  PROVE  ExactInv'
<1>1. PICK o \in Outcomes :
        /\ RefundFunding(r, o) /\ Call(r, o) /\ pc[r] = "zero_refund" /\ UNCHANGED <<prof, sess, bg>>
        /\ IF TriesAgain(r, o) THEN CountTry(r) /\ UNCHANGED pc
           ELSE Goto(r, IF o = "ok" THEN "zero_token" ELSE "settle_error") /\ UNCHANGED loc
  BY DEF ZeroUsageRefund, RefundFunding
<1>2. Only(r)
  BY <1>1, CallSound DEF Only, RefundFunding, TakeWallet, TakeHold, CountTry, Goto, IInv, TypeOK
<1> SUFFICES ASSUME Sound(r)' PROVE New(r)
  BY <1>2, ExactFrame
<1>3. o = "ok" /\ Sound(r) /\ Old(r)
  BY <1>1, CallSound DEF Sound, IInv, ExactInv, Old
<1>4. pc'[r] = "zero_token" /\ UNCHANGED loc
  BY <1>1, <1>3 DEF TriesAgain, Goto, IInv, TypeOK
<1>5. SessionExact(pc[r], prof[r], sess[r], row[r], loc[r])
      /\ FromSub(sess[r]) /\ row[r].status = "consumed"
  BY <1>1, <1>3 DEF Old, Exact1, SessionExact, ServedExact, Held
<1>6. /\ debit'[r].wallet = debit[r].wallet - (IF sess[r].source = "wallet" THEN sess[r].consumed ELSE 0)
      /\ debit'[r].token = debit[r].token
      /\ debit'[r].amt = debit[r].amt - (IF FromSub(sess[r]) THEN row[r].amt ELSE 0)
      /\ debit'[r].cnt = debit[r].cnt - (IF FromSub(sess[r]) THEN row[r].cnt ELSE 0)
      /\ row'[r].amt = row[r].amt /\ row'[r].cnt = row[r].cnt
  BY <1>1, <1>3, <1>5, RefundExact
<1>7. row[r].amt \in Nat /\ row[r].cnt \in Nat
  BY DEF IInv, TypeOK, RowType
<1>8. Debits(debit'[r], 0, OnToken(prof[r], sess[r]), 0, 0)
  BY <1>1, <1>3, <1>5, <1>6, <1>7 DEF Old, Exact1, ServedExact, Held, Debits, FromSub
<1> QED BY <1>1, <1>3, <1>4, <1>5, <1>6, <1>8
    DEF Old, New, Exact1, SessionExact, ServedExact, FailedExact, Held, Failing, FromSub, NoSessionPoints

(* The token of a request that cost nothing *)
LEMMA E_ZeroUsageToken ==
  ASSUME IInv, ExactInv, NEW r \in Requests, ZeroUsageToken(r)
  PROVE  ExactInv'
<1> DEFINE n == - sess[r].tok
           on == UseTokenQuota(r) /\ ~ prof[r].playground /\ sess[r].tok > 0
<1>1. PICK o \in Outcomes :
         /\ Call(r, o)
         /\ IF on THEN TakeToken(r, IF Applied(o) THEN n ELSE 0) ELSE o = "ok" /\ UNCHANGED debit
         /\ IF o # "ok" THEN Goto(r, "settle_error") /\ UNCHANGED sess
            ELSE /\ Goto(r, "ok")
                 /\ sess' = [sess EXCEPT ![r] = [@ EXCEPT !.pre = 0, !.tok = 0,
                                         !.fundingSettled = TRUE, !.settled = TRUE]]
  BY DEF ZeroUsageToken
<1>2. pc[r] = "zero_token" /\ UNCHANGED <<prof, row, bg, loc>>
  BY DEF ZeroUsageToken
<1>3. Only(r)
  BY <1>1, <1>2, CallSound DEF Only, TakeToken, Goto, IInv, TypeOK
<1> SUFFICES ASSUME Sound(r)' PROVE New(r)
  BY <1>3, ExactFrame
<1>4. o = "ok" /\ Sound(r) /\ Old(r)
  BY <1>1, <1>2, CallSound DEF Sound, IInv, ExactInv, Old
<1>5. pc'[r] = "ok" /\ sess'[r] = [sess[r] EXCEPT !.pre = 0, !.tok = 0, !.fundingSettled = TRUE,
                                                  !.settled = TRUE]
  BY <1>1, <1>4 DEF Goto, IInv, TypeOK
<1>6. /\ sess[r].tok \in Nat /\ debit[r].token \in Int /\ n \in Int /\ SubAmountTotal \in Nat
      /\ sess[r] \in SessionType
  BY ConstantsAssumption DEF IInv, TypeOK, SessionType, DebitType
<1>7. /\ sess'[r].source = sess[r].source /\ sess'[r].tok = 0
      /\ sess'[r].subAmt = sess[r].subAmt /\ sess'[r].subCnt = sess[r].subCnt
  BY <1>5, <1>6 DEF SessionType
<1>8. IF on THEN TakeToken(r, n) ELSE UNCHANGED debit
  BY <1>1, <1>4 DEF Applied
<1>9. /\ debit'[r].token = IF on THEN debit[r].token + n ELSE debit[r].token
      /\ debit'[r].wallet = debit[r].wallet /\ debit'[r].amt = debit[r].amt
      /\ debit'[r].cnt = debit[r].cnt
  <2>1. CASE on
    <3>1. TakeToken(r, n)
      BY <1>8, <2>1
    <3> HIDE DEF n
    <3> QED BY <1>6, <2>1, <3>1, TakeFields
  <2>2. CASE ~ on
    BY <1>8, <2>2
  <2> QED BY <2>1, <2>2
<1>10. /\ Debits(debit[r], 0, OnToken(prof[r], sess[r]), 0, 0) /\ FromSub(sess[r]) /\ loc[r].usage = 0
       /\ (sess[r].tok > 0 => SubAmountTotal > 0)
  BY <1>2, <1>4 DEF Old, Exact1, SessionExact, ServedExact, FromSub
<1>11. debit'[r].token = 0
  <2>1. debit[r].token = IF prof[r].playground THEN 0 ELSE sess[r].tok
    BY <1>10 DEF Debits, OnToken
  <2>2. ~ on => prof[r].playground \/ sess[r].tok = 0
    BY <1>6, <1>10 DEF UseTokenQuota, FromSub
  <2> QED BY <1>6, <1>9, <2>1, <2>2
<1> HIDE DEF on, n
<1>12. Debits(debit'[r], 0, 0, 0, 0)
  BY <1>9, <1>10, <1>11 DEF Debits
<1>13. ServedExact(pc'[r], prof[r], sess'[r], row'[r], debit'[r], loc'[r])
  BY <1>2, <1>5, <1>7, <1>10, <1>12 DEF ServedExact, Debits, Held, NoSessionPoints, FromSub
<1>14. SessionExact(pc'[r], prof[r], sess'[r], row'[r], loc'[r])
  BY <1>2, <1>4, <1>5, <1>7, <1>10 DEF Old, Exact1, SessionExact, Held, FromSub
<1>15. FailedExact(pc'[r], prof[r], sess'[r], row'[r], debit'[r], bg'[r], loc'[r])
  BY <1>5 DEF FailedExact, Failing
<1> QED BY <1>13, <1>14, <1>15 DEF New, Exact1

(* Refund: a session that needs none holds nothing. *)
LEMMA E_Refund ==
  ASSUME IInv, ExactInv, NEW r \in Requests, Refund(r)
  PROVE  ExactInv'
<1>1. pc[r] = "fail" /\ UNCHANGED <<prof, row, debit, faulted>>
  BY DEF Refund
<1>2. IF NeedsRefund(r)
        THEN sess' = [sess EXCEPT ![r].refunded = TRUE] /\ bg' = [bg EXCEPT ![r] = "funding"]
        ELSE UNCHANGED <<sess, bg>>
  BY DEF Refund
<1>3. IF loc[r].fee
        THEN /\ loc' = [loc EXCEPT ![r] = [@ EXCEPT !.post = ViolationFee, !.next = "failed"]]
             /\ Goto(r, "post_funding")
        ELSE UNCHANGED loc /\ Goto(r, "failed")
  BY DEF Refund
<1>4. Only(r)
  BY <1>1, <1>2, <1>3 DEF Only, Goto, IInv, TypeOK
<1> SUFFICES ASSUME Sound(r)' PROVE New(r)
  BY <1>4, ExactFrame
<1>5. bg[r] = "idle"
  BY <1>1 DEF IInv, Inv1, Safe1, BgAfterFailure
<1>6. Sound(r) /\ Old(r)
  BY <1>1, <1>5 DEF Sound, ExactInv, Old
<1>7. /\ sess[r] \in SessionType /\ loc[r] \in LocalType /\ row[r].amt \in Nat /\ row[r].cnt \in Nat
      /\ sess[r].tok \in Nat /\ sess[r].subAmt \in Nat /\ sess[r].subCnt \in Nat /\ loc[r].turns \in Nat
      /\ sess[r].source \in {"none", "wallet", "subscription"} /\ sess[r].consumed \in Nat
      /\ ViolationFee \in Nat
  BY ConstantsAssumption DEF IInv, TypeOK, SessionType, LocalType, RowType
<1>8. /\ loc'[r].turns = loc[r].turns /\ loc'[r].fee = loc[r].fee
      /\ IF loc[r].fee THEN loc'[r].post = ViolationFee /\ loc'[r].next = "failed" /\ pc'[r] = "post_funding"
         ELSE pc'[r] = "failed"
  <2>1. CASE loc[r].fee
    <3>1. loc'[r] = [loc[r] EXCEPT !.post = ViolationFee, !.next = "failed"] /\ pc'[r] = "post_funding"
      BY <1>3, <2>1 DEF Goto, IInv, TypeOK
    <3> QED BY <1>7, <2>1, <3>1 DEF LocalType
  <2>2. CASE ~ loc[r].fee
    BY <1>3, <2>2 DEF Goto, IInv, TypeOK
  <2> QED BY <2>1, <2>2
<1>9. /\ sess'[r].source = sess[r].source /\ sess'[r].tok = sess[r].tok
      /\ sess'[r].consumed = sess[r].consumed
      /\ sess'[r].subAmt = sess[r].subAmt /\ sess'[r].subCnt = sess[r].subCnt
      /\ bg'[r] = IF NeedsRefund(r) THEN "funding" ELSE "idle"
      /\ sess[r].source = "none" => sess'[r] = sess[r]
  <2>1. CASE NeedsRefund(r)
    <3>1. sess'[r] = [sess[r] EXCEPT !.refunded = TRUE] /\ bg'[r] = "funding"
      BY <1>2, <2>1 DEF IInv, TypeOK
    <3>2. sess[r].source # "none"
      BY <2>1 DEF NeedsRefund
    <3> QED BY <1>7, <2>1, <3>1, <3>2 DEF SessionType
  <2>2. CASE ~ NeedsRefund(r)
    BY <1>2, <1>5, <2>2
  <2> QED BY <2>1, <2>2
<1>10. /\ Debits(debit[r], IF sess[r].source = "wallet" THEN sess[r].consumed ELSE 0, OnToken(prof[r], sess[r]),
                 IF FromSub(sess[r]) THEN row[r].amt ELSE 0, IF FromSub(sess[r]) THEN row[r].cnt ELSE 0)
       /\ FromSub(sess[r]) => row[r].status = "consumed" /\ sess[r].subAmt = Primary(row[r].amt, row[r].cnt)
                              /\ sess[r].subCnt = row[r].cnt
       /\ ~ sess[r].settled /\ ~ sess[r].refunded /\ ~ sess[r].fundingSettled
       /\ sess[r].source = "wallet" => sess[r].tok = sess[r].consumed
       /\ sess[r].source = "none" => sess[r].tok = 0
  BY <1>1, <1>6 DEF Old, Exact1, SessionExact, ServedExact, Held, NoSession
<1>11. FeeExact(prof[r], sess'[r], row'[r], debit'[r], bg'[r], 0, 0)
  <2>1. CASE NeedsRefund(r)
    BY <1>1, <1>7, <1>9, <1>10, <2>1 DEF FeeExact, Debits, FromSub, OnToken
  <2>2. CASE ~ NeedsRefund(r)
    <3>1. sess[r].source # "none" => sess[r].tok = 0 /\ sess[r].subAmt = 0 /\ sess[r].subCnt = 0
      BY <1>7, <1>10, <2>2 DEF NeedsRefund
    <3>2. Debits(debit[r], 0, 0, 0, 0)
      BY <1>7, <1>10, <3>1 DEF Debits, FromSub, OnToken, Primary
    <3> QED BY <1>1, <1>9, <2>2, <3>2 DEF FeeExact, Debits, FromSub
  <2> QED BY <2>1, <2>2
<1>12. SessionExact(pc'[r], prof[r], sess'[r], row'[r], loc'[r])
  BY <1>1, <1>6, <1>8, <1>9 DEF Old, Exact1, SessionExact, Held, FromSub
<1>13. ServedExact(pc'[r], prof[r], sess'[r], row'[r], debit'[r], loc'[r])
  BY <1>8 DEF ServedExact, Held, NoSessionPoints
<1>14. FailedExact(pc'[r], prof[r], sess'[r], row'[r], debit'[r], bg'[r], loc'[r])
  BY <1>1, <1>8, <1>9, <1>10, <1>11 DEF FailedExact, Failing, FromSub
<1> QED BY <1>12, <1>13, <1>14 DEF New, Exact1

(* The goroutine of Refund runs for a request that has failed. *)
LEMMA BgFailing ==
  ASSUME IInv, NEW r \in Requests, bg[r] \in {"funding", "token"}, Sound(r)
  PROVE  Failing(pc[r], loc[r])
BY DEF IInv, Inv1, Safe1, BgAfterFailure, Failing, Sound

(* A step of the goroutine takes its part of the hold out of the debits. *)
LEMMA BgExact ==
  ASSUME IInv, NEW r \in Requests, Sound(r), Old(r), bg[r] \in {"funding", "token"},
         bg'[r] \in {"token", "done"}, UNCHANGED <<prof, pc, sess, loc>>,
         row'[r].amt = row[r].amt, row'[r].cnt = row[r].cnt,
         row'[r].status = "consumed" => row[r].status = "consumed",
         \A funding, token \in Int :
            FeeExact(prof[r], sess[r], row[r], debit[r], bg[r], funding, token)
              => FeeExact(prof[r], sess[r], row'[r], debit'[r], bg'[r], funding, token)
  PROVE  New(r)
<1>1. Failing(pc[r], loc[r]) /\ ViolationFee \in Int
  BY BgFailing, ConstantsAssumption
<1>2. SessionExact(pc[r], prof[r], sess[r], row'[r], loc[r])
  BY DEF Old, Exact1, SessionExact
<1>3. ServedExact(pc[r], prof[r], sess[r], row'[r], debit'[r], loc[r])
  BY <1>1 DEF Failing, ServedExact, Held, NoSessionPoints
<1>4. FailedExact(pc[r], prof[r], sess[r], row[r], debit[r], bg[r], loc[r])
  BY DEF Old, Exact1
<1>5. FailedExact(pc[r], prof[r], sess[r], row'[r], debit'[r], bg'[r], loc[r])
  <2> DEFINE T == IF Charged(prof[r], sess[r]) THEN ViolationFee ELSE 0
             Was(x, y) == FeeExact(prof[r], sess[r], row[r], debit[r], bg[r], x, y)
             Is(x, y) == FeeExact(prof[r], sess[r], row'[r], debit'[r], bg'[r], x, y)
  <2>1. T \in Int /\ 0 \in Int
    BY <1>1
  <2>2. \A x, y \in Int : Was(x, y) => Is(x, y)
    OBVIOUS
  <2>3. /\ Was(0, 0) => Is(0, 0)
        /\ Was(ViolationFee, 0) => Is(ViolationFee, 0)
        /\ Was(ViolationFee, T) => Is(ViolationFee, T)
    <3> HIDE DEF Was, Is, T
    <3> QED BY <1>1, <2>1, <2>2
  <2> QED BY <1>4, <2>3 DEF FailedExact
<1> QED BY <1>2, <1>3, <1>5 DEF New, Exact1

(* The goroutine gives the funding back. *)
LEMMA E_BgRefundFunding ==
  ASSUME IInv, ExactInv, NEW r \in Requests, BgRefundFunding(r)
  PROVE  ExactInv'
<1>1. PICK o \in Outcomes :
        /\ RefundFunding(r, o) /\ Call(r, o) /\ bg[r] = "funding" /\ UNCHANGED <<pc, prof, sess>>
        /\ IF TriesAgain(r, o) THEN CountTry(r) /\ UNCHANGED bg
           ELSE bg' = [bg EXCEPT ![r] = "token"] /\ UNCHANGED loc
  BY DEF BgRefundFunding, RefundFunding
<1>2. Only(r)
  BY <1>1, CallSound DEF Only, RefundFunding, TakeWallet, TakeHold, CountTry, IInv, TypeOK
<1> SUFFICES ASSUME Sound(r)' PROVE New(r)
  BY <1>2, ExactFrame
<1>3. o = "ok" /\ Sound(r) /\ Old(r)
  BY <1>1, CallSound DEF Sound, IInv, ExactInv, Old
<1>4. bg'[r] = "token" /\ UNCHANGED loc
  BY <1>1, <1>3 DEF TriesAgain, IInv, TypeOK
<1>5. Failing(pc[r], loc[r])
  BY <1>1, <1>3, BgFailing
<1>6. SessionExact(pc[r], prof[r], sess[r], row[r], loc[r])
      /\ (FromSub(sess[r]) => row[r].status = "consumed")
  BY <1>1, <1>3, <1>5 DEF Old, Exact1, FailedExact
<1>7. /\ debit'[r].wallet = debit[r].wallet - (IF sess[r].source = "wallet" THEN sess[r].consumed ELSE 0)
      /\ debit'[r].token = debit[r].token
      /\ debit'[r].amt = debit[r].amt - (IF FromSub(sess[r]) THEN row[r].amt ELSE 0)
      /\ debit'[r].cnt = debit[r].cnt - (IF FromSub(sess[r]) THEN row[r].cnt ELSE 0)
      /\ row'[r].amt = row[r].amt /\ row'[r].cnt = row[r].cnt
      /\ row'[r].status = "consumed" => row[r].status = "consumed"
  BY <1>1, <1>3, <1>6, RefundExact
<1>8. row[r].amt \in Int /\ row[r].cnt \in Int /\ sess[r].consumed \in Int /\ sess[r].tok \in Int
      /\ debit[r].wallet \in Int /\ debit[r].amt \in Int /\ debit[r].cnt \in Int
  BY DEF IInv, TypeOK, RowType, SessionType, DebitType
<1>9. ASSUME NEW x \in Int, NEW y \in Int, FeeExact(prof[r], sess[r], row[r], debit[r], bg[r], x, y)
      PROVE  FeeExact(prof[r], sess[r], row'[r], debit'[r], bg'[r], x, y)
  BY <1>1, <1>4, <1>7, <1>8, <1>9 DEF FeeExact, Debits, FromSub
<1> QED BY <1>1, <1>3, <1>4, <1>7, <1>9, BgExact

(* The goroutine gives the token its hold back. *)
LEMMA E_BgRefundToken ==
  ASSUME IInv, ExactInv, NEW r \in Requests, BgRefundToken(r)
  PROVE  ExactInv'
<1> DEFINE n == - sess[r].tok
           on == sess[r].tok > 0 /\ ~ prof[r].playground
<1>1. PICK o \in Outcomes :
         /\ Call(r, o)
         /\ IF on THEN TakeToken(r, IF Applied(o) THEN n ELSE 0) ELSE o = "ok" /\ UNCHANGED debit
  BY DEF BgRefundToken
<1>2. bg[r] = "token" /\ bg' = [bg EXCEPT ![r] = "done"] /\ UNCHANGED <<pc, prof, sess, row, loc>>
  BY DEF BgRefundToken
<1>3. Only(r)
  BY <1>1, <1>2, CallSound DEF Only, TakeToken, IInv, TypeOK
<1> SUFFICES ASSUME Sound(r)' PROVE New(r)
  BY <1>3, ExactFrame
<1>4. o = "ok" /\ Sound(r) /\ Old(r) /\ bg'[r] = "done"
  BY <1>1, <1>2, CallSound DEF Sound, IInv, TypeOK, ExactInv, Old
<1>5. sess[r].tok \in Nat /\ debit[r].token \in Int /\ n \in Int
  BY DEF IInv, TypeOK, SessionType, DebitType
<1>6. IF on THEN TakeToken(r, n) ELSE UNCHANGED debit
  BY <1>1, <1>4 DEF Applied
<1>7. /\ debit'[r].token = IF on THEN debit[r].token + n ELSE debit[r].token
      /\ debit'[r].wallet = debit[r].wallet /\ debit'[r].amt = debit[r].amt
      /\ debit'[r].cnt = debit[r].cnt
  <2>1. CASE on
    <3>1. TakeToken(r, n)
      BY <1>6, <2>1
    <3> HIDE DEF n
    <3> QED BY <1>5, <2>1, <3>1, TakeFields
  <2>2. CASE ~ on
    BY <1>6, <2>2
  <2> QED BY <2>1, <2>2
<1>8. OnToken(prof[r], sess[r]) = IF on THEN sess[r].tok ELSE 0
  BY <1>5 DEF OnToken
<1>9. ASSUME NEW x \in Int, NEW y \in Int, FeeExact(prof[r], sess[r], row[r], debit[r], bg[r], x, y)
      PROVE  FeeExact(prof[r], sess[r], row'[r], debit'[r], bg'[r], x, y)
  BY <1>2, <1>4, <1>5, <1>7, <1>8, <1>9 DEF FeeExact, Debits
<1> QED BY <1>2, <1>4, <1>9, BgExact

(* A crash ends what was running and changes no debit. *)
LEMMA E_Crash ==
  ASSUME IInv, ExactInv, Crash
  PROVE  ExactInv'
<1> SUFFICES ASSUME NEW r \in Requests, Sound(r)'
             PROVE  Exact1(pc[r], prof[r], sess[r], row[r], debit[r], bg[r], loc[r])'
  BY DEF ExactInv
<1>1. UNCHANGED <<prof, sess, row, debit, loc, faulted>>
  BY DEF Crash
<1>2. pc'[r] = pc[r] /\ bg'[r] = bg[r]
  BY DEF Crash, Sound
<1>3. Sound(r)
  BY <1>1, <1>2 DEF Sound
<1> QED BY <1>1, <1>2, <1>3 DEF ExactInv

(* The exact accounting holds before the first request. *)
LEMMA InitExact == Init => ExactInv
<1> SUFFICES ASSUME Init, NEW r \in Requests
             PROVE  Exact1(pc[r], prof[r], sess[r], row[r], debit[r], bg[r], loc[r])
  BY DEF ExactInv
<1>1. /\ pc[r] = "start" /\ sess[r] = NoSession /\ row[r] = NoRow /\ loc[r].turns = 0
      /\ debit[r] = [wallet |-> 0, token |-> 0, amt |-> 0, cnt |-> 0]
  BY DEF Init
<1>2. Debits(debit[r], 0, 0, 0, 0) /\ row[r].status = "none" /\ sess[r].source = "none" /\ sess[r].tok = 0
  BY <1>1 DEF Debits, NoRow, NoSession
<1> QED BY <1>1, <1>2
    DEF Exact1, SessionExact, ServedExact, FailedExact, Held, Failing, FromSub, Empty, NoSessionPoints

(* Every step of the system preserves the exact accounting. *)
LEMMA NextExact == IInv /\ ExactInv /\ [Next]_vars => ExactInv'
<1> SUFFICES ASSUME IInv, ExactInv, [Next]_vars PROVE ExactInv'
  OBVIOUS
<1>1. ASSUME NEW r \in Requests, RequestStep(r) PROVE ExactInv'
  BY <1>1, E_PreConsumeBilling, E_TryWallet, E_WalletPreConsume, E_SubPreConsume, E_PeriodCheck,
     E_TokenCheck, E_TokenPreConsume, E_RollBack, E_Refused, E_RetryUpstream, E_UpstreamFails,
     E_UpstreamSucceeds, E_Turn, E_EndRealtime, E_PostFunding, E_PostToken, E_SettleFunding,
     E_SettleToken, E_ZeroUsageRefund, E_ZeroUsageToken, E_Refund DEF RequestStep
<1>2. ASSUME NEW r \in Requests, RefundStep(r) PROVE ExactInv'
  BY <1>2, E_BgRefundFunding, E_BgRefundToken DEF RefundStep
<1>3. CASE UNCHANGED vars
  BY <1>3 DEF vars, ExactInv, Sound, Exact1, SessionExact, ServedExact, FailedExact
<1> QED BY <1>1, <1>2, <1>3, E_Crash DEF Next

(* The exact accounting holds in every reachable state. *)
THEOREM SpecExact == Spec => []ExactInv
<1>1. IInv /\ ExactInv /\ [Next]_vars => ExactInv'
  BY NextExact
<1> QED BY <1>1, InitExact, SpecIInv, PTL DEF Spec

(* A request none of whose database calls failed and whose process did not die
   costs nothing when it is refused or fails, apart from the violation fee
   (rollback of preConsume, Refund's goroutine, chargeViolationFee). *)
THEOREM FailureRestores == Spec => []FailedRequestRestored
<1>1. IInv /\ ExactInv => FailedRequestRestored
  <2> SUFFICES ASSUME IInv, ExactInv, NEW r \in Requests, Finished(r)
      PROVE  /\ pc[r] = "rejected" => debit[r] = Nothing
             /\ pc[r] = "failed" /\ ~ loc[r].fee => debit[r] = Nothing
             /\ pc[r] = "failed" /\ loc[r].fee /\ sess[r].source # "subscription" =>
                  debit[r] = [Nothing EXCEPT !.wallet = ViolationFee,
                                             !.token = IF TokenCharged(r) THEN ViolationFee ELSE 0]
             /\ pc[r] = "failed" /\ loc[r].fee /\ sess[r].source = "subscription" =>
                  debit[r] \in {Nothing, [Nothing EXCEPT !.amt = ViolationFee,
                                            !.token = IF TokenCharged(r) THEN ViolationFee ELSE 0]}
    BY DEF FailedRequestRestored
  <2> DEFINE T == IF TokenCharged(r) THEN ViolationFee ELSE 0
  <2>1. pc[r] # "lost" /\ bg[r] \in {"idle", "done"} /\ ~ faulted[r]
    BY DEF Finished
  <2>2. Exact1(pc[r], prof[r], sess[r], row[r], debit[r], bg[r], loc[r])
    BY <2>1 DEF ExactInv, Sound
  <2>3. debit[r] \in DebitType /\ ViolationFee \in Nat
    BY ConstantsAssumption DEF IInv, TypeOK
  <2>4. T = IF Charged(prof[r], sess[r]) THEN ViolationFee ELSE 0
    BY DEF TokenCharged, Charged, FromSub
  <2>5. T \in Int
    BY <2>3
  <2> HIDE DEF T
  <2>6. /\ pc[r] = "rejected" => Debits(debit[r], 0, 0, 0, 0)
        /\ pc[r] = "failed" /\ ~ loc[r].fee => Debits(debit[r], 0, 0, 0, 0)
        /\ pc[r] = "failed" /\ loc[r].fee /\ ~ FromSub(sess[r]) => Debits(debit[r], ViolationFee, T, 0, 0)
        /\ pc[r] = "failed" /\ loc[r].fee /\ FromSub(sess[r]) =>
             Debits(debit[r], 0, 0, 0, 0) \/ Debits(debit[r], 0, T, ViolationFee, 0)
    BY <2>1, <2>2, <2>3, <2>4, <2>5
       DEF Exact1, ServedExact, FailedExact, Failing, FeeExact, Debits
  <2>7. \A d \in DebitType : \A x, y, z, n \in Int :
           Debits(debit[r], x, y, z, n) /\ Debits(d, x, y, z, n) => debit[r] = d
    BY <2>3 DEF Debits, DebitType
  <2> DEFINE W == [Nothing EXCEPT !.wallet = ViolationFee, !.token = T]
             S == [Nothing EXCEPT !.amt = ViolationFee, !.token = T]
  <2>8. Nothing \in DebitType /\ Debits(Nothing, 0, 0, 0, 0)
    BY DEF Nothing, DebitType, Debits
  <2>9. /\ W \in DebitType /\ Debits(W, ViolationFee, T, 0, 0)
        /\ S \in DebitType /\ Debits(S, 0, T, ViolationFee, 0)
    <3>1. ViolationFee \in Int
      BY <2>3
    <3>2. W \in DebitType /\ S \in DebitType
      BY <2>5, <2>8, <3>1 DEF DebitType
    <3>3. W.wallet = ViolationFee /\ W.token = T /\ W.amt = Nothing.amt /\ W.cnt = Nothing.cnt
      BY <2>8 DEF DebitType
    <3>4. S.wallet = Nothing.wallet /\ S.token = T /\ S.amt = ViolationFee /\ S.cnt = Nothing.cnt
      BY <2>8 DEF DebitType
    <3> HIDE DEF W, S
    <3> QED BY <2>8, <3>2, <3>3, <3>4 DEF Debits
  <2> HIDE DEF W, S
  <2>10. /\ Debits(debit[r], 0, 0, 0, 0) => debit[r] = Nothing
         /\ Debits(debit[r], ViolationFee, T, 0, 0) => debit[r] = W
         /\ Debits(debit[r], 0, T, ViolationFee, 0) => debit[r] = S
    BY <2>3, <2>5, <2>7, <2>8, <2>9
  <2> QED BY <2>6, <2>10 DEF FromSub, T, W, S
<1> QED BY <1>1, SpecIInv, SpecExact, PTL

(* A served request whose database calls all succeeded costs exactly its usage,
   once, on its funding source and on the token (Settle, settleZeroUsage and
   PostConsumeQuota). *)
THEOREM SuccessCharges == Spec => []SuccessChargedOnce
<1>1. IInv /\ ExactInv => SuccessChargedOnce
  <2> SUFFICES ASSUME IInv, ExactInv, NEW r \in Requests, Finished(r), pc[r] = "ok",
                      prof[r].handler # "realtime"
      PROVE  LET u == loc[r].usage
                 sub == sess[r].source = "subscription" IN
             debit[r] = [wallet |-> IF sub THEN 0 ELSE u,
                         token  |-> IF TokenCharged(r) THEN u ELSE 0,
                         amt    |-> IF sub /\ SubAmountTotal > 0 THEN u ELSE 0,
                         cnt    |-> IF sub /\ u > 0 THEN RequiredCount ELSE 0]
    BY DEF SuccessChargedOnce
  <2>1. Sound(r)
    BY DEF Finished, Sound
  <2>2. Exact1(pc[r], prof[r], sess[r], row[r], debit[r], bg[r], loc[r])
    BY <2>1 DEF ExactInv
  <2>3. debit[r] \in DebitType
    BY DEF IInv, TypeOK
  <2>4. /\ debit[r].wallet = IF sess[r].source = "subscription" THEN 0 ELSE loc[r].usage
        /\ debit[r].token = IF TokenCharged(r) THEN loc[r].usage ELSE 0
        /\ debit[r].amt = IF sess[r].source = "subscription" /\ SubAmountTotal > 0 THEN loc[r].usage ELSE 0
        /\ debit[r].cnt = IF sess[r].source = "subscription" /\ loc[r].usage > 0 THEN RequiredCount ELSE 0
    BY <2>2 DEF Exact1, ServedExact, Debits, Charged, TokenCharged, FromSub
  <2> QED BY <2>3, <2>4 DEF DebitType
<1> QED BY <1>1, SpecIInv, SpecExact, PTL

-----------------------------------------------------------------------------
(* A settled session *)

(* A step belongs to one request, and starts at one of its control points. *)
LEMMA StepsAreLocal ==
  ASSUME IInv, NEW r \in Requests, RequestStep(r)
  PROVE  Only(r) /\ pc[r] \notin Finals
<1> USE DEF Only, Finals, Goto, IInv, TypeOK
<1>1. CASE PreConsumeBilling(r) \/ TryWallet(r) \/ PeriodCheck(r) \/ Refused(r)
  BY <1>1, CallSound DEF PreConsumeBilling, TryWallet, PeriodCheck, Refused, TryNext
<1>2. CASE WalletPreConsume(r)
  BY <1>2, CallSound DEF WalletPreConsume, TakeWallet, Refuse
<1>3. CASE SubPreConsume(r)
  BY <1>3, CallSound DEF SubPreConsume, TakeHold, SubSession, Refuse
<1>4. CASE TokenCheck(r) \/ TokenPreConsume(r)
  BY <1>4, CallSound DEF TokenCheck, TokenPreConsume, TakeToken
<1>5. CASE RollBack(r)
  BY <1>5, CallSound DEF RollBack, RefundFunding, TakeWallet, TakeHold, CountTry, Refuse
<1>6. CASE RetryUpstream(r) \/ UpstreamFails(r) \/ UpstreamSucceeds(r) \/ EndRealtime(r)
  BY <1>6 DEF RetryUpstream, TryNext, UpstreamFails, UpstreamSucceeds, EndRealtime
<1>7. CASE Turn(r)
  BY <1>7, CallSound DEF Turn
<1>8. CASE PostFunding(r) \/ PostToken(r)
  BY <1>8, CallSound DEF PostFunding, PostToken, TakeFunding, TakeAmount, TakeWallet, TakeToken
<1>9. CASE SettleFunding(r)
  BY <1>9, CallSound DEF SettleFunding, TakeFunding, TakeAmount, TakeWallet, CommitFunding
<1>10. CASE SettleToken(r) \/ ZeroUsageToken(r)
  BY <1>10, CallSound DEF SettleToken, ZeroUsageToken, TakeToken
<1>11. CASE ZeroUsageRefund(r)
  BY <1>11, CallSound DEF ZeroUsageRefund, RefundFunding, TakeWallet, TakeHold, CountTry
<1>12. CASE Refund(r)
  BY <1>12 DEF Refund
<1> QED BY <1>1, <1>2, <1>3, <1>4, <1>5, <1>6, <1>7, <1>8, <1>9, <1>10, <1>11, <1>12 DEF RequestStep

(* Only the last step of a settlement reports a session settled. *)
LEMMA SettlesAtEnd ==
  ASSUME IInv, NEW r \in Requests, RequestStep(r), ~ sess[r].settled
  PROVE  sess'[r].settled => pc'[r] = "ok"
<1>1. sess[r] \in SessionType /\ NoSession.settled = FALSE
  BY DEF IInv, TypeOK, NoSession
<1>2. Refuse(r) => ~ sess'[r].settled
  BY <1>1 DEF Refuse, IInv, TypeOK
<1>3. \A x : sess' = [sess EXCEPT ![r].tok = x] => ~ sess'[r].settled
  BY <1>1 DEF IInv, TypeOK, SessionType
<1>4. CASE UNCHANGED sess
  BY <1>4
<1>5. CASE PreConsumeBilling(r) \/ TryWallet(r) \/ PeriodCheck(r) \/ Refused(r) \/ RetryUpstream(r)
           \/ UpstreamFails(r) \/ UpstreamSucceeds(r) \/ Turn(r) \/ EndRealtime(r) \/ PostFunding(r)
           \/ PostToken(r) \/ ZeroUsageRefund(r)
  <2>1. UNCHANGED sess
    BY <1>5 DEF PreConsumeBilling, TryWallet, PeriodCheck, Refused, RetryUpstream, UpstreamFails,
         UpstreamSucceeds, Turn, EndRealtime, PostFunding, PostToken, ZeroUsageRefund
  <2> QED BY <1>4, <2>1
<1>6. CASE WalletPreConsume(r)
  <2>1. \/ Refuse(r)
        \/ \E e : sess' = [sess EXCEPT ![r] = [@ EXCEPT !.source = "wallet", !.pre = e, !.consumed = e]]
    BY <1>6 DEF WalletPreConsume
  <2>2. ASSUME NEW e,
               sess' = [sess EXCEPT ![r] = [@ EXCEPT !.source = "wallet", !.pre = e, !.consumed = e]]
        PROVE  ~ sess'[r].settled
    <3>1. sess'[r] = [sess[r] EXCEPT !.source = "wallet", !.pre = e, !.consumed = e]
      BY <2>2 DEF IInv, TypeOK
    <3> QED BY <1>1, <3>1 DEF SessionType
  <2> QED BY <1>2, <2>1, <2>2
<1>7. CASE SubPreConsume(r)
  <2>1. sess[r] = NoSession
    BY <1>7 DEF SubPreConsume, IInv, Inv1, Safe1, Consistent, NoSessionPoints
  <2>2. row[r].amt \in Nat /\ row[r].cnt \in Nat
    BY DEF IInv, TypeOK, RowType
  <2>3. UNCHANGED sess \/ Refuse(r) \/ SubSession(r, row[r].amt, row[r].cnt)
        \/ SubSession(r, RequiredAmount(r), RequiredCount)
    BY <1>7 DEF SubPreConsume
  <2> QED BY <1>2, <1>4, <2>1, <2>2, <2>3, SubAmounts, SubSessionFields
<1>8. CASE TokenCheck(r) \/ TokenPreConsume(r)
  <2>1. UNCHANGED sess \/ sess' = [sess EXCEPT ![r].tok = loc[r].eff]
    BY <1>8 DEF TokenCheck, TokenPreConsume
  <2> QED BY <1>3, <1>4, <2>1
<1>9. CASE RollBack(r)
  <2>1. UNCHANGED sess \/ Refuse(r)
    BY <1>9 DEF RollBack
  <2> QED BY <1>2, <1>4, <2>1
<1>10. CASE SettleFunding(r)
  <2>1. UNCHANGED sess \/ sess'[r] = [sess[r] EXCEPT !.fundingSettled = TRUE]
    BY <1>10 DEF SettleFunding, CommitFunding, IInv, TypeOK
  <2> QED BY <1>1, <1>4, <2>1 DEF SessionType
<1>11. CASE SettleToken(r)
  BY <1>11 DEF SettleToken, Goto, IInv, TypeOK
<1>12. CASE ZeroUsageToken(r)
  <2>1. UNCHANGED sess \/ Goto(r, "ok")
    BY <1>12 DEF ZeroUsageToken
  <2> QED BY <1>4, <2>1 DEF Goto, IInv, TypeOK
<1>13. CASE Refund(r)
  <2>1. UNCHANGED sess \/ sess'[r] = [sess[r] EXCEPT !.refunded = TRUE]
    BY <1>13 DEF Refund, IInv, TypeOK
  <2> QED BY <1>1, <1>4, <2>1 DEF SessionType
<1> QED BY <1>5, <1>6, <1>7, <1>8, <1>9, <1>10, <1>11, <1>12, <1>13 DEF RequestStep

(* A settled session is at its end. *)
SettledInv == \A r \in Requests : sess[r].settled => pc[r] = "ok"

(* A step of another request or of a goroutine leaves a settled session alone. *)
LEMMA SettledStep ==
  ASSUME IInv, SettledInv, Next
  PROVE  /\ SettledInv'
         /\ \A r \in Requests : sess[r].settled =>
              sess'[r].settled /\ debit'[r] = debit[r] /\ row'[r] = row[r]
<1>1. ASSUME NEW q \in Requests, RequestStep(q)
      PROVE  /\ SettledInv'
             /\ \A r \in Requests : sess[r].settled =>
                  sess'[r].settled /\ debit'[r] = debit[r] /\ row'[r] = row[r]
  <2>1. Only(q) /\ pc[q] \notin Finals
    BY <1>1, StepsAreLocal
  <2>2. ~ sess[q].settled
    BY <2>1 DEF SettledInv, Finals
  <2>3. sess'[q].settled => pc'[q] = "ok"
    BY <1>1, <2>2, SettlesAtEnd
  <2> QED BY <2>1, <2>2, <2>3 DEF Only, SettledInv
<1>2. ASSUME NEW q \in Requests, RefundStep(q)
      PROVE  /\ SettledInv'
             /\ \A r \in Requests : sess[r].settled =>
                  sess'[r].settled /\ debit'[r] = debit[r] /\ row'[r] = row[r]
  <2>1. UNCHANGED <<pc, sess>> /\ bg[q] \in {"funding", "token"}
    BY <1>2 DEF RefundStep, BgRefundFunding, BgRefundToken
  <2>2. pc[q] # "ok"
    BY <2>1 DEF IInv, Inv1, Safe1, BgAfterFailure
  <2>3. \A r \in Requests \ {q} : debit'[r] = debit[r] /\ row'[r] = row[r]
    BY <1>2 DEF RefundStep, BgRefundFunding, BgRefundToken, RefundFunding, TakeWallet, TakeHold,
         TakeToken, IInv, TypeOK
  <2> QED BY <2>1, <2>2, <2>3 DEF SettledInv
<1>3. CASE Crash
  <2>1. UNCHANGED <<sess, row, debit>> /\ \A r \in Requests : pc[r] = "ok" => pc'[r] = "ok"
    BY <1>3 DEF Crash, Finals
  <2> QED BY <2>1 DEF SettledInv
<1>4. CASE UNCHANGED vars
  BY <1>4 DEF vars, SettledInv
<1> QED BY <1>1, <1>2, <1>3, <1>4 DEF Next

(* Once Settle has reported a session settled, no late refund, rollback, retry or
   second settlement moves anything of it again, whatever calls fail. *)
THEOREM SettledStays == Spec => SettledIsFinal
<1>1. Init => SettledInv
  BY DEF Init, SettledInv, NoSession
<1>2. IInv /\ SettledInv /\ [Next]_vars => SettledInv'
  <2>1. CASE UNCHANGED vars
    BY <2>1 DEF vars, SettledInv
  <2> QED BY <2>1, SettledStep
<1>3. IInv /\ SettledInv /\ [Next]_vars =>
        [\A r \in Requests : sess[r].settled =>
           /\ sess'[r].settled
           /\ debit'[r] = debit[r] /\ row'[r] = row[r]]_vars
  BY SettledStep
<1> QED BY <1>1, <1>2, <1>3, SpecIInv, PTL DEF Spec, SettledIsFinal
=============================================================================

------------------------------ MODULE MCLedger ------------------------------
(* Instances of SubscriptionLedger for TLC: plans and requests. *)
EXTENDS SubscriptionLedger, TLC

P(resource, amountTotal, countTotal, periodTotal, period, end) ==
    [resource |-> resource, amountTotal |-> amountTotal, countTotal |-> countTotal,
     periodTotal |-> periodTotal, period |-> period, end |-> end]

Ask(amount, model, group, preferred) ==
    [amount |-> amount, model |-> model, group |-> group, preferred |-> preferred]

(* a quota plan with windows of two ticks *)
QuotaPlan == (1 :> P("quota", 3, 0, 0, 2, 4))
QuotaWants == {Ask(2, {1}, {1}, 0)}

(* a plan that counts requests, over all and in every window, before a
   quota plan that ends earlier, with windows of one tick; a request may
   prefer the second although its group is not allowed there *)
CountPlans == (1 :> P("request_count", 4, 2, 1, 1, 4)) @@ (2 :> P("quota", 3, 0, 0, 1, 3))
CountWants == {Ask(2, {1, 2}, {1, 2}, 0), Ask(2, {1, 2}, {1}, 2)}

Symmetry == Permutations(Requests)
=============================================================================

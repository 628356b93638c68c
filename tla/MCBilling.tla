----------------------------- MODULE MCBilling -----------------------------
(* Instances of BillingSession for TLC: the profiles of the requests. *)
EXTENDS BillingSession

Req(pref, handler, pre, playground, free) ==
    [pref |-> pref, handler |-> handler, pre |-> pre, playground |-> playground, free |-> free,
     usePrice |-> FALSE]

(* requests for a model with a price per call *)
Priced(x) == [x EXCEPT !.usePrice = TRUE]

(* requests that are paid from the wallet *)
WalletProfiles ==
    {Req("wallet_only", "text", 2, FALSE, FALSE), Req("wallet_only", "text", 2, TRUE, FALSE),
     Req("wallet_only", "task", 2, FALSE, FALSE), Req("wallet_only", "text", 0, FALSE, TRUE),
     Req("wallet_only", "realtime", 1, FALSE, FALSE),
     Priced(Req("wallet_only", "realtime", 1, FALSE, FALSE))}

(* requests that may be paid from either source *)
MixedProfiles ==
    {Req("subscription_first", "text", 2, FALSE, FALSE),
     Req("wallet_first", "text", 2, FALSE, FALSE),
     Req("subscription_only", "task", 2, FALSE, FALSE),
     Req("subscription_first", "image", 0, FALSE, FALSE),
     Req("subscription_first", "realtime", 1, FALSE, FALSE)}
=============================================================================

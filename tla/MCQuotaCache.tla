---------------------------- MODULE MCQuotaCache ----------------------------
(* Instances of QuotaCache for TLC. *)
EXTENDS QuotaCache

Changes == {-1, 2}
=============================================================================

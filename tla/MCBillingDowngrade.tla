------------------------- MODULE MCBillingDowngrade -------------------------
(* Model values for the runs of BillingDowngrade.                          *)
EXTENDS BillingDowngrade, TLC

Remedies == Permutations(Rows)
=============================================================================

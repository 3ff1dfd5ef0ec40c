------------------------- MODULE MCBillingWebhook -------------------------
(* Model values for the runs of BillingWebhook.                            *)
EXTENDS BillingWebhook, TLC

Requests == Permutations(Workers)
=============================================================================

---------------------------- MODULE MCBillingSync ----------------------------
(* BillingSync on small instances: see the MCBillingSync_*.cfg files. *)
EXTENDS BillingSync

CONSTANTS h1, p1

=============================================================================

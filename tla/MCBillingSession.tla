-------------------------- MODULE MCBillingSession --------------------------
(* Small instances of BillingSession. *)
EXTENDS BillingSession

=============================================================================

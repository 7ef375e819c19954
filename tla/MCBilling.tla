----------------------------- MODULE MCBilling ------------------------------
(* One event and one month, two interchangeable invoices, a clerk and the   *)
(* runs of the crons one after another.                                     *)
EXTENDS Billing, TLC

InvoicesAlike == Permutations(Invoices)
=============================================================================

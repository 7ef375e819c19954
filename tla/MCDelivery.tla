----------------------------- MODULE MCDelivery -----------------------------
(* One order of any channel, a counter that mails to one of two addresses. *)
EXTENDS Delivery
=============================================================================

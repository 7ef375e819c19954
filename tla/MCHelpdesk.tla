----------------------------- MODULE MCHelpdesk -----------------------------
(* One ticket, one operator, two mails of any kinds, two failures.          *)
EXTENDS Helpdesk
=============================================================================

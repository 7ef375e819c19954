----------------------------- MODULE MCShopping -----------------------------
(* One tab that buys twice, up to two tickets at a time, at a price of 1000 *)
(* and a fee of 5 per cent, one of which changes once, and a coupon of 80   *)
(* per cent with one use.                                                   *)
EXTENDS Shopping

MCInit ==
  /\ Init
  /\ price = 1000
  /\ percent = 5

MCSpec == MCInit /\ [][Next]_vars
=============================================================================

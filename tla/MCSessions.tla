----------------------------- MODULE MCSessions -----------------------------
(* One browser with two tabs and one account.                               *)
EXTENDS Sessions, TLC
Symmetry == Permutations(Tabs)
=============================================================================

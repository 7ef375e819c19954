------------------------------ MODULE MCPlans -------------------------------
(* Two plans, one with a numbered and one with an unnumbered section; two   *)
(* orders, which are interchangeable.                                       *)
EXTENDS Plans, TLC

CONSTANTS m1, m2, a, c

MapOfDef == [s \in {a, c} |-> IF s = c THEN m2 ELSE m1]

OrdersAlike == Permutations(Orders)
=============================================================================

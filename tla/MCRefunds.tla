------------------------------ MODULE MCRefunds ------------------------------
(* Two requests, two members of staff and two scanners. *)
EXTENDS Refunds, TLC
Symmetry == Permutations(Requests) \cup Permutations(Staff)
              \cup Permutations(Scanners)
=============================================================================

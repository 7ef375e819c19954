--------------------------- MODULE MCSeatCheckout ---------------------------
(* Two clients ask for overlapping seats, one of them in either order. *)
EXTENDS SeatCheckout, TLC
CONSTANTS s1, s2
MCCarts == {<<s1>>, <<s1, s2>>, <<s2, s1>>}
LiveCarts == {<<s1>>}
Symmetry == Permutations(Orders) \cup Permutations(Handlers)
              \cup Permutations(Sessions)
=============================================================================

--------------------------- MODULE MCMultiTimer ---------------------------
(* Instances of MultiTimer for TLC: two units to the second, so that every *)
(* sum and difference can carry and borrow.                                *)
EXTENDS MultiTimer, TLC
Intervals == {tv(1), tv(3)}
IntervalsAndZero == {tv(0), tv(1)}
Past == {tv(0)}
None == {}
Short == {tv(1)}
Symmetry == Permutations(Clients)
=============================================================================

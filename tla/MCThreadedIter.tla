--------------------------- MODULE MCThreadedIter ---------------------------
(* Instances of ThreadedIter for TLC. *)
EXTENDS ThreadedIter, TLC

CONSTANTS c1, c2
MCConsumers == {c1, c2}
CONSTANTS d1, d2, d3, d4, d5
MCCells == {d1, d2, d3, d4, d5}
LiveCells == {d1, d2, d3, d4}
CellSymmetry == Permutations(MCCells)
=============================================================================

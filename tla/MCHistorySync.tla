--------------------------- MODULE MCHistorySync ---------------------------
(***************************************************************************)
(* A small instance of HistorySync: one sheet from the environment, one an *)
(* admin may choose, and sales enough to tell two good snapshots apart.    *)
(***************************************************************************)
EXTENDS HistorySync, TLC

Symmetry == Permutations(Sales)

=============================================================================

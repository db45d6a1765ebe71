--------------------------- MODULE MCRowUpdates ---------------------------
(* Small instances of RowUpdates for TLC.                                  *)
EXTENDS RowUpdates, TLC

Symmetry == Permutations(Requests)
=============================================================================

-------------------------- MODULE MCChildRecords --------------------------
(* Small instances of ChildRecords for TLC.                                *)
EXTENDS ChildRecords, TLC

Symmetry == Permutations(Requests) \cup Permutations(Families) \cup Permutations(Children)
                \cup Permutations(Entries) \cup Permutations(Policies)
=============================================================================

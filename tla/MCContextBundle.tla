-------------------------- MODULE MCContextBundle --------------------------
(* Small instances of ContextBundle for TLC.                               *)
EXTENDS ContextBundle, TLC

Symmetry == Permutations(Families) \cup Permutations(Children) \cup Permutations(Members)
=============================================================================

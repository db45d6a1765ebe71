------------------------ MODULE MCRequestLifecycle ------------------------
(* Small instances of RequestLifecycle for TLC.                            *)
EXTENDS RequestLifecycle, TLC

Symmetry == Permutations(Requests)
=============================================================================

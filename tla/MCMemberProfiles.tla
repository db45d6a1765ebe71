-------------------------- MODULE MCMemberProfiles --------------------------
(* Small instances of MemberProfiles for TLC.                              *)
EXTENDS MemberProfiles, TLC

Symmetry == Permutations(Requests)
=============================================================================

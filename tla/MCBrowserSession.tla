------------------------- MODULE MCBrowserSession -------------------------
(* Small instances of BrowserSession for TLC.                              *)
EXTENDS BrowserSession, TLC

Symmetry == Permutations(Requests) \cup Permutations(Tokens)
=============================================================================

--------------------------- MODULE OneTimeLineage ---------------------------
(***************************************************************************)
(* What the refresh tokens of the accounts service amount to when requests *)
(* do not overlap: a sign-in opens a lineage with one live token, an       *)
(* exchange of the live token replaces it by a new one, and a logout or the*)
(* reuse of a spent token shuts the lineage for good.                      *)
(***************************************************************************)
CONSTANT Tokens

VARIABLES
    minted,   \* tokens that have been committed
    live      \* the live tokens of each lineage, by its first token

vars == <<minted, live>>

TypeOK == minted \subseteq Tokens /\ live \in [Tokens -> SUBSET Tokens]

Init == minted = {} /\ live = [s \in Tokens |-> {}]

Open(s) ==
    /\ s \notin minted
    /\ minted' = minted \cup {s}
    /\ live' = [live EXCEPT ![s] = {s}]

\* c is spent and n takes its place in one step.
Exchange(s, c, n) ==
    /\ live[s] = {c}
    /\ n \notin minted
    /\ minted' = minted \cup {n}
    /\ live' = [live EXCEPT ![s] = {n}]

Shut(s) ==
    /\ s \in minted
    /\ live' = [live EXCEPT ![s] = {}]
    /\ UNCHANGED minted

Next == \E s \in Tokens : Open(s) \/ Shut(s) \/ \E c, n \in Tokens : Exchange(s, c, n)

Spec == Init /\ [][Next]_vars
=============================================================================

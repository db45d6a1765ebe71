---------------------------- MODULE MCMembership ----------------------------
(* Small instances of Membership for TLC.                                  *)
EXTENDS Membership, TLC

Symmetry == Permutations(Requests) \cup Permutations(Ids) \cup Permutations(Invites)
                \cup Permutations(Emails)

\* Runs that need a family to begin with start in a state that a signup and
\* an invite reach: a founder with an email, signed in, and one open invite.
Founded ==
    LET p == CHOOSE m \in Ids : TRUE
        i == CHOOSE x \in Invites : TRUE
        founder == [family |-> p, email |-> CHOOSE e \in Emails : TRUE, primary |-> TRUE,
                    via |-> NoInvite, slot |-> CHOOSE r \in Requests : TRUE]
    IN  /\ families = {p} /\ tokens = {p} /\ claims = {<<p, p>>}
        /\ accepted = {} /\ deleted = {} /\ lapsed = {}
        /\ member = [m \in Ids |-> IF m = p THEN founder ELSE NoRow]
        /\ invite = [x \in Invites |-> IF x = i THEN [family |-> p, creator |-> p] ELSE NoRow]
        /\ pc = [q \in Requests |-> "idle"] /\ job = [q \in Requests |-> IdleJob]

\* The liveness run leaves out the lapse of the invite, which no lock depends
\* on.  (No symmetry: TLC does not support it for liveness.)
FoundedFairSpec ==
    /\ Founded /\ [][Next /\ UNCHANGED lapsed]_vars
    /\ \A r \in Requests : SF_vars(Handle(r))
=============================================================================

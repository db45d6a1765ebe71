------------------------ MODULE MemberProfiles_proofs ------------------------
(***************************************************************************)
(* Proofs about MemberProfiles, for any number of requests and members.    *)
(*                                                                         *)
(* The argument is that of two-phase locking, of which PostgreSQL gives    *)
(* each statement here just enough: what a request has written, and what   *)
(* it has inserted a reference to, no other request changes before its     *)
(* COMMIT.  Own says what a request may rely on for its own writes, Apart  *)
(* which writes of two requests exclude each other.                        *)
(***************************************************************************)
EXTENDS MemberProfiles, TLAPS

Creating(r) == pc[r] = "add member" \/ Wrote(r, "member")

\* What the writes of r, and what it has loaded, say of the committed rows.
Own(r) ==
    LET m == job[r].member
        w == job[r].wrote
    IN  /\ pc[r] \notin {"delete row", "reply", "close"} => w = {}
        /\ pc[r] = "delete row" => w \subseteq {"delete profile"}
        /\ "member" \in w => w = {"member"}
        /\ "profile" \in w => w = {"profile"} /\ m \in members \ profiles
        /\ "delete profile" \in w => m \in profiles /\ (pc[r] = "delete row" \/ "delete" \in w)
        /\ "delete" \in w => m \in members /\ (m \in profiles => "delete profile" \in w)
        /\ pc[r] # "idle" => m \in Members
        /\ Creating(r) => m \notin members
        /\ pc[r] \in {"get row", "delete profile", "delete row"} \/ "delete" \in w => m \notin Primary

\* Why a request may have failed: what it has found stays, or has gone with
\* the member.
Cause(r) ==
    LET m == job[r].member
    IN  /\ job[r].loaded => m \in profiles \/ m \notin members
        /\ pc[r] = "update" => job[r].loaded
        /\ pc[r] = "insert" => ~job[r].loaded
        /\ pc[r] = "delete row" /\ job[r].loaded /\ m \in profiles => Wrote(r, "delete profile")
        /\ job[r].status = "error"
           => pc[r] = "close" /\ (m \notin members \/ (m \in profiles /\ ~job[r].loaded))

\* What two requests about one member cannot both have done.
Apart(q, r) ==
    job[q].member = job[r].member =>
        /\ Wrote(q, "profile") => ~Wrote(r, "profile") /\ ~Wrote(r, "delete")
        /\ Wrote(q, "delete profile") => ~Wrote(r, "delete profile")
        /\ Wrote(q, "delete") => ~Wrote(r, "delete")
        /\ Creating(q) => /\ ~Creating(r) /\ job[r].status # "error" /\ ~job[r].loaded
                          /\ pc[r] \in {"idle", "find", "reply", "close"}

ProfilesInv ==
    /\ TypeOK
    /\ ProfilesHaveMembers
    /\ \A r \in Requests : Own(r) /\ Cause(r)
    /\ \A q, r \in Requests : q # r => Apart(q, r)

-----------------------------------------------------------------------------
(* A statement of r that leaves the committed rows alone disturbs what is  *)
(* said of r, and of r with another request, only.                         *)

Only(r) == \A q \in Requests \ {r} : job'[q] = job[q] /\ pc'[q] = pc[q]

\* A step of r alone keeps ProfilesInv if what is said of r and of r with
\* every other request holds after it.
LEMMA LocalStep ==
    ASSUME ProfilesInv, TypeOK', NEW r \in Requests, Only(r), UNCHANGED DB,
           Own(r)', Cause(r)',
           \A q \in Requests \ {r} : Apart(q, r)' /\ Apart(r, q)'
    PROVE  ProfilesInv'
<1>1. ProfilesHaveMembers'
    BY DEF ProfilesInv, ProfilesHaveMembers, DB
<1>2. ASSUME NEW q \in Requests
      PROVE  Own(q)' /\ Cause(q)'
    <2>1. CASE q = r
        BY <2>1
    <2>2. CASE q # r
        <3>1. job'[q] = job[q] /\ pc'[q] = pc[q] /\ members' = members /\ profiles' = profiles
            BY <2>2 DEF Only, DB
        <3>2. Own(q) /\ Cause(q)
            BY DEF ProfilesInv
        <3>. QED BY <3>1, <3>2 DEF Own, Cause, Creating, Wrote
    <2>. QED BY <2>1, <2>2
<1>3. ASSUME NEW p \in Requests, NEW q \in Requests, p # q
      PROVE  Apart(p, q)'
    <2>1. CASE p = r \/ q = r
        BY <1>3, <2>1
    <2>2. CASE p # r /\ q # r
        <3>1. job'[q] = job[q] /\ pc'[q] = pc[q] /\ job'[p] = job[p] /\ pc'[p] = pc[p]
            BY <2>2 DEF Only
        <3>2. Apart(p, q)
            BY <1>3 DEF ProfilesInv
        <3>. QED BY <3>1, <3>2 DEF Apart, Creating, Wrote
    <2>. QED BY <2>1, <2>2
<1>. QED BY <1>1, <1>2, <1>3 DEF ProfilesInv

\* A step of r that takes no lock another request may hold (that of an UPDATE
\* excludes no write of another kind) and does not meet a creation of its
\* member.
LEMMA QuietStep ==
    ASSUME ProfilesInv, TypeOK', NEW r \in Requests, Only(r), UNCHANGED DB,
           Own(r)', Cause(r)',
           job'[r].member = job[r].member,
           job'[r].wrote \subseteq job[r].wrote \cup {"update"},
           pc'[r] # "add member",
           \/ pc[r] \notin {"idle", "add member", "find", "reply", "close"}
           \/ job[r].member \in members
           \/ /\ pc'[r] \in {"reply", "close"}
              /\ job'[r].status # "error" /\ job'[r].loaded = job[r].loaded
    PROVE  ProfilesInv'
<1>1. ASSUME NEW q \in Requests \ {r}
      PROVE  Apart(q, r)' /\ Apart(r, q)'
    <2>1. Apart(q, r) /\ Apart(r, q) /\ Own(q)
        BY DEF ProfilesInv
    <2>2. job'[q] = job[q] /\ pc'[q] = pc[q] /\ members' = members
        BY DEF Only, DB
    <2>3. Apart(r, q)'
        BY <2>1, <2>2 DEF Apart, Creating, Wrote
    <2>4. Apart(q, r)'
        BY <2>1, <2>2 DEF Apart, Creating, Wrote, Own
    <2>. QED BY <2>3, <2>4
<1>. QED BY <1>1, LocalStep

-----------------------------------------------------------------------------
(* What the steps of a request do to its local state.                      *)

Labels == {"member", "profile", "update", "delete profile", "delete"}

\* Whatever is said of one request can be unfolded at once.
LEMMA InvAt ==
    ASSUME ProfilesInv, NEW r \in Requests
    PROVE  /\ TypeOK /\ ProfilesHaveMembers /\ Own(r) /\ Cause(r)
           /\ pc[r] \in PCs /\ job[r] \in Job
BY DEF ProfilesInv, TypeOK

\* The new job and label of r, when its step has given it others.
LEMMA JobStep ==
    ASSUME TypeOK, NEW r \in Requests, NEW l \in PCs, Goto(r, l), job'[r] \in Job,
           job' = [job EXCEPT ![r] = job'[r]]
    PROVE  /\ Only(r) /\ pc'[r] = l
           /\ pc' \in [Requests -> PCs] /\ job' \in [Requests -> Job]
<1>1. pc' = [pc EXCEPT ![r] = l] /\ job' = [job EXCEPT ![r] = job'[r]]
    BY DEF Goto
<1>2. pc \in [Requests -> PCs] /\ job \in [Requests -> Job]
    BY DEF TypeOK
<1>. QED BY <1>1, <1>2 DEF Only

\* What a statement that writes nothing leaves.
LEMMA StepShape ==
    ASSUME TypeOK, NEW r \in Requests, NEW l \in PCs, Step(r, l)
    PROVE  TypeOK' /\ Only(r) /\ UNCHANGED DB /\ pc'[r] = l /\ job'[r] = job[r]
BY DEF TypeOK, Step, Goto, Only, DB

\* What a statement that writes leaves: one write more.
LEMMA WriteShape ==
    ASSUME TypeOK, NEW r \in Requests, NEW w \in Labels, NEW l \in PCs, Write(r, w, l)
    PROVE  /\ TypeOK' /\ Only(r) /\ UNCHANGED DB /\ pc'[r] = l
           /\ job'[r] = [job[r] EXCEPT !.wrote = @ \cup {w}]
<1>1. job[r] \in Job /\ job' = [job EXCEPT ![r] = [job[r] EXCEPT !.wrote = @ \cup {w}]]
    BY DEF Write, TypeOK
<1>2. [job[r] EXCEPT !.wrote = @ \cup {w}] \in Job
    BY <1>1 DEF Job, Labels
<1>3. job'[r] = [job[r] EXCEPT !.wrote = @ \cup {w}]
    BY <1>1 DEF TypeOK
<1>. QED BY <1>1, <1>2, <1>3, JobStep DEF Write, TypeOK, DB

\* What a handled error leaves: the writes so far, which will be committed.
LEMMA RefuseShape ==
    ASSUME TypeOK, NEW r \in Requests, NEW s \in {"not found", "conflict"}, Refuse(r, s)
    PROVE  /\ TypeOK' /\ Only(r) /\ UNCHANGED DB /\ pc'[r] = "reply"
           /\ job'[r] = [job[r] EXCEPT !.status = s]
<1>1. job[r] \in Job /\ job' = [job EXCEPT ![r] = [job[r] EXCEPT !.status = s]]
    BY DEF Refuse, TypeOK
<1>2. [job[r] EXCEPT !.status = s] \in Job /\ "reply" \in PCs
    BY <1>1 DEF Job, PCs
<1>3. job'[r] = [job[r] EXCEPT !.status = s]
    BY <1>1 DEF TypeOK
<1>. QED BY <1>1, <1>2, <1>3, JobStep DEF Refuse, TypeOK, DB

\* What an IntegrityError nobody catches leaves: nothing of the transaction.
LEMMA AbortShape ==
    ASSUME TypeOK, NEW r \in Requests, Abort(r)
    PROVE  /\ TypeOK' /\ Only(r) /\ UNCHANGED DB /\ pc'[r] = "close"
           /\ job'[r] = [job[r] EXCEPT !.wrote = {}, !.status = "error"]
<1>1. job[r] \in Job /\ job' = [job EXCEPT ![r] = [job[r] EXCEPT !.wrote = {}, !.status = "error"]]
    BY DEF Abort, TypeOK
<1>2. [job[r] EXCEPT !.wrote = {}, !.status = "error"] \in Job /\ "close" \in PCs
    BY <1>1 DEF Job, PCs
<1>3. job'[r] = [job[r] EXCEPT !.wrote = {}, !.status = "error"]
    BY <1>1 DEF TypeOK
<1>. QED BY <1>1, <1>2, <1>3, JobStep DEF Abort, TypeOK, DB

\* What Load and Look do, with l the label that follows.
LEMMA LoadShape ==
    ASSUME TypeOK, NEW r \in Requests, NEW l \in PCs, Goto(r, l), UNCHANGED DB,
           job' = [job EXCEPT ![r].loaded = job[r].member \in profiles]
    PROVE  /\ TypeOK' /\ Only(r) /\ pc'[r] = l
           /\ job'[r] = [job[r] EXCEPT !.loaded = job[r].member \in profiles]
<1>1. job[r] \in Job /\ job' = [job EXCEPT ![r] = [job[r] EXCEPT !.loaded = job[r].member \in profiles]]
    BY DEF TypeOK
<1>2. [job[r] EXCEPT !.loaded = job[r].member \in profiles] \in Job
    <2>1. \A j \in Job, b \in BOOLEAN : [j EXCEPT !.loaded = b] \in Job
        BY DEF Job
    <2>2. (job[r].member \in profiles) \in BOOLEAN
        OBVIOUS
    <2>. QED BY <1>1, <2>1, <2>2, Zenon
<1>3. job'[r] = [job[r] EXCEPT !.loaded = job[r].member \in profiles]
    BY <1>1 DEF TypeOK
<1>. QED BY <1>1, <1>2, <1>3, JobStep DEF TypeOK, DB

-----------------------------------------------------------------------------
(* The steps, one by one.                                                  *)

\* The answer leaves before the commit and changes nothing.
LEMMA ReplyStep ==
    ASSUME ProfilesInv, NEW r \in Requests, Reply(r)
    PROVE  ProfilesInv'
<1>1. pc[r] = "reply" /\ Step(r, "close") /\ "close" \in PCs
    BY DEF Reply, PCs
<1>2. TypeOK' /\ Only(r) /\ UNCHANGED DB /\ pc'[r] = "close" /\ job'[r] = job[r]
    BY <1>1, InvAt, StepShape
<1>3. Own(r) /\ Cause(r)
    BY InvAt
<1>4. Own(r)' /\ Cause(r)'
    BY <1>1, <1>2, <1>3 DEF Own, Cause, Creating, Wrote, DB
<1>. QED BY <1>1, <1>2, <1>3, <1>4, QuietStep DEF Cause

\* get_in_family: a member that is found is there until somebody deletes it.
LEMMA FindStep ==
    ASSUME ProfilesInv, NEW r \in Requests, Find(r)
    PROVE  ProfilesInv'
<1>1. pc[r] = "find" /\ TypeOK /\ Own(r) /\ Cause(r)
    BY InvAt DEF Find
<1>2. CASE job[r].member \in members
    <2>1. PICK l \in {"look", "load"} : Step(r, l)
        BY <1>2 DEF Find
    <2>2. TypeOK' /\ Only(r) /\ UNCHANGED DB /\ pc'[r] = l /\ job'[r] = job[r]
        BY <1>1, <2>1, StepShape DEF PCs
    <2>3. Own(r)' /\ Cause(r)'
        BY <1>1, <2>1, <2>2 DEF Own, Cause, Creating, Wrote, DB
    <2>. QED BY <1>1, <1>2, <2>1, <2>2, <2>3, QuietStep
<1>3. CASE job[r].member \notin members
    <2>1. Refuse(r, "not found") /\ job[r] \in Job
        BY <1>3, InvAt DEF Find
    <2>2. /\ TypeOK' /\ Only(r) /\ UNCHANGED DB /\ pc'[r] = "reply"
          /\ job'[r] = [job[r] EXCEPT !.status = "not found"]
        BY <1>1, <2>1, RefuseShape
    <2>3. /\ job'[r].member = job[r].member /\ job'[r].wrote = job[r].wrote
          /\ job'[r].loaded = job[r].loaded /\ job'[r].status = "not found"
        BY <2>1, <2>2 DEF Job
    <2>4. Own(r)' /\ Cause(r)'
        BY <1>1, <2>2, <2>3 DEF Own, Cause, Creating, Wrote, DB
    <2>. QED BY <1>1, <2>2, <2>3, <2>4, QuietStep
<1>. QED BY <1>2, <1>3

\* A statement that fails, once the request has found its member.
LEMMA AbortStep ==
    ASSUME ProfilesInv, NEW r \in Requests, Abort(r),
           pc[r] \in {"update", "insert", "get row", "delete row"},
           \/ job[r].member \notin members
           \/ job[r].member \in profiles /\ ~job[r].loaded
    PROVE  ProfilesInv'
<1>1. TypeOK /\ Own(r) /\ Cause(r) /\ job[r] \in Job
    BY InvAt
<1>2. /\ TypeOK' /\ Only(r) /\ UNCHANGED DB /\ pc'[r] = "close"
      /\ job'[r] = [job[r] EXCEPT !.wrote = {}, !.status = "error"]
    BY <1>1, AbortShape
<1>3. /\ job'[r].member = job[r].member /\ job'[r].wrote = {}
      /\ job'[r].loaded = job[r].loaded /\ job'[r].status = "error"
    BY <1>1, <1>2 DEF Job
<1>4. Own(r)' /\ Cause(r)'
    BY <1>1, <1>2, <1>3 DEF Own, Cause, Creating, Wrote, DB
<1>. QED BY <1>1, <1>2, <1>3, <1>4, QuietStep

\* The lookups that decide what a deletion or an upsert does next.
LEMMA LoadStep ==
    ASSUME ProfilesInv, NEW r \in Requests, Load(r) \/ Look(r)
    PROVE  ProfilesInv'
<1>1. TypeOK /\ Own(r) /\ Cause(r) /\ job[r] \in Job /\ pc[r] \in {"load", "look"}
    BY InvAt DEF Load, Look
<1>2. CASE Load(r) /\ job[r].member \in Primary
    <2>1. Refuse(r, "conflict")
        BY <1>2 DEF Load
    <2>2. /\ TypeOK' /\ Only(r) /\ UNCHANGED DB /\ pc'[r] = "reply"
          /\ job'[r] = [job[r] EXCEPT !.status = "conflict"]
        BY <1>1, <2>1, RefuseShape
    <2>3. /\ job'[r].member = job[r].member /\ job'[r].wrote = job[r].wrote
          /\ job'[r].loaded = job[r].loaded /\ job'[r].status = "conflict"
        BY <1>1, <2>2 DEF Job
    <2>4. Own(r)' /\ Cause(r)'
        BY <1>1, <2>2, <2>3 DEF Own, Cause, Creating, Wrote, DB
    <2>. QED BY <1>1, <2>2, <2>3, <2>4, QuietStep
<1>3. CASE ~(Load(r) /\ job[r].member \in Primary)
    <2>1. PICK l \in {"get row", "update", "insert"} :
            /\ Goto(r, l) /\ UNCHANGED DB
            /\ job' = [job EXCEPT ![r].loaded = job[r].member \in profiles]
            /\ l = "update" => job[r].member \in profiles
            /\ l = "insert" => job[r].member \notin profiles
            /\ l = "get row" => job[r].member \notin Primary
        BY <1>3 DEF Load, Look
    <2>2. /\ TypeOK' /\ Only(r) /\ pc'[r] = l
          /\ job'[r] = [job[r] EXCEPT !.loaded = job[r].member \in profiles]
        BY <1>1, <2>1, LoadShape DEF PCs
    <2>3. /\ job'[r].member = job[r].member /\ job'[r].wrote = job[r].wrote
          /\ job'[r].status = job[r].status
        BY <1>1, <2>2 DEF Job
    <2>4. job'[r].loaded <=> job[r].member \in profiles
        BY <1>1, <2>2 DEF Job
    <2>5. Own(r)'
        BY <1>1, <2>1, <2>2, <2>3 DEF Own, Creating, Wrote, DB
    <2>6. job'[r].loaded => job'[r].member \in profiles'
        <3>1. (job'[r].member \in profiles') = (job[r].member \in profiles)
            BY <2>1, <2>3 DEF DB
        <3>. QED BY <2>4, <3>1, Zenon
    <2>7. l = "update" => job'[r].loaded
        BY <2>1, <2>4, Zenon
    <2>8. l = "insert" => ~job'[r].loaded
        BY <2>1, <2>4, Zenon
    <2>9. Cause(r)'
        <3>1. job'[r].status # "error"
            BY <1>1, <2>3 DEF Cause
        <3>. QED BY <2>1, <2>2, <2>6, <2>7, <2>8, <3>1 DEF Cause
    <2>. QED BY <1>1, <2>1, <2>2, <2>3, <2>5, <2>9, QuietStep
<1>. QED BY <1>2, <1>3

\* The UPDATE of a profile waits for whoever is deleting it.
LEMMA UpdateStep ==
    ASSUME ProfilesInv, NEW r \in Requests, Update(r)
    PROVE  ProfilesInv'
<1>1. TypeOK /\ Own(r) /\ Cause(r) /\ job[r] \in Job /\ pc[r] = "update"
    BY InvAt DEF Update
<1>2. CASE job[r].member \notin profiles
    <2>1. Abort(r) /\ job[r].member \notin members
        BY <1>1, <1>2 DEF Update, Cause
    <2>. QED BY <1>1, <2>1, AbortStep
<1>3. CASE job[r].member \in profiles /\ Write(r, "update", "reply")
    <2>1. /\ TypeOK' /\ Only(r) /\ UNCHANGED DB /\ pc'[r] = "reply"
          /\ job'[r] = [job[r] EXCEPT !.wrote = @ \cup {"update"}]
        BY <1>1, <1>3, WriteShape DEF PCs, Labels
    <2>2. /\ job'[r].member = job[r].member /\ job'[r].wrote = {"update"}
          /\ job'[r].loaded = job[r].loaded /\ job'[r].status = job[r].status
        BY <1>1, <2>1 DEF Job, Own
    <2>3. Own(r)' /\ Cause(r)'
        BY <1>1, <2>1, <2>2 DEF Own, Cause, Creating, Wrote, DB
    <2>. QED BY <1>1, <2>1, <2>2, <2>3, QuietStep
<1>4. CASE job[r].member \in profiles /\ Step(r, "reply")
    <2>1. TypeOK' /\ Only(r) /\ UNCHANGED DB /\ pc'[r] = "reply" /\ job'[r] = job[r]
        BY <1>1, <1>4, StepShape DEF PCs
    <2>2. Own(r)' /\ Cause(r)'
        BY <1>1, <2>1 DEF Own, Cause, Creating, Wrote, DB
    <2>. QED BY <1>1, <2>1, <2>2, QuietStep
<1>. QED BY <1>2, <1>3, <1>4 DEF Update

\* The repository's delete reads the row once more.
LEMMA GetRowStep ==
    ASSUME ProfilesInv, NEW r \in Requests, GetRow(r)
    PROVE  ProfilesInv'
<1>1. TypeOK /\ Own(r) /\ Cause(r) /\ job[r] \in Job /\ pc[r] = "get row"
    BY InvAt DEF GetRow
<1>2. CASE job[r].member \in members
    <2>1. PICK l \in {"delete profile", "delete row"} :
            Step(r, l) /\ (l = "delete row" => ~job[r].loaded)
        BY <1>2 DEF GetRow
    <2>2. TypeOK' /\ Only(r) /\ UNCHANGED DB /\ pc'[r] = l /\ job'[r] = job[r]
        BY <1>1, <2>1, StepShape DEF PCs
    <2>3. Own(r)' /\ Cause(r)'
        BY <1>1, <2>1, <2>2 DEF Own, Cause, Creating, Wrote, DB
    <2>. QED BY <1>1, <2>1, <2>2, <2>3, QuietStep
<1>3. CASE job[r].member \notin members
    BY <1>1, <1>3, AbortStep DEF GetRow
<1>. QED BY <1>2, <1>3

\* The first of two insertions, or of an insertion and a deletion, makes the
\* other wait.
LEMMA InsertStep ==
    ASSUME ProfilesInv, NEW r \in Requests, Insert(r)
    PROVE  ProfilesInv'
<1>1. TypeOK /\ Own(r) /\ Cause(r) /\ job[r] \in Job /\ pc[r] = "insert" /\ ~Blocked(r)
    BY InvAt DEF Insert
<1>2. CASE job[r].member \in members \ profiles
    <2>1. /\ TypeOK' /\ Only(r) /\ UNCHANGED DB /\ pc'[r] = "reply"
          /\ job'[r] = [job[r] EXCEPT !.wrote = @ \cup {"profile"}]
        BY <1>1, <1>2, WriteShape DEF Insert, PCs, Labels
    <2>2. /\ job'[r].member = job[r].member /\ job'[r].wrote = {"profile"}
          /\ job'[r].loaded = job[r].loaded /\ job'[r].status = job[r].status
        BY <1>1, <2>1 DEF Job, Own
    <2>3. Own(r)' /\ Cause(r)'
        BY <1>1, <1>2, <2>1, <2>2 DEF Own, Cause, Creating, Wrote, DB
    <2>4. ASSUME NEW q \in Requests \ {r}
          PROVE  Apart(q, r)' /\ Apart(r, q)'
        <3>1. job'[q] = job[q] /\ pc'[q] = pc[q]
            BY <2>1 DEF Only
        <3>2. Own(q) /\ Apart(q, r)
            BY DEF ProfilesInv
        <3>3. job[q].member = job[r].member => ~Wrote(q, "profile") /\ ~Wrote(q, "delete")
            BY <1>1 DEF Blocked, WaitsOn
        <3>4. job[q].member = job[r].member => ~Creating(q)
            BY <1>2, <3>2 DEF Own
        <3>. QED BY <2>1, <2>2, <3>1, <3>3, <3>4 DEF Apart, Creating, Wrote
    <2>. QED BY <2>1, <2>3, <2>4, LocalStep
<1>3. CASE job[r].member \notin members \ profiles
    <2>1. ~job[r].loaded
        BY <1>1 DEF Cause
    <2>. QED BY <1>1, <1>3, <2>1, AbortStep DEF Insert
<1>. QED BY <1>2, <1>3

\* The deletion of a member takes its profile along, or finds that it has gone.
LEMMA DeleteProfileStep ==
    ASSUME ProfilesInv, NEW r \in Requests, DeleteProfile(r)
    PROVE  ProfilesInv'
<1>1. TypeOK /\ Own(r) /\ Cause(r) /\ job[r] \in Job /\ pc[r] = "delete profile" /\ ~Blocked(r)
    BY InvAt DEF DeleteProfile
<1>2. CASE job[r].member \in profiles
    <2>1. /\ TypeOK' /\ Only(r) /\ UNCHANGED DB /\ pc'[r] = "delete row"
          /\ job'[r] = [job[r] EXCEPT !.wrote = @ \cup {"delete profile"}]
        BY <1>1, <1>2, WriteShape DEF DeleteProfile, PCs, Labels
    <2>2. /\ job'[r].member = job[r].member /\ job'[r].wrote = {"delete profile"}
          /\ job'[r].loaded = job[r].loaded /\ job'[r].status = job[r].status
        BY <1>1, <2>1 DEF Job, Own
    <2>3. Own(r)' /\ Cause(r)'
        BY <1>1, <1>2, <2>1, <2>2 DEF Own, Cause, Creating, Wrote, DB
    <2>4. ASSUME NEW q \in Requests \ {r}
          PROVE  Apart(q, r)' /\ Apart(r, q)'
        <3>1. job'[q] = job[q] /\ pc'[q] = pc[q]
            BY <2>1 DEF Only
        <3>2. Apart(q, r)
            BY DEF ProfilesInv
        <3>3. job[q].member = job[r].member => ~Wrote(q, "delete profile")
            BY <1>1 DEF Blocked, WaitsOn
        <3>4. job[q].member = job[r].member => ~Creating(q)
            BY <1>1, <3>2 DEF Apart
        <3>. QED BY <2>1, <2>2, <3>1, <3>3, <3>4 DEF Apart, Creating, Wrote
    <2>. QED BY <2>1, <2>3, <2>4, LocalStep
<1>3. CASE job[r].member \notin profiles
    <2>1. TypeOK' /\ Only(r) /\ UNCHANGED DB /\ pc'[r] = "delete row" /\ job'[r] = job[r]
        BY <1>1, <1>3, StepShape DEF DeleteProfile, PCs
    <2>2. Own(r)' /\ Cause(r)'
        BY <1>1, <1>3, <2>1 DEF Own, Cause, Creating, Wrote, DB
    <2>. QED BY <1>1, <2>1, <2>2, QuietStep
<1>. QED BY <1>2, <1>3

\* The deletion of the member itself waits for insertions that refer to it.
LEMMA DeleteRowStep ==
    ASSUME ProfilesInv, NEW r \in Requests, DeleteRow(r)
    PROVE  ProfilesInv'
<1>1. TypeOK /\ Own(r) /\ Cause(r) /\ job[r] \in Job /\ pc[r] = "delete row" /\ ~Blocked(r)
    BY InvAt DEF DeleteRow
<1>2. CASE job[r].member \notin members
    <2>1. TypeOK' /\ Only(r) /\ UNCHANGED DB /\ pc'[r] = "reply" /\ job'[r] = job[r]
        BY <1>1, <1>2, StepShape DEF DeleteRow, PCs
    <2>2. job[r].member \notin profiles
        BY <1>2, InvAt DEF ProfilesHaveMembers
    <2>3. Own(r)' /\ Cause(r)'
        BY <1>1, <2>1, <2>2 DEF Own, Cause, Creating, Wrote, DB
    <2>. QED BY <1>1, <2>1, <2>3, QuietStep
<1>3. CASE Abort(r) /\ job[r].member \in profiles /\ ~Wrote(r, "delete profile")
    BY <1>1, <1>3, AbortStep DEF Cause
<1>4. CASE /\ job[r].member \in members /\ Write(r, "delete", "reply")
           /\ job[r].member \in profiles => Wrote(r, "delete profile")
    <2>1. /\ TypeOK' /\ Only(r) /\ UNCHANGED DB /\ pc'[r] = "reply"
          /\ job'[r] = [job[r] EXCEPT !.wrote = @ \cup {"delete"}]
        BY <1>1, <1>4, WriteShape DEF PCs, Labels
    <2>2. /\ job'[r].member = job[r].member /\ job'[r].wrote = job[r].wrote \cup {"delete"}
          /\ job'[r].loaded = job[r].loaded /\ job'[r].status = job[r].status
        BY <1>1, <2>1 DEF Job
    <2>3. Own(r)' /\ Cause(r)'
        BY <1>1, <1>4, <2>1, <2>2 DEF Own, Cause, Creating, Wrote, DB
    <2>4. ASSUME NEW q \in Requests \ {r}
          PROVE  Apart(q, r)' /\ Apart(r, q)'
        <3>1. job'[q] = job[q] /\ pc'[q] = pc[q]
            BY <2>1 DEF Only
        <3>2. Apart(q, r) /\ Apart(r, q)
            BY DEF ProfilesInv
        <3>3. job[q].member = job[r].member => ~Wrote(q, "profile") /\ ~Wrote(q, "delete")
            BY <1>1 DEF Blocked, WaitsOn
        <3>4. job[q].member = job[r].member => ~Creating(q)
            BY <1>1, <3>2 DEF Apart
        <3>. QED BY <2>1, <2>2, <3>1, <3>2, <3>3, <3>4 DEF Apart, Creating, Wrote
    <2>. QED BY <2>1, <2>3, <2>4, LocalStep
<1>. QED BY <1>2, <1>3, <1>4 DEF DeleteRow

\* A new member has an id nobody has met.
LEMMA AddMemberStep ==
    ASSUME ProfilesInv, NEW r \in Requests, AddMember(r)
    PROVE  ProfilesInv'
<1>1. TypeOK /\ Own(r) /\ Cause(r) /\ job[r] \in Job /\ pc[r] = "add member"
    BY InvAt DEF AddMember
<1>2. /\ TypeOK' /\ Only(r) /\ UNCHANGED DB /\ pc'[r] = "reply"
      /\ job'[r] = [job[r] EXCEPT !.wrote = @ \cup {"member"}]
    BY <1>1, WriteShape DEF AddMember, PCs, Labels
<1>3. /\ job'[r].member = job[r].member /\ job'[r].wrote = {"member"}
      /\ job'[r].loaded = job[r].loaded /\ job'[r].status = job[r].status
    BY <1>1, <1>2 DEF Job, Own
<1>4. Own(r)' /\ Cause(r)'
    BY <1>1, <1>2, <1>3 DEF Own, Cause, Creating, Wrote, DB
<1>5. ASSUME NEW q \in Requests \ {r}
      PROVE  Apart(q, r)' /\ Apart(r, q)'
    <2>1. job'[q] = job[q] /\ pc'[q] = pc[q]
        BY <1>2 DEF Only
    <2>2. Apart(q, r) /\ Apart(r, q)
        BY DEF ProfilesInv
    <2>. QED BY <1>1, <1>2, <1>3, <2>1, <2>2 DEF Apart, Creating, Wrote
<1>. QED BY <1>2, <1>4, <1>5, LocalStep

\* A slot that is free has a job, too.
LEMMA IdleType == IdleJob \in Job
BY DEF IdleJob, Job

\* Whoever gives up has nothing left that another request could meet.
LEMMA FailStep ==
    ASSUME ProfilesInv, NEW r \in Requests, Fail(r)
    PROVE  ProfilesInv'
<1>1. TypeOK /\ job' = [job EXCEPT ![r] = IdleJob] /\ Goto(r, "idle") /\ UNCHANGED DB
    BY InvAt DEF Fail
<1>2. job'[r] = IdleJob
    BY <1>1 DEF TypeOK
<1>3. Only(r) /\ pc'[r] = "idle" /\ TypeOK'
    BY <1>1, <1>2, JobStep, IdleType DEF TypeOK, PCs, DB
<1>4. Own(r)' /\ Cause(r)'
    BY <1>2, <1>3 DEF Own, Cause, Creating, Wrote, IdleJob
<1>5. ASSUME NEW q \in Requests \ {r}
      PROVE  Apart(q, r)' /\ Apart(r, q)'
    BY <1>2, <1>3 DEF Apart, Creating, Wrote, IdleJob
<1>. QED BY <1>1, <1>3, <1>4, <1>5, LocalStep

\* A request that arrives has written nothing; one that creates a member has
\* drawn an id that nobody has.
LEMMA ArriveStep ==
    ASSUME ProfilesInv, NEW r \in Requests, Create(r) \/ Delete(r) \/ PutProfile(r)
    PROVE  ProfilesInv'
<1>1. PICK o \in {"create", "delete", "put"}, m \in Members, l \in {"add member", "find"} :
        Start(r, o, m, l) /\ (l = "add member" => Unused(m))
    BY DEF Create, Delete, PutProfile
<1>2. TypeOK /\ UNCHANGED DB /\ Goto(r, l) /\ l \in PCs
      /\ job' = [job EXCEPT ![r] = [IdleJob EXCEPT !.op = o, !.member = m]]
    BY <1>1, InvAt DEF Start, PCs
<1>3. [IdleJob EXCEPT !.op = o, !.member = m] \in Job
    BY DEF IdleJob, Job
<1>4. job'[r] = [IdleJob EXCEPT !.op = o, !.member = m]
    BY <1>2 DEF TypeOK
<1>5. Only(r) /\ pc'[r] = l /\ TypeOK'
    BY <1>2, <1>3, <1>4, JobStep DEF TypeOK, DB
<1>6. job'[r].member = m /\ job'[r].wrote = {} /\ ~job'[r].loaded /\ job'[r].status = "ok"
    BY <1>4 DEF IdleJob
<1>7. Own(r)' /\ Cause(r)'
    <2>1. l = "add member" => m \notin members'
        BY <1>1, <1>2 DEF Unused, DB
    <2>2. Own(r)'
        BY <1>5, <1>6, <2>1 DEF Own, Creating, Wrote
    <2>3. Cause(r)'
        BY <1>5, <1>6 DEF Cause, Wrote
    <2>. QED BY <2>2, <2>3
<1>8. ASSUME NEW q \in Requests \ {r}
      PROVE  Apart(q, r)' /\ Apart(r, q)'
    <2>1. job'[q] = job[q] /\ pc'[q] = pc[q]
        BY <1>5 DEF Only
    <2>2. l = "add member" => job[q].member # m
        BY <1>1 DEF Unused
    <2>. QED BY <1>5, <1>6, <2>1, <2>2 DEF Apart, Creating, Wrote
<1>. QED BY <1>2, <1>5, <1>7, <1>8, LocalStep

-----------------------------------------------------------------------------
(* The COMMIT.                                                             *)

\* What a request commits: nothing, a member, a profile of a member that is
\* there, or the deletion of a member together with its profile.
LEMMA CloseShape ==
    ASSUME ProfilesInv, NEW r \in Requests, Close(r)
    PROVE  LET m == job[r].member
           IN  \/ UNCHANGED DB /\ ~Wrote(r, "delete")
               \/ /\ Wrote(r, "member") /\ m \in Members \ members
                  /\ members' = members \cup {m} /\ profiles' = profiles
               \/ /\ Wrote(r, "profile") /\ m \in members \ profiles
                  /\ members' = members /\ profiles' = profiles \cup {m}
               \/ /\ Wrote(r, "delete") /\ m \in members \ Primary
                  /\ members' = members \ {m} /\ profiles' = profiles \ {m}
                  /\ m \in profiles => Wrote(r, "delete profile")
<1>. DEFINE m == job[r].member
            w == job[r].wrote
<1>1. Own(r) /\ pc[r] = "close" /\ TypeOK /\ job[r] \in Job
    BY InvAt DEF Close
<1>2. /\ members' = (members \cup {x \in {m} : "member" \in w}) \ {x \in {m} : "delete" \in w}
      /\ profiles' = (profiles \cup {x \in {m} : "profile" \in w}) \ {x \in {m} : "delete profile" \in w}
    BY DEF Close, Wrote
<1>3. /\ m \in Members
      /\ "member" \in w => w = {"member"} /\ m \notin members
      /\ "profile" \in w => w = {"profile"} /\ m \in members \ profiles
      /\ "delete profile" \in w => "delete" \in w
      /\ "delete" \in w => m \in members \ Primary /\ (m \in profiles => "delete profile" \in w)
    BY <1>1 DEF Own, Creating, Wrote
<1>. HIDE DEF m, w
<1>4. CASE "member" \in w
    <2>1. members' = members \cup {m} /\ profiles' = profiles /\ m \notin members
        BY <1>2, <1>3, <1>4
    <2>. QED BY <1>3, <1>4, <2>1 DEF Wrote, m, w
<1>5. CASE "profile" \in w
    <2>1. members' = members /\ profiles' = profiles \cup {m} /\ m \in members \ profiles
        BY <1>2, <1>3, <1>5
    <2>. QED BY <1>3, <1>5, <2>1 DEF Wrote, m, w
<1>6. CASE "delete" \in w
    <2>1. members' = members \ {m}
        BY <1>2, <1>3, <1>6
    <2>2. profiles' = profiles \ {m}
        <3>1. "profile" \notin w
            <4>. SUFFICES ASSUME w = {"profile"} PROVE FALSE
                BY <1>3
            <4>. QED BY <1>6
        <3>2. CASE m \in profiles
            BY <1>2, <1>3, <1>6, <3>1, <3>2
        <3>3. CASE m \notin profiles
            BY <1>2, <3>1, <3>3
        <3>. QED BY <3>2, <3>3
    <2>. QED BY <1>3, <1>6, <2>1, <2>2 DEF Wrote, m, w
<1>7. CASE "member" \notin w /\ "profile" \notin w /\ "delete" \notin w
    BY <1>2, <1>3, <1>7 DEF DB, Wrote, w
<1>. QED BY <1>4, <1>5, <1>6, <1>7

\* The commit: whoever is still at work is apart from r, so that what it
\* relies on has not been taken away.
LEMMA CloseStep ==
    ASSUME ProfilesInv, NEW r \in Requests, Close(r)
    PROVE  ProfilesInv'
<1>. DEFINE m == job[r].member
            w == job[r].wrote
<1>1. TypeOK /\ ProfilesHaveMembers /\ Own(r)
      /\ job' = [job EXCEPT ![r] = IdleJob] /\ Goto(r, "idle") /\ pc[r] = "close"
    BY InvAt DEF Close
<1>2. job'[r] = IdleJob
    BY <1>1 DEF TypeOK
<1>3. Only(r) /\ pc'[r] = "idle" /\ pc' \in [Requests -> PCs] /\ job' \in [Requests -> Job]
    BY <1>1, <1>2, JobStep, IdleType DEF PCs
<1>4. TypeOK' /\ ProfilesHaveMembers'
    <2>1. Primary \subseteq members /\ members \subseteq Members /\ profiles \subseteq members
        BY <1>1 DEF TypeOK, ProfilesHaveMembers
    <2>2. Primary \subseteq members' /\ members' \subseteq Members /\ profiles' \subseteq members'
        BY <2>1, CloseShape DEF DB
    <2>. QED BY <1>3, <2>2 DEF TypeOK, ProfilesHaveMembers
<1>5. ASSUME NEW q \in Requests \ {r}
      PROVE  Own(q)' /\ Cause(q)' /\ Apart(q, r)' /\ Apart(r, q)'
    <2>1. job'[q] = job[q] /\ pc'[q] = pc[q]
        BY <1>3 DEF Only
    <2>2. Own(q) /\ Cause(q) /\ Apart(q, r) /\ Apart(r, q)
        BY DEF ProfilesInv
    <2>3. Apart(q, r)' /\ Apart(r, q)'
        BY <1>2, <1>3, <2>1 DEF Apart, Creating, Wrote, IdleJob
    <2>4. CASE UNCHANGED DB
        BY <2>1, <2>2, <2>3, <2>4 DEF Own, Cause, Creating, Wrote, DB
    <2>5. CASE job[q].member # m
        <3>1. /\ job[q].member \in members' <=> job[q].member \in members
              /\ job[q].member \in profiles' <=> job[q].member \in profiles
            BY <2>5, CloseShape DEF DB
        <3>. QED BY <2>1, <2>2, <2>3, <3>1 DEF Own, Cause, Creating, Wrote
    <2>6. CASE job[q].member = m /\ Wrote(r, "member")
        BY <1>1, <2>1, <2>2, <2>3, <2>6, CloseShape DEF Own, Cause, Apart, Creating, Wrote, ProfilesHaveMembers
    <2>7. CASE job[q].member = m /\ Wrote(r, "profile")
        BY <1>1, <2>1, <2>2, <2>3, <2>7, CloseShape DEF Own, Cause, Apart, Creating, Wrote
    <2>8. CASE job[q].member = m /\ Wrote(r, "delete")
        <3>1. /\ m \in members /\ members' = members \ {m} /\ profiles' = profiles \ {m}
              /\ m \in profiles => Wrote(r, "delete profile")
            <4>1. w = {"member"} \/ w = {"profile"} => "delete" \notin w
                OBVIOUS
            <4>. QED BY <1>1, <2>8, <4>1, CloseShape DEF Own, Wrote
        <3>2. \A k \in {"profile", "delete profile", "delete"} : ~Wrote(q, k)
            BY <2>2, <2>8, <3>1 DEF Own, Apart, Wrote
        <3>3. Own(q)'
            BY <2>1, <2>2, <2>8, <3>1, <3>2 DEF Own, Creating, Wrote
        <3>4. Cause(q)'
            BY <2>1, <2>2, <2>8, <3>1, <3>2 DEF Cause, Wrote
        <3>. QED BY <2>3, <3>3, <3>4
    <2>. QED BY <2>4, <2>5, <2>6, <2>7, <2>8, CloseShape
<1>6. Own(r)' /\ Cause(r)'
    BY <1>2, <1>3 DEF Own, Cause, Creating, Wrote, IdleJob
<1>7. ASSUME NEW p \in Requests, NEW q \in Requests, p # q
      PROVE  Apart(p, q)'
    <2>1. CASE p = r \/ q = r
        BY <1>5, <1>7, <2>1
    <2>2. CASE p # r /\ q # r
        <3>1. job'[q] = job[q] /\ pc'[q] = pc[q] /\ job'[p] = job[p] /\ pc'[p] = pc[p]
            BY <1>3, <2>2 DEF Only
        <3>. QED BY <1>7, <3>1 DEF ProfilesInv, Apart, Creating, Wrote
    <2>. QED BY <2>1, <2>2
<1>. QED BY <1>4, <1>5, <1>6, <1>7 DEF ProfilesInv

-----------------------------------------------------------------------------
(* The theorems.                                                           *)

\* It holds of the founded families before the first request.
LEMMA ProfilesInit == Init => ProfilesInv
<1>. SUFFICES ASSUME Init PROVE ProfilesInv
    OBVIOUS
<1>1. TypeOK /\ ProfilesHaveMembers
    BY MembersOK, IdleType DEF Init, TypeOK, PCs, ProfilesHaveMembers
<1>2. \A r \in Requests : job[r] = IdleJob /\ pc[r] = "idle"
    BY DEF Init
<1>3. \A r \in Requests : Own(r) /\ Cause(r)
    <2>. SUFFICES ASSUME NEW r \in Requests PROVE Own(r) /\ Cause(r)
        OBVIOUS
    <2>1. pc[r] = "idle" /\ job[r].wrote = {} /\ ~job[r].loaded /\ job[r].status = "ok"
        BY <1>2 DEF IdleJob
    <2>. QED BY <2>1 DEF Own, Cause, Creating, Wrote
<1>4. \A q, r \in Requests : Apart(q, r)
    <2>. SUFFICES ASSUME NEW q \in Requests, NEW r \in Requests PROVE Apart(q, r)
        OBVIOUS
    <2>1. pc[q] = "idle" /\ job[q].wrote = {}
        BY <1>2 DEF IdleJob
    <2>. QED BY <2>1 DEF Apart, Creating, Wrote
<1>. QED BY <1>1, <1>3, <1>4 DEF ProfilesInv

\* Every step keeps the invariant.
LEMMA ProfilesNext == ProfilesInv /\ [Next]_vars => ProfilesInv'
<1>. SUFFICES ASSUME ProfilesInv, [Next]_vars PROVE ProfilesInv'
    OBVIOUS
<1>1. CASE UNCHANGED vars
    BY <1>1 DEF vars, ProfilesInv, TypeOK, ProfilesHaveMembers, Own, Cause, Apart, Creating, Wrote
<1>2. ASSUME NEW r \in Requests, Create(r) \/ Delete(r) \/ PutProfile(r)
      PROVE  ProfilesInv'
    BY <1>2, ArriveStep
<1>3. ASSUME NEW r \in Requests, Handle(r) \/ Fail(r)
      PROVE  ProfilesInv'
    BY <1>3, AddMemberStep, FindStep, LoadStep, UpdateStep, InsertStep, GetRowStep,
       DeleteProfileStep, DeleteRowStep, ReplyStep, CloseStep, FailStep DEF Handle
<1>. QED BY <1>1, <1>2, <1>3 DEF Next

\* Every reachable state satisfies the invariant, and so every state
\* satisfies the type invariant: in particular no interleaving of deletions
\* loses a primary member.
THEOREM ProfileTypes == Spec => []TypeOK
<1>. QED BY ProfilesInit, ProfilesNext, PTL DEF Spec, ProfilesInv

\* However many requests create, delete and describe members at once, no
\* committed profile refers to a member that is not there.
THEOREM ProfilesKeepMembers == Spec => []ProfilesHaveMembers
<1>. QED BY ProfilesInit, ProfilesNext, PTL DEF Spec, ProfilesInv

\* A request fails only for what another one has committed since it looked.
THEOREM ProfileErrorsExplained == Spec => []ErrorsExplained
<1>1. ProfilesInv => ErrorsExplained
    BY DEF ProfilesInv, Cause, ErrorsExplained
<1>. QED BY <1>1, ProfilesInit, ProfilesNext, PTL DEF Spec

\* A member and its profile go in one commit, and neither goes otherwise.
THEOREM ProfileTakenAlong == Spec => TakenAlong
<1>. DEFINE Along == /\ profiles \ profiles' = profiles \cap (members \ members')
                     /\ members \ members' # {} => profiles' \subseteq profiles
<1>1. ProfilesInv /\ [Next]_vars => [Along]_vars
    <2>. SUFFICES ASSUME ProfilesInv, [Next]_vars PROVE Along
        OBVIOUS
    <2>1. CASE UNCHANGED DB
        BY <2>1 DEF DB
    <2>2. ASSUME NEW r \in Requests, Close(r)
          PROVE  Along
        BY <2>2, CloseShape DEF DB
    <2>3. ASSUME NEW r \in Requests,
                 Create(r) \/ Delete(r) \/ PutProfile(r) \/ (Handle(r) /\ ~Close(r)) \/ Fail(r)
          PROVE  UNCHANGED DB
        BY <2>3 DEF Create, Delete, PutProfile, Start, Handle, Fail, AddMember, Find, Load, Look,
                    Update, Insert, GetRow, DeleteProfile, DeleteRow, Reply,
                    Step, Write, Refuse, Abort, DB
    <2>. QED BY <2>1, <2>2, <2>3 DEF Next, vars, DB
<1>. QED BY <1>1, ProfilesInit, ProfilesNext, PTL DEF Spec, TakenAlong
=============================================================================

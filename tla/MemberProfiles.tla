--------------------------- MODULE MemberProfiles ---------------------------
(***************************************************************************)
(* The members of a family and their 1:1 profiles, which, unlike a child's *)
(* reading profile, are inserted only when the first PUT finds none: the   *)
(* deletion of a member, which takes the profile along, may race with it.  *)
(*                                                                         *)
(*   services/member.py     create, delete, upsert_profile                 *)
(*   db/models/family.py    FamilyMember, FamilyMemberProfile              *)
(*   providers.py           one transaction per request                    *)
(*                                                                         *)
(* Requests, locks and transactions are those of ChildRecords.  The other  *)
(* rows that refer to a member are in Membership, the values of columns in *)
(* RowUpdates, and the lookup by family stands for any that finds no row.  *)
(***************************************************************************)
CONSTANTS
    Requests,    \* slots for concurrently served requests
    Members,     \* UUIDs drawn for the members
    Primary,     \* the ids of primary members
    NoMember

VARIABLES
    members,     \* the committed members
    profiles,    \* those with a committed profile
    pc,          \* where the handler of each request is
    job          \* the request's local state and uncommitted writes

vars == <<members, profiles, pc, job>>
DB == <<members, profiles>>

\* loaded  whether the request has found the profile: the DELETE in the
\*         attribute selectin has filled, the PUT by get_by_member
\* wrote   the statements it has executed, not yet committed
Job == [op : {"none", "create", "delete", "put"}, member : Members \cup {NoMember},
        loaded : BOOLEAN, wrote : SUBSET {"member", "profile", "update", "delete profile", "delete"},
        status : {"ok", "not found", "conflict", "error"}]

PCs == {"idle", "add member", "find", "load", "look", "update", "insert", "get row",
        "delete profile", "delete row", "reply", "close"}

ASSUME MembersOK == Requests # {} /\ Primary \subseteq Members /\ NoMember \notin Members

TypeOK ==
    /\ Primary \subseteq members /\ members \subseteq Members /\ profiles \subseteq Members
    /\ pc \in [Requests -> PCs] /\ job \in [Requests -> Job]

-----------------------------------------------------------------------------
Wrote(q, w) == w \in job[q].wrote

\* Every way an open transaction q can make the statement of r wait.
WaitsOn(r, q) ==
    /\ q # r /\ job[q].member = job[r].member
    /\ \/ pc[r] \in {"update", "delete profile"} /\ (Wrote(q, "update") \/ Wrote(q, "delete profile"))
       \/ pc[r] = "insert" /\ \E w \in {"profile", "delete profile", "delete"} : Wrote(q, w)
       \/ pc[r] = "delete row" /\ (Wrote(q, "profile") \/ Wrote(q, "delete"))
Blocked(r) == \E q \in Requests : WaitsOn(r, q)

Busy(q) == pc[q] # "idle"
Unused(m) == m \notin members /\ \A q \in Requests : job[q].member # m

IdleJob == [op |-> "none", member |-> NoMember, loaded |-> FALSE, wrote |-> {}, status |-> "ok"]

Init ==
    /\ members = Primary /\ profiles = {}
    /\ pc = [r \in Requests |-> "idle"]
    /\ job = [r \in Requests |-> IdleJob]

Goto(r, l) == pc' = [pc EXCEPT ![r] = l]
Step(r, l) == Goto(r, l) /\ UNCHANGED <<DB, job>>
Write(r, w, l) ==
    /\ job' = [job EXCEPT ![r].wrote = @ \cup {w}]
    /\ Goto(r, l)
    /\ UNCHANGED DB
Refuse(r, s) ==
    /\ job' = [job EXCEPT ![r].status = s]
    /\ Goto(r, "reply")
    /\ UNCHANGED DB

\* Mutant of Abort: a statement that fails is tried again as it is.
AbortRetries(r) == Step(r, pc[r])

\* A statement raises an error no except clause handles: rollback and 500.
Abort(r) ==
    /\ job' = [job EXCEPT ![r].wrote = {}, ![r].status = "error"]
    /\ Goto(r, "close")
    /\ UNCHANGED DB

-----------------------------------------------------------------------------
Start(r, o, m, l) ==
    /\ pc[r] = "idle"
    /\ job' = [job EXCEPT ![r] = [IdleJob EXCEPT !.op = o, !.member = m]]
    /\ Goto(r, l)
    /\ UNCHANGED DB

Create(r) == \E m \in Members : Unused(m) /\ Start(r, "create", m, "add member")
Delete(r) == \E m \in Members : Start(r, "delete", m, "find")
PutProfile(r) == \E m \in Members : Start(r, "put", m, "find")

AddMember(r) == pc[r] = "add member" /\ Write(r, "member", "reply")

\* get_in_family
Find(r) ==
    /\ pc[r] = "find"
    /\ IF job[r].member \in members
       THEN Step(r, IF job[r].op = "put" THEN "look" ELSE "load")
       ELSE Refuse(r, "not found")

\* Mutant of Load: any member may be deleted.
LoadAnyMember(r) ==
    /\ pc[r] = "load"
    /\ job' = [job EXCEPT ![r].loaded = job[r].member \in profiles]
    /\ Goto(r, "get row")
    /\ UNCHANGED DB

\* The SELECT by which selectin fills the attribute profile.
Load(r) ==
    /\ pc[r] = "load"
    /\ IF job[r].member \in Primary THEN Refuse(r, "conflict")
       ELSE /\ job' = [job EXCEPT ![r].loaded = job[r].member \in profiles]
            /\ Goto(r, "get row")
            /\ UNCHANGED DB

\* get_by_member
Look(r) ==
    /\ pc[r] = "look"
    /\ job' = [job EXCEPT ![r].loaded = job[r].member \in profiles]
    /\ Goto(r, IF job[r].member \in profiles THEN "update" ELSE "insert")
    /\ UNCHANGED DB

\* As ChildRecords!Update.
Update(r) ==
    /\ pc[r] = "update"
    /\ \/ job[r].member \notin profiles /\ ~Blocked(r) /\ Abort(r)
       \/ job[r].member \in profiles /\ ~Blocked(r) /\ Write(r, "update", "reply")
       \/ job[r].member \in profiles /\ Step(r, "reply")

\* Mutant of Insert: the uncommitted deletion of the member does not make the
\* INSERT wait, member_id is no foreign key.
InsertUnreferenced(r) ==
    /\ pc[r] = "insert"
    /\ IF job[r].member \notin profiles THEN Write(r, "profile", "reply") ELSE Abort(r)

\* INSERT family_member_profile: member_id is unique and a foreign key.
Insert(r) ==
    /\ pc[r] = "insert"
    /\ ~Blocked(r)
    /\ IF job[r].member \in members \ profiles THEN Write(r, "profile", "reply") ELSE Abort(r)

\* Mutant of GetRow: the profile of the member is not loaded with it, and so
\* not deleted with it.
GetRowOnly(r) ==
    /\ pc[r] = "get row"
    /\ IF job[r].member \in members THEN Step(r, "delete row") ELSE Abort(r)

\* delete begins with a SELECT by id, which leaves the attribute as it is.
GetRow(r) ==
    /\ pc[r] = "get row"
    /\ IF job[r].member \in members
       THEN Step(r, IF job[r].loaded THEN "delete profile" ELSE "delete row")
       ELSE Abort(r)

\* A DELETE that matches no row passes.
DeleteProfile(r) ==
    /\ pc[r] = "delete profile"
    /\ ~Blocked(r)
    /\ IF job[r].member \in profiles THEN Write(r, "delete profile", "delete row")
       ELSE Step(r, "delete row")

\* Mutant of DeleteRow: what refers to the member is not looked at.
DeleteRowUnchecked(r) ==
    /\ pc[r] = "delete row"
    /\ ~Blocked(r)
    /\ IF job[r].member \in members THEN Write(r, "delete", "reply") ELSE Step(r, "reply")

\* The foreign key of a profile that is not deleted along refuses the DELETE.
DeleteRow(r) ==
    /\ pc[r] = "delete row"
    /\ ~Blocked(r)
    /\ \/ job[r].member \notin members /\ Step(r, "reply")
       \/ /\ job[r].member \in members
          /\ IF job[r].member \in profiles /\ ~Wrote(r, "delete profile") THEN Abort(r)
             ELSE Write(r, "delete", "reply")

\* The answer leaves before the transaction ends.
Reply(r) == pc[r] = "reply" /\ Step(r, "close")

Close(r) ==
    LET m == job[r].member
    IN  /\ pc[r] = "close"
        /\ members' = (members \cup {x \in {m} : Wrote(r, "member")})
                      \ {x \in {m} : Wrote(r, "delete")}
        /\ profiles' = (profiles \cup {x \in {m} : Wrote(r, "profile")})
                       \ {x \in {m} : Wrote(r, "delete profile")}
        /\ job' = [job EXCEPT ![r] = IdleJob]
        /\ Goto(r, "idle")

\* The connection fails in a statement or in the COMMIT, or the process dies.
Fail(r) ==
    /\ Busy(r)
    /\ job' = [job EXCEPT ![r] = IdleJob]
    /\ Goto(r, "idle")
    /\ UNCHANGED DB

Handle(r) ==
    \/ AddMember(r) \/ Find(r) \/ Load(r) \/ Look(r) \/ Update(r) \/ Insert(r)
    \/ GetRow(r) \/ DeleteProfile(r) \/ DeleteRow(r) \/ Reply(r) \/ Close(r)

Next ==
    \E r \in Requests :
        Create(r) \/ Delete(r) \/ PutProfile(r) \/ Handle(r) \/ Fail(r)

Spec == Init /\ [][Next]_vars

\* As in Membership: a started handler keeps running and lock waiters queue.
FairSpec == Spec /\ \A r \in Requests : SF_vars(Handle(r))

-----------------------------------------------------------------------------
(* Properties.                                                             *)

\* No profile outlives its member or comes after its deletion, although the
\* deletion decides by what it loaded earlier whether there is one to delete.
ProfilesHaveMembers == profiles \subseteq members

\* A 500 is owed to another request that has committed since this one looked:
\* the member has gone, or it has got the profile this one found missing.
ErrorsExplained ==
    \A r \in Requests :
        job[r].status = "error" =>
        \/ job[r].member \notin members
        \/ job[r].member \in profiles /\ ~job[r].loaded

\* A profile, once committed, is lost only with its member, and a member only
\* with its profile, in one commit.
TakenAlong ==
    [][/\ profiles \ profiles' = profiles \cap (members \ members')
       /\ members \ members' # {} => profiles' \subseteq profiles]_vars

\* The deletion of a member locks the profile and then the member, the
\* insertion of a profile the unique key and then the member: no request
\* waits for ever.
EveryRequestCloses ==
    \A r \in Requests : Busy(r) ~> ~Busy(r)
=============================================================================

--------------------------- MODULE ChildRecords ---------------------------
(***************************************************************************)
(* The children of the families, their reading profiles, reading history   *)
(* and reading policies, at the grain of the SQL statements the handlers   *)
(* execute.  What the tables promise is FamilyTables.                      *)
(*                                                                         *)
(*   routers/family.py, routers/internal.py   the two faces                *)
(*   services/child.py, services/policy.py    the operations               *)
(*   db/repositories/child.py, family.py      the family-scoped lookups    *)
(*   db/models/child.py, family.py            the foreign and unique keys  *)
(*   providers.py                             one transaction per request  *)
(*                                                                         *)
(* As in Membership a request runs in a slot at READ COMMITTED and its     *)
(* uncommitted writes are the labels job[r].wrote, carried to the tables   *)
(* by Close.  Values of columns are left to RowUpdates: an update is the   *)
(* row lock it takes, or nothing when no column changes.  The INSERT of a  *)
(* row that refers to a child locks the child against deletion.            *)
(***************************************************************************)
CONSTANTS
    Requests,    \* slots for concurrently served requests
    Families,    \* ids of the families, which are never deleted
    Ghost,       \* a family_id given to the internal face that has no row
    Children, Entries, Policies,     \* UUIDs drawn for the rows
    NoFamily, NoChild, NoRow

VARIABLES
    child, profiles, entry, policy,  \* the committed tables, as in FamilyTables
    pc,          \* where the handler of each request is
    job          \* the request's local state and uncommitted writes

vars == <<child, profiles, entry, policy, pc, job>>

Tables == INSTANCE FamilyTables

DB == <<child, profiles, entry, policy>>

ChildOps == {"create child", "update child", "delete child", "put profile"}
EntryOps == {"add entry", "update entry", "delete entry"}
PolicyOps == {"add policy", "update policy", "delete policy"}

\* op      the operation
\* family  from the access token (external face) or the query (internal)
\* child   the child it names or creates
\* row     the history entry or the policy it names or creates
\* wrote   the statements it has executed, not yet committed
\* status  the outcome of the handler; error is a 500, with nothing written
\* alone   history: no other request has been served at the same time
Job == [op : {"none"} \cup ChildOps \cup EntryOps \cup PolicyOps,
        family : Families \cup {Ghost, NoFamily}, child : Children \cup {NoChild},
        row : Entries \cup Policies \cup {NoRow},
        wrote : SUBSET {"child", "profile", "row", "update", "delete profile", "delete"},
        status : {"ok", "not found", "error"}, alone : BOOLEAN]

PCs == {"idle", "add child", "add profile", "find child", "find profile", "find entry",
        "find policy", "add row", "update", "get row", "delete profile", "delete row",
        "reply", "close"}

ASSUME RecordsOK ==
    /\ Requests # {} /\ Ghost \notin Families
    /\ NoFamily \notin Families /\ NoChild \notin Children /\ NoRow \notin Tables!PolicyRow

TypeOK ==
    /\ Tables!TablesTypeOK
    /\ pc \in [Requests -> PCs]
    /\ job \in [Requests -> Job]

-----------------------------------------------------------------------------
(* What queries return and what statements wait for.                       *)

IsChild(c) == c \in Children /\ child[c] # NoFamily

\* The row an update or delete is about.
Target(r) ==
    CASE job[r].op = "put profile"        -> <<"profile", job[r].child>>
      [] job[r].op \in EntryOps           -> <<"entry", job[r].row>>
      [] job[r].op \in PolicyOps          -> <<"policy", job[r].row>>
      [] OTHER                            -> <<"child", job[r].child>>

Present(x) ==
    CASE x[1] = "child"   -> IsChild(x[2])
      [] x[1] = "profile" -> x[2] \in profiles
      [] x[1] = "entry"   -> entry[x[2]] # NoChild
      [] x[1] = "policy"  -> policy[x[2]] # NoRow

Wrote(q, w) == w \in job[q].wrote

\* Committed rows q has updated or deleted, and the child a row it has
\* inserted refers to.
Changed(q) ==
    (IF Wrote(q, "update") \/ Wrote(q, "delete") THEN {Target(q)} ELSE {})
    \cup (IF Wrote(q, "delete profile") THEN {<<"profile", job[q].child>>} ELSE {})
Parents(q) ==
    IF Wrote(q, "row") /\ job[q].child # NoChild THEN {<<"child", job[q].child>>} ELSE {}

\* The lock r's statement needs is held by the open transaction of q.
WaitsOn(r, q) ==
    /\ q # r
    /\ \/ pc[r] \in {"update", "delete row"} /\ Target(r) \in Changed(q)
       \/ pc[r] = "delete profile" /\ <<"profile", job[r].child>> \in Changed(q)
       \/ pc[r] = "delete row" /\ Target(r) \in Parents(q)
       \/ pc[r] = "add row" /\ Wrote(q, "delete") /\ Target(q) = <<"child", job[r].child>>
Blocked(r) == \E q \in Requests : WaitsOn(r, q)

Busy(q) == pc[q] # "idle"
UnusedChild(c) == ~IsChild(c) /\ \A q \in Requests : job[q].child # c
UnusedRow(x) ==
    /\ \A q \in Requests : job[q].row # x
    /\ x \in Entries => entry[x] = NoChild
    /\ x \in Policies => policy[x] = NoRow

-----------------------------------------------------------------------------
IdleJob == [op |-> "none", family |-> NoFamily, child |-> NoChild, row |-> NoRow,
            wrote |-> {}, status |-> "ok", alone |-> FALSE]

Init ==
    /\ Tables!TablesInit
    /\ pc = [r \in Requests |-> "idle"]
    /\ job = [r \in Requests |-> IdleJob]

Goto(r, l) == pc' = [pc EXCEPT ![r] = l]

\* A request arrives; those being served are alone no longer.
Start(r, o, f, c, x, l) ==
    /\ pc[r] = "idle"
    /\ job' = [q \in Requests |->
                 IF q = r THEN [IdleJob EXCEPT !.op = o, !.family = f, !.child = c, !.row = x,
                                               !.alone = \A p \in Requests : ~Busy(p)]
                 ELSE [job[q] EXCEPT !.alone = FALSE]]
    /\ Goto(r, l)
    /\ UNCHANGED DB

\* A statement of r succeeds and changes nothing, or writes w.
Step(r, l) == Goto(r, l) /\ UNCHANGED <<DB, job>>
Write(r, w, l) ==
    /\ job' = [job EXCEPT ![r].wrote = @ \cup {w}]
    /\ Goto(r, l)
    /\ UNCHANGED DB

\* raise NotFoundError
NotFound(r) ==
    /\ job' = [job EXCEPT ![r].status = "not found"]
    /\ Goto(r, "reply")
    /\ UNCHANGED DB

\* A statement raises an error no except clause handles (IntegrityError,
\* StaleDataError, the repository's own NotFoundError): the scope of the
\* request rolls back and the answer is a 500.
Abort(r) ==
    /\ job' = [job EXCEPT ![r].wrote = {}, ![r].status = "error"]
    /\ Goto(r, "close")
    /\ UNCHANGED DB

\* Mutant of Rollback: the transaction is left open, with its locks.
RollbackKeepsLocks(r) ==
    /\ job' = [job EXCEPT ![r].status = "error"]
    /\ Goto(r, "idle")
    /\ UNCHANGED DB

Rollback(r) ==
    /\ job' = [job EXCEPT ![r] = IdleJob]
    /\ Goto(r, "idle")
    /\ UNCHANGED DB

-----------------------------------------------------------------------------
(* Arrival of a request.  The GET endpoints change nothing and are left    *)
(* out.                                                                    *)

CreateChild(r, f) ==
    \E c \in Children : UnusedChild(c) /\ Start(r, "create child", f, c, NoRow, "add child")
UpdateChild(r, f) == \E c \in Children : Start(r, "update child", f, c, NoRow, "find child")
DeleteChild(r, f) == \E c \in Children : Start(r, "delete child", f, c, NoRow, "find child")

\* upsert_reading_profile
PutProfile(r, f) == \E c \in Children : Start(r, "put profile", f, c, NoRow, "find child")

CreateEntry(r, f) ==
    \E c \in Children, e \in Entries :
        UnusedRow(e) /\ Start(r, "add entry", f, c, e, "find child")
UpdateEntry(r, f) ==
    \E c \in Children, e \in Entries : Start(r, "update entry", f, c, e, "find child")
DeleteEntry(r, f) ==
    \E c \in Children, e \in Entries : Start(r, "delete entry", f, c, e, "find child")

\* Mutant of CreatePolicy: the child of the body is not looked up.
CreatePolicyUnresolved(r, f) ==
    \E c \in Children \cup {NoChild}, p \in Policies :
        UnusedRow(p) /\ Start(r, "add policy", f, c, p, "add row")

\* Without a child_id _resolve_child has nothing to look up.
CreatePolicy(r, f) ==
    \E c \in Children \cup {NoChild}, p \in Policies :
        /\ UnusedRow(p)
        /\ Start(r, "add policy", f, c, p, IF c = NoChild THEN "add row" ELSE "find child")
UpdatePolicy(r, f) ==
    \E p \in Policies : Start(r, "update policy", f, NoChild, p, "find policy")
DeletePolicy(r, f) ==
    \E p \in Policies : Start(r, "delete policy", f, NoChild, p, "find policy")

\* /family/...: the family is that of a verified access token.
External(r) ==
    \E f \in Families :
        \/ CreateChild(r, f) \/ UpdateChild(r, f) \/ DeleteChild(r, f) \/ PutProfile(r, f)
        \/ CreateEntry(r, f) \/ UpdateEntry(r, f) \/ DeleteEntry(r, f)
        \/ CreatePolicy(r, f) \/ UpdatePolicy(r, f) \/ DeletePolicy(r, f)

\* /internal/...: the agent names the family in the query; no deletions.
Internal(r) ==
    \E f \in Families \cup {Ghost} :
        \/ CreateChild(r, f) \/ UpdateChild(r, f) \/ PutProfile(r, f)
        \/ CreateEntry(r, f) \/ UpdateEntry(r, f) \/ CreatePolicy(r, f) \/ UpdatePolicy(r, f)

-----------------------------------------------------------------------------
(* The lookups, each scoped to the family or to a child found in it.       *)

\* get_in_family, _require_child, _resolve_child
FindChild(r) ==
    /\ pc[r] = "find child"
    /\ IF IsChild(job[r].child) /\ child[job[r].child] = job[r].family
       THEN Step(r, CASE job[r].op = "update child"                    -> "update"
                      [] job[r].op = "delete child"                    -> "get row"
                      [] job[r].op = "put profile"                     -> "find profile"
                      [] job[r].op \in {"add entry", "add policy"}     -> "add row"
                      [] OTHER                                         -> "find entry")
       ELSE NotFound(r)

\* get_by_child: the row seeded with the child, unless the child has gone.
FindProfile(r) ==
    /\ pc[r] = "find profile"
    /\ Step(r, IF job[r].child \in profiles THEN "update" ELSE "add row")

\* Mutant of FindEntry: the entry is fetched by its id alone.
FindEntryById(r) ==
    /\ pc[r] = "find entry"
    /\ IF entry[job[r].row] # NoChild
       THEN Step(r, IF job[r].op = "update entry" THEN "update" ELSE "get row")
       ELSE NotFound(r)

\* get_for_child
FindEntry(r) ==
    /\ pc[r] = "find entry"
    /\ IF entry[job[r].row] = job[r].child
       THEN Step(r, IF job[r].op = "update entry" THEN "update" ELSE "get row")
       ELSE NotFound(r)

\* FamilyReadingPolicyRepository.get_in_family
FindPolicy(r) ==
    /\ pc[r] = "find policy"
    /\ IF policy[job[r].row] # NoRow /\ policy[job[r].row].family = job[r].family
       THEN Step(r, IF job[r].op = "update policy" THEN "update" ELSE "get row")
       ELSE NotFound(r)

-----------------------------------------------------------------------------
(* The writes.                                                             *)

\* INSERT child_profile; the family must exist.
AddChild(r) ==
    /\ pc[r] = "add child"
    /\ IF job[r].family \in Families THEN Write(r, "child", "add profile") ELSE Abort(r)

\* INSERT child_reading_profile with the defaults.
AddProfile(r) == pc[r] = "add profile" /\ Write(r, "profile", "reply")

\* INSERT of an entry, a policy or (upsert of a profile that was not found) a
\* profile.  The child and, for a policy, the family must exist now.
AddRow(r) ==
    /\ pc[r] = "add row"
    /\ ~Blocked(r)
    /\ IF /\ job[r].child = NoChild \/ IsChild(job[r].child)
          /\ job[r].op = "add policy"  => job[r].family \in Families
          /\ job[r].op = "put profile" => job[r].child \notin profiles
       THEN Write(r, "row", "reply")
       ELSE Abort(r)

\* update: an UPDATE by primary key if a column changes, StaleDataError if it
\* matches no row; else just the SELECT by id, which needs no lock.
Update(r) ==
    /\ pc[r] = "update"
    /\ \/ ~Present(Target(r)) /\ ~Blocked(r) /\ Abort(r)
       \/ Present(Target(r)) /\ ~Blocked(r) /\ Write(r, "update", "reply")
       \/ Present(Target(r)) /\ Step(r, "reply")

\* Mutant of GetRow: the profile is not deleted with its child.
GetRowNoCascade(r) ==
    /\ pc[r] = "get row"
    /\ IF Present(Target(r)) THEN Step(r, "delete row") ELSE Abort(r)

\* delete begins with a SELECT by id.
GetRow(r) ==
    /\ pc[r] = "get row"
    /\ IF Present(Target(r))
       THEN Step(r, IF job[r].op = "delete child" THEN "delete profile" ELSE "delete row")
       ELSE Abort(r)

\* The cascade to the reading profile.  A DELETE that matches no row (it has
\* waited for another deletion) passes with a warning.
DeleteProfile(r) ==
    /\ pc[r] = "delete profile"
    /\ ~Blocked(r)
    /\ IF job[r].child \in profiles THEN Write(r, "delete profile", "delete row")
       ELSE Step(r, "delete row")

\* What a DELETE of the row leaves dangling, for the foreign keys to refuse.
Dangling(r) ==
    /\ job[r].op = "delete child"
    /\ \/ Tables!Referenced(job[r].child)
       \/ job[r].child \in profiles /\ ~Wrote(r, "delete profile")

DeleteRow(r) ==
    /\ pc[r] = "delete row"
    /\ ~Blocked(r)
    /\ CASE ~Present(Target(r))                 -> Step(r, "reply")
         [] Present(Target(r)) /\ Dangling(r)   -> Abort(r)
         [] OTHER                               -> Write(r, "delete", "reply")

-----------------------------------------------------------------------------
(* The end of a request.                                                   *)

\* The answer leaves before the transaction ends.
Reply(r) == pc[r] = "reply" /\ Step(r, "close")

Close(r) ==
    LET j == job[r]
        On(o, w) == j.op = o /\ Wrote(r, w)
    IN  /\ pc[r] = "close"
        /\ child' = CASE Wrote(r, "child")            -> [child EXCEPT ![j.child] = j.family]
                      [] On("delete child", "delete") -> [child EXCEPT ![j.child] = NoFamily]
                      [] OTHER                        -> child
        /\ profiles' = CASE Wrote(r, "profile") \/ On("put profile", "row") -> profiles \cup {j.child}
                         [] Wrote(r, "delete profile")                      -> profiles \ {j.child}
                         [] OTHER                                           -> profiles
        /\ entry' = CASE On("add entry", "row")       -> [entry EXCEPT ![j.row] = j.child]
                      [] On("delete entry", "delete") -> [entry EXCEPT ![j.row] = NoChild]
                      [] OTHER                        -> entry
        /\ policy' = CASE On("add policy", "row") ->
                            [policy EXCEPT ![j.row] = [family |-> j.family, child |-> j.child]]
                       [] On("delete policy", "delete") -> [policy EXCEPT ![j.row] = NoRow]
                       [] OTHER                         -> policy
        /\ job' = [job EXCEPT ![r] = IdleJob]
        /\ Goto(r, "idle")

\* The connection fails in a statement or in the COMMIT, or the process dies.
Fail(r) == Busy(r) /\ Rollback(r)

-----------------------------------------------------------------------------
Handle(r) ==
    \/ FindChild(r) \/ FindProfile(r) \/ FindEntry(r) \/ FindPolicy(r)
    \/ AddChild(r) \/ AddProfile(r) \/ AddRow(r) \/ Update(r)
    \/ GetRow(r) \/ DeleteProfile(r) \/ DeleteRow(r) \/ Reply(r) \/ Close(r)

Next == \E r \in Requests : External(r) \/ Internal(r) \/ Handle(r) \/ Fail(r)

Spec == Init /\ [][Next]_vars

-----------------------------------------------------------------------------
(* Properties.                                                             *)

\* Whatever the interleaving, the tables change by whole operations: a child
\* with its profile, a deletion only of what nothing refers to, a history
\* entry only for a child that is there, a policy only for a child of its
\* own family.
ImplementsTables == Tables!TablesSpec

FamilyOf(x) ==
    CASE x[1] \in {"child", "profile"} -> child[x[2]]
      [] x[1] = "entry"                -> child[entry[x[2]]]
      [] x[1] = "policy"               -> policy[x[2]].family

\* "A caller can never reach another family's data by passing a foreign id"
\* (routers/family.py): every row an open transaction has locked by writing
\* it, and the parent of every row it has inserted, is still a committed row
\* of the request's family.
NeverCrossesFamilies ==
    \A r \in Requests : \A x \in Changed(r) \cup Parents(r) :
        Present(x) /\ FamilyOf(x) = job[r].family

\* A 500 has a cause: a request that ran alone gets one only for the creation
\* of a row in a family that does not exist (internal face) or the deletion of
\* a child that reading history or a policy refers to.  (RowUpdates adds the
\* null in a column that takes none.)
ErrorsExplained ==
    \A r \in Requests :
        job[r].status = "error" /\ job[r].alone
        => \/ job[r].family = Ghost /\ job[r].op \in {"create child", "add policy"}
           \/ job[r].op = "delete child" /\ Tables!Referenced(job[r].child)

\* Nobody waits for a request that has ended, and in every group of requests
\* one waits for none of the group: the deletion of a child, which locks the
\* profile and then the child, closes no circle with the rows that come to
\* refer to it or the updates of either, however many requests there are.
NoDeadlock ==
    /\ \A r, q \in Requests : WaitsOn(r, q) => Busy(q)
    /\ \A S \in (SUBSET Requests) \ {{}} : \E r \in S : \A q \in S : ~WaitsOn(r, q)
=============================================================================

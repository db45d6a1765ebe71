------------------------ MODULE ChildRecords_proofs ------------------------
(***************************************************************************)
(* Proofs about ChildRecords, for any numbers of requests, families,       *)
(* children, history entries and policies.                                 *)
(*                                                                         *)
(* The argument is again that of two-phase locking.  Shape says which      *)
(* statements a request can have executed where it is, Found what the      *)
(* rows it has found have become since, Locked what its uncommitted writes *)
(* hold fast, Apart what two requests cannot both have done, and Alone     *)
(* what a request that nobody disturbed may rely on.                       *)
(***************************************************************************)
EXTENDS ChildRecords, TLAPS

CreateOps == {"add entry", "add policy"}
UpdateOps == {"update child", "put profile", "update entry", "update policy"}
DeleteOps == {"delete child", "delete entry", "delete policy"}

\* Insertions that are under way: the row they are about is nobody else's.
Creating(r) == pc[r] = "add child" \/ Wrote(r, "child")
Adding(r) == (pc[r] \in {"find child", "add row"} /\ job[r].op \in CreateOps) \/ Wrote(r, "row")

\* The operation, the label and the statements executed fit each other.
Shape(r) ==
    LET o == job[r].op
        l == pc[r]
        w == job[r].wrote
    IN  /\ l \in {"add child", "add profile"} => o = "create child"
        /\ l = "find child" => o \in (ChildOps \cup EntryOps \cup {"add policy"}) \ {"create child"}
        /\ l = "find profile" => o = "put profile"
        /\ l = "find entry" => o \in {"update entry", "delete entry"}
        /\ l = "find policy" => o \in {"update policy", "delete policy"}
        /\ l = "add row" => o \in CreateOps \cup {"put profile"}
        /\ l = "update" => o \in UpdateOps
        /\ l \in {"get row", "delete row"} => o \in DeleteOps
        /\ l = "delete profile" => o = "delete child"
        /\ l \notin {"add profile", "delete row", "reply", "close"} => w = {}
        /\ l = "add profile" => "child" \in w
        /\ l = "delete row" => "delete" \notin w
        /\ "child" \in w => o = "create child" /\ (l = "add profile" \/ "profile" \in w)
        /\ "profile" \in w => "child" \in w
        /\ "row" \in w => o \in CreateOps
        /\ "update" \in w => o \in UpdateOps
        /\ "delete profile" \in w => o = "delete child" /\ (l = "delete row" \/ "delete" \in w)
        /\ "delete" \in w => o \in DeleteOps /\ (o = "delete child" => "delete profile" \in w)

\* A request names rows of the kind its operation is about.
Names(r) ==
    LET o == job[r].op
    IN  /\ pc[r] # "idle" => o # "none" /\ job[r].family \in Families \cup {Ghost}
        /\ Wrote(r, "child") => job[r].family \in Families
        /\ Wrote(r, "row") /\ o = "add policy" => job[r].family \in Families
        /\ o \in ChildOps \cup EntryOps => job[r].child \in Children
        /\ o \in EntryOps => job[r].row \in Entries
        /\ o \in PolicyOps => job[r].row \in Policies
        /\ o \in {"update policy", "delete policy"} => job[r].child = NoChild

\* Labels a request reaches only after its lookups have succeeded.
Sure(r) == pc[r] \in {"update", "get row", "delete profile", "delete row"}
           \/ job[r].wrote \cap {"update", "delete profile", "delete"} # {}
Past(r) == pc[r] \in {"find profile", "find entry", "add row"} \/ Wrote(r, "row") \/ Sure(r)

\* What a request has found is as it was found, or gone.
Found(r) ==
    LET o == job[r].op
        c == job[r].child
        x == job[r].row
    IN  /\ Past(r) /\ c # NoChild => child[c] \in {job[r].family, NoFamily}
        /\ Sure(r) /\ o \in EntryOps => entry[x] \in {c, NoChild}
        /\ Sure(r) /\ o \in PolicyOps => policy[x] = NoRow \/ policy[x].family = job[r].family
        /\ pc[r] = "add row" /\ o = "put profile" => ~IsChild(c)
        /\ pc[r] = "delete row" /\ o = "delete child" => Wrote(r, "delete profile") \/ ~IsChild(c)

\* What a request has written, or refers to, nobody takes away before its
\* COMMIT; what it inserts is not there yet.
Locked(r) ==
    LET o == job[r].op
        c == job[r].child
        x == job[r].row
    IN  /\ \A y \in Changed(r) \cup Parents(r) : Present(y)
        /\ Wrote(r, "delete") /\ o = "delete child" => ~Tables!Referenced(c)
        /\ Creating(r) => ~IsChild(c)
        /\ Adding(r) /\ o \in EntryOps => entry[x] = NoChild
        /\ Adding(r) /\ o \in PolicyOps => policy[x] = NoRow

\* A request that nobody disturbed still has what it found.
Alone(r) ==
    job[r].alone =>
        /\ \A q \in Requests \ {r} : ~Busy(q)
        /\ pc[r] \in {"find profile", "find entry", "add row"} /\ job[r].child # NoChild
           => IsChild(job[r].child)
        /\ pc[r] \in {"update", "get row", "delete profile", "delete row"} => Present(Target(r))
        /\ job[r].status = "error"
           => \/ job[r].family = Ghost /\ job[r].op \in {"create child", "add policy"}
              \/ job[r].op = "delete child" /\ Tables!Referenced(job[r].child)

\* A request that has come upon nothing of what it names.
Unmet(r, labels) == pc[r] \in labels /\ job[r].wrote = {}
MetByNoCreation == {"idle", "find child", "reply", "close"}
MetByNoInsertion == {"idle", "find child", "find entry", "find policy", "reply", "close"}

\* What two requests cannot both have done.
Apart(q, r) ==
    /\ Changed(q) \cap Changed(r) = {}
    /\ Wrote(q, "delete") => Target(q) \notin Parents(r)
    /\ Creating(q) /\ job[q].child = job[r].child
       => ~Creating(r) /\ Unmet(r, MetByNoCreation)
    /\ Adding(q) /\ Target(q) = Target(r)
       => ~Adding(r) /\ Unmet(r, MetByNoInsertion)

Own(r) ==
    /\ Shape(r) /\ Names(r) /\ Found(r) /\ Locked(r) /\ Alone(r)
    /\ pc[r] = "idle" => ~job[r].alone
    /\ job[r].status = "error" => pc[r] = "close"

RecordsInv ==
    /\ TypeOK
    /\ Tables!TablesConsistent
    /\ \A r \in Requests : Own(r)
    /\ \A q, r \in Requests : q # r => Apart(q, r)

-----------------------------------------------------------------------------
(* What a committed step does to the tables is FamilyTables' business.     *)

Theory == INSTANCE FamilyTables_proofs

\* The tables stay consistent as long as they change by whole operations:
\* the step lemma of FamilyTables, for the tables of this module.
LEMMA TablesStepHere ==
    ASSUME Tables!TablesTypeOK, Tables!TablesConsistent, [Tables!TablesNext]_(Tables!tables)
    PROVE  Tables!TablesTypeOK' /\ Tables!TablesConsistent'
<1>. USE DEF Tables!IsChild, Theory!IsChild, Tables!InFamily, Theory!InFamily,
             Tables!PolicyRow, Theory!PolicyRow, Tables!TablesTypeOK, Theory!TablesTypeOK,
             Tables!TablesConsistent, Theory!TablesConsistent, Theory!TablesInv,
             Tables!tables, Theory!tables
<1>1. Theory!TablesInv
    OBVIOUS
<1>2. [Theory!TablesNext]_(Theory!tables)
    BY DEF Tables!TablesNext, Theory!TablesNext, Tables!AddChild, Theory!AddChild,
           Tables!DropChild, Theory!DropChild, Tables!AddEntry, Theory!AddEntry,
           Tables!DropEntry, Theory!DropEntry, Tables!AddPolicy, Theory!AddPolicy,
           Tables!DropPolicy, Theory!DropPolicy, Tables!Referenced, Theory!Referenced
<1>3. Theory!TablesInv'
    <2>. HIDE DEF Tables!IsChild, Theory!IsChild, Tables!InFamily, Theory!InFamily,
             Tables!TablesTypeOK, Theory!TablesTypeOK,
             Tables!TablesConsistent, Theory!TablesConsistent, Theory!TablesInv,
             Tables!tables, Theory!tables
    <2>. QED BY <1>1, <1>2, RecordsOK, Theory!TablesStep DEF Theory!TablesOK
<1>. QED BY <1>3

-----------------------------------------------------------------------------
(* A statement of r that leaves the committed rows alone disturbs what is  *)
(* said of r, and of r with another request, only.                         *)

\* Another request is left as it is, but for the history flag.
Same(q) ==
    /\ pc'[q] = pc[q]
    /\ job'[q].op = job[q].op /\ job'[q].family = job[q].family
    /\ job'[q].child = job[q].child /\ job'[q].row = job[q].row
    /\ job'[q].wrote = job[q].wrote /\ job'[q].status = job[q].status
Only(r) == \A q \in Requests \ {r} : Same(q) /\ ~job'[q].alone

\* What is said of one request does not depend on the others.
LEMMA SameOwn ==
    ASSUME NEW q \in Requests, Own(q), Same(q), ~job'[q].alone, UNCHANGED DB
    PROVE  Own(q)'
<1>. USE DEF Same, DB, Wrote
<1>1. Shape(q)'
    BY DEF Own, Shape
<1>7. Names(q)'
    BY DEF Own, Names
<1>2. Found(q)'
    BY DEF Own, Found, Past, Sure, IsChild
<1>3. Changed(q)' = Changed(q) /\ Parents(q)' = Parents(q)
    BY DEF Changed, Parents, Target
<1>4. \A y : Present(y)' = Present(y)
    BY DEF Present, IsChild
<1>5. Locked(q)'
    BY <1>3, <1>4 DEF Own, Locked, Creating, Adding, IsChild, Tables!Referenced
<1>6. Alone(q)'
    BY DEF Alone
<1>. QED BY <1>1, <1>2, <1>5, <1>6, <1>7 DEF Own

\* Nor does what is said of two requests depend on the others.
LEMMA SameApart ==
    ASSUME NEW p \in Requests, NEW q \in Requests, Apart(p, q), Same(p), Same(q)
    PROVE  Apart(p, q)'
<1>. USE DEF Same, Wrote
<1>1. /\ Changed(p)' = Changed(p) /\ Changed(q)' = Changed(q) /\ Parents(q)' = Parents(q)
      /\ Target(p)' = Target(p) /\ Target(q)' = Target(q)
    BY DEF Changed, Parents, Target
<1>2. /\ Creating(p)' = Creating(p) /\ Creating(q)' = Creating(q)
      /\ Adding(p)' = Adding(p) /\ Adding(q)' = Adding(q)
    BY DEF Creating, Adding
<1>. QED BY <1>1, <1>2 DEF Apart, Unmet

\* So a statement of r that keeps the committed rows has three things to
\* preserve: what is said of r, and of r with another, each way.
LEMMA LocalStep ==
    ASSUME RecordsInv, TypeOK', NEW r \in Requests, Only(r), UNCHANGED DB, Own(r)',
           \A q \in Requests \ {r} : Apart(q, r)' /\ Apart(r, q)'
    PROVE  RecordsInv'
<1>1. Tables!TablesConsistent'
    BY DEF RecordsInv, Tables!TablesConsistent, Tables!IsChild, Tables!InFamily, DB
<1>2. ASSUME NEW q \in Requests
      PROVE  Own(q)'
    BY SameOwn DEF RecordsInv, Only
<1>3. ASSUME NEW p \in Requests, NEW q \in Requests, p # q
      PROVE  Apart(p, q)'
    <2>1. CASE p = r \/ q = r
        BY <1>3, <2>1
    <2>2. CASE p # r /\ q # r
        BY <1>3, <2>2, SameApart DEF RecordsInv, Only
    <2>. QED BY <2>1, <2>2
<1>. QED BY <1>1, <1>2, <1>3 DEF RecordsInv

\* Whatever is said of one request can be unfolded at once.
LEMMA InvAt ==
    ASSUME RecordsInv, NEW r \in Requests
    PROVE  /\ TypeOK /\ Tables!TablesTypeOK /\ Tables!TablesConsistent
           /\ Shape(r) /\ Names(r) /\ Found(r) /\ Locked(r) /\ Alone(r)
           /\ pc[r] = "idle" => ~job[r].alone
           /\ job[r].status = "error" => pc[r] = "close"
           /\ pc[r] \in PCs /\ job[r] \in Job
BY DEF RecordsInv, Own, TypeOK

\* Nobody is alone while r is served.
LEMMA NotAlone ==
    ASSUME RecordsInv, NEW r \in Requests, Busy(r)
    PROVE  \A q \in Requests \ {r} : ~job[q].alone
BY DEF RecordsInv, Own, Alone

\* The request stays the same one.
Kept(r) ==
    /\ job'[r].op = job[r].op /\ job'[r].family = job[r].family
    /\ job'[r].child = job[r].child /\ job'[r].row = job[r].row
    /\ job'[r].alone = job[r].alone

\* What a request that nobody disturbed relies on, after a step of its own.
LEMMA AloneStep ==
    ASSUME RecordsInv, NEW r \in Requests, Only(r), UNCHANGED DB, Kept(r),
           job[r].alone /\ pc'[r] \in {"find profile", "find entry", "add row"}
               /\ job[r].child # NoChild
           => IsChild(job[r].child),
           job[r].alone /\ pc'[r] \in {"update", "get row", "delete profile", "delete row"}
           => Present(Target(r)),
           job[r].alone /\ job'[r].status = "error"
           => \/ job[r].family = Ghost /\ job[r].op \in {"create child", "add policy"}
              \/ job[r].op = "delete child" /\ Tables!Referenced(job[r].child)
    PROVE  Alone(r)'
<1>1. job[r].alone => \A q \in Requests \ {r} : ~Busy(q)'
    <2>1. Alone(r)
        BY InvAt
    <2>2. \A q \in Requests \ {r} : Busy(q)' = Busy(q)
        BY DEF Only, Same, Busy
    <2>. QED BY <2>1, <2>2 DEF Alone
<1>2. \A c : IsChild(c)' = IsChild(c) /\ Tables!Referenced(c)' = Tables!Referenced(c)
    BY DEF IsChild, Tables!Referenced, DB
<1>3. \A y : Present(y)' = Present(y)
    BY DEF Present, IsChild, DB
<1>4. Target(r)' = Target(r)
    BY DEF Kept, Target
<1>. QED BY <1>1, <1>2, <1>3, <1>4 DEF Alone, Kept

\* A step of r that takes no lock, and that finds no row of another's making.
LEMMA QuietStep ==
    ASSUME RecordsInv, NEW r \in Requests, Busy(r),
           TypeOK', Only(r), UNCHANGED DB, Kept(r), Busy(r)',
           Shape(r)', Found(r)', Alone(r)',
           Wrote(r, "child")' => job[r].family \in Families,
           job'[r].status = "error" => pc'[r] = "close",
           job'[r].wrote \subseteq job[r].wrote \cup {"child", "profile"},
           Creating(r)' => Creating(r),
           Adding(r)' => Adding(r),
           \/ IsChild(job[r].child)
           \/ pc[r] \notin MetByNoCreation
           \/ pc'[r] \in MetByNoCreation /\ job'[r].wrote \subseteq job[r].wrote,
           \/ job[r].op \notin EntryOps \cup PolicyOps
           \/ Present(Target(r))
           \/ pc[r] \notin MetByNoInsertion
           \/ Adding(r)
           \/ pc'[r] \in MetByNoInsertion /\ job'[r].wrote \subseteq job[r].wrote
    PROVE  RecordsInv'
<1>1. Target(r)' = Target(r)
    BY DEF Kept, Target
<1>2. \A w \in {"row", "update", "delete profile", "delete"} : Wrote(r, w)' => Wrote(r, w)
    BY DEF Wrote
<1>3. Changed(r)' \subseteq Changed(r) /\ Parents(r)' \subseteq Parents(r)
    BY <1>1, <1>2 DEF Changed, Parents, Kept
<1>4. Names(r)'
    BY InvAt DEF Names, Kept, Busy, Wrote
<1>5. Locked(r)'
    <2>1. \A y : Present(y)' = Present(y)
        BY DEF Present, IsChild, DB
    <2>2. (\A c : IsChild(c)' = IsChild(c)) /\ Locked(r)
        BY InvAt DEF IsChild, DB
    <2>. QED BY <1>2, <1>3, <2>1, <2>2 DEF Locked, Kept, Tables!Referenced, DB, IsChild
<1>6. Own(r)'
    BY <1>4, <1>5 DEF Own, Busy
<1>. SUFFICES ASSUME NEW q \in Requests \ {r}
              PROVE  Apart(q, r)' /\ Apart(r, q)'
    BY <1>6, LocalStep
<1>7. Apart(q, r) /\ Apart(r, q) /\ Locked(q) /\ Shape(q)
    BY DEF RecordsInv, Own
<1>8. Same(q)
    BY DEF Only
<1>9. /\ Changed(q)' = Changed(q) /\ Parents(q)' = Parents(q) /\ Target(q)' = Target(q)
      /\ Creating(q)' = Creating(q) /\ Adding(q)' = Adding(q)
    BY <1>8 DEF Same, Changed, Parents, Target, Wrote, Creating, Adding
<1>10. Apart(r, q)'
    <2>1. Changed(r)' \cap Changed(q)' = {}
          /\ (Wrote(r, "delete")' => Target(r)' \notin Parents(q)')
        BY <1>7, <1>9, <1>1, <1>2, <1>3 DEF Apart
    <2>2. job'[q].child = job[q].child /\ job'[r].child = job[r].child
          /\ \A s : Unmet(q, s)' <=> Unmet(q, s)
        BY <1>8 DEF Same, Kept, Unmet
    <2>. QED BY <1>7, <1>9, <1>1, <2>1, <2>2 DEF Apart
<1>11. Creating(q) /\ job[q].child = job[r].child => Unmet(r, MetByNoCreation)'
    <2>. SUFFICES ASSUME Creating(q), job[q].child = job[r].child
                  PROVE  Unmet(r, MetByNoCreation)'
        OBVIOUS
    <2>1. ~IsChild(job[r].child)
        BY <1>7 DEF Locked
    <2>2. pc[r] \in MetByNoCreation /\ job[r].wrote = {}
        BY <1>7 DEF Apart, Unmet, MetByNoCreation
    <2>3. pc'[r] \in MetByNoCreation /\ job'[r].wrote = {}
        BY <2>1, <2>2
    <2>. QED BY <2>3 DEF Unmet, MetByNoCreation
<1>12. Adding(q) /\ Target(q) = Target(r) => Unmet(r, MetByNoInsertion)'
    <2>. SUFFICES ASSUME Adding(q), Target(q) = Target(r)
                  PROVE  Unmet(r, MetByNoInsertion)'
        OBVIOUS
    <2>1. job[q].op \in CreateOps
        BY <1>7 DEF Adding, Shape, Wrote
    <2>2. job[r].op \in EntryOps \cup PolicyOps
        <3>1. Target(q) = <<"entry", job[q].row>> \/ Target(q) = <<"policy", job[q].row>>
            BY <2>1 DEF Target, CreateOps, EntryOps, PolicyOps
        <3>. QED BY <3>1 DEF Target
    <2>3. ~Present(Target(q))
        BY <1>7, <2>1 DEF Locked, Target, Present, CreateOps, EntryOps, PolicyOps
    <2>4. ~Adding(r) /\ pc[r] \in MetByNoInsertion /\ job[r].wrote = {}
        BY <1>7 DEF Apart, Unmet, MetByNoInsertion
    <2>5. pc'[r] \in MetByNoInsertion /\ job'[r].wrote = {}
        BY <2>2, <2>3, <2>4
    <2>. QED BY <2>5 DEF Unmet, MetByNoInsertion
<1>13. Apart(q, r)'
    <2>1. Changed(q)' \cap Changed(r)' = {}
          /\ (Wrote(q, "delete")' => Target(q)' \notin Parents(r)')
        BY <1>7, <1>8, <1>9, <1>3 DEF Apart, Same, Wrote
    <2>2. job'[q].child = job[q].child /\ job'[r].child = job[r].child
        BY <1>8 DEF Same, Kept
    <2>. QED BY <1>7, <1>9, <1>1, <1>11, <1>12, <2>1, <2>2 DEF Apart
<1>. QED BY <1>10, <1>13

-----------------------------------------------------------------------------
(* What the steps of a request do to its local state.                      *)

Labels == {"child", "profile", "row", "update", "delete profile", "delete"}

\* The new job and label of r, when its step has given it others.
LEMMA JobStep ==
    ASSUME RecordsInv, NEW r \in Requests, Busy(r), NEW l \in PCs, Goto(r, l), NEW j \in Job,
           job' = [job EXCEPT ![r] = j], UNCHANGED DB
    PROVE  TypeOK' /\ Only(r) /\ pc'[r] = l /\ job'[r] = j
<1>1. TypeOK /\ pc' = [pc EXCEPT ![r] = l]
    BY InvAt DEF Goto
<1>2. pc \in [Requests -> PCs] /\ job \in [Requests -> Job]
    BY <1>1 DEF TypeOK
<1>3. \A q \in Requests \ {r} : pc'[q] = pc[q] /\ job'[q] = job[q]
    BY <1>1, <1>2
<1>4. Only(r)
    BY <1>3, NotAlone DEF Only, Same
<1>5. TypeOK'
    BY <1>1, <1>2 DEF TypeOK, Tables!TablesTypeOK, DB
<1>. QED BY <1>1, <1>2, <1>4, <1>5

\* A statement that changes nothing.
LEMMA StepShape ==
    ASSUME RecordsInv, NEW r \in Requests, Busy(r), NEW l \in PCs, Step(r, l)
    PROVE  /\ TypeOK' /\ Only(r) /\ UNCHANGED DB /\ pc'[r] = l /\ job'[r] = job[r] /\ Kept(r)
<1>1. job' = [job EXCEPT ![r] = job[r]] /\ job[r] \in Job
    BY DEF Step, RecordsInv, TypeOK
<1>. QED BY <1>1, JobStep DEF Step, Kept, DB

\* A statement that writes.
LEMMA WriteShape ==
    ASSUME RecordsInv, NEW r \in Requests, Busy(r), NEW w \in Labels, NEW l \in PCs, Write(r, w, l)
    PROVE  /\ TypeOK' /\ Only(r) /\ UNCHANGED DB /\ pc'[r] = l /\ Kept(r)
           /\ job'[r].wrote = job[r].wrote \cup {w} /\ job'[r].status = job[r].status
<1>. DEFINE j == [job[r] EXCEPT !.wrote = @ \cup {w}]
<1>1. job[r] \in Job /\ job' = [job EXCEPT ![r] = j]
    BY DEF Write, RecordsInv, TypeOK
<1>2. j \in Job
    BY <1>1 DEF Job, Labels
<1>3. /\ j.op = job[r].op /\ j.family = job[r].family /\ j.child = job[r].child
      /\ j.row = job[r].row /\ j.alone = job[r].alone
      /\ j.wrote = job[r].wrote \cup {w} /\ j.status = job[r].status
    BY <1>1 DEF Job
<1>4. Goto(r, l) /\ UNCHANGED DB
    BY DEF Write
<1>. HIDE DEF j
<1>5. TypeOK' /\ Only(r) /\ pc'[r] = l /\ job'[r] = j
    BY <1>1, <1>2, <1>4, JobStep DEF DB
<1>. QED BY <1>3, <1>4, <1>5 DEF Kept

\* A NotFoundError.
LEMMA NotFoundShape ==
    ASSUME RecordsInv, NEW r \in Requests, Busy(r), NotFound(r)
    PROVE  /\ TypeOK' /\ Only(r) /\ UNCHANGED DB /\ pc'[r] = "reply" /\ Kept(r)
           /\ job'[r].wrote = job[r].wrote /\ job'[r].status = "not found"
<1>. DEFINE j == [job[r] EXCEPT !.status = "not found"]
<1>1. job[r] \in Job /\ job' = [job EXCEPT ![r] = j]
    BY DEF NotFound, RecordsInv, TypeOK
<1>2. j \in Job /\ "reply" \in PCs
    BY <1>1 DEF Job, PCs
<1>3. /\ j.op = job[r].op /\ j.family = job[r].family /\ j.child = job[r].child
      /\ j.row = job[r].row /\ j.alone = job[r].alone
      /\ j.wrote = job[r].wrote /\ j.status = "not found"
    BY <1>1 DEF Job
<1>. HIDE DEF j
<1>4. UNCHANGED DB /\ Goto(r, "reply")
    BY DEF NotFound
<1>5. TypeOK' /\ Only(r) /\ pc'[r] = "reply" /\ job'[r] = j
    BY <1>1, <1>2, <1>4, JobStep
<1>. QED BY <1>3, <1>4, <1>5 DEF Kept

\* A failure that rolls back.
LEMMA AbortShape ==
    ASSUME RecordsInv, NEW r \in Requests, Busy(r), Abort(r)
    PROVE  /\ TypeOK' /\ Only(r) /\ UNCHANGED DB /\ pc'[r] = "close" /\ Kept(r)
           /\ job'[r].wrote = {} /\ job'[r].status = "error"
<1>. DEFINE j == [job[r] EXCEPT !.wrote = {}, !.status = "error"]
<1>1. job[r] \in Job /\ job' = [job EXCEPT ![r] = j]
    BY DEF Abort, RecordsInv, TypeOK
<1>2. j \in Job /\ "close" \in PCs
    BY <1>1 DEF Job, PCs
<1>3. /\ j.op = job[r].op /\ j.family = job[r].family /\ j.child = job[r].child
      /\ j.row = job[r].row /\ j.alone = job[r].alone
      /\ j.wrote = {} /\ j.status = "error"
    BY <1>1 DEF Job
<1>. HIDE DEF j
<1>4. UNCHANGED DB /\ Goto(r, "close")
    BY DEF Abort
<1>5. TypeOK' /\ Only(r) /\ pc'[r] = "close" /\ job'[r] = j
    BY <1>1, <1>2, <1>4, JobStep
<1>. QED BY <1>3, <1>4, <1>5 DEF Kept

\* The state a slot returns to is one it may be in.
LEMMA IdleType == IdleJob \in Job
BY DEF IdleJob, Job

\* The row an operation is about, and when it is there.
LEMMA TargetOf ==
    ASSUME NEW r \in Requests
    PROVE  /\ job[r].op = "put profile" => Target(r) = <<"profile", job[r].child>>
           /\ job[r].op \in EntryOps => Target(r) = <<"entry", job[r].row>>
           /\ job[r].op \in PolicyOps => Target(r) = <<"policy", job[r].row>>
           /\ job[r].op \in ChildOps \ {"put profile"} => Target(r) = <<"child", job[r].child>>
BY DEF Target, EntryOps, PolicyOps, ChildOps

\* When a row of each of the four kinds is there.
LEMMA PresentOf ==
    \A x : /\ Present(<<"child", x>>) <=> IsChild(x)
           /\ Present(<<"profile", x>>) <=> x \in profiles
           /\ Present(<<"entry", x>>) <=> entry[x] # NoChild
           /\ Present(<<"policy", x>>) <=> policy[x] # NoRow
<1>. TAKE x
<1>1. Present(<<"child", x>>) <=> IsChild(x)
    BY DEF Present
<1>2. Present(<<"profile", x>>) <=> x \in profiles
    <2>1. Present(<<"profile", x>>) = (x \in profiles)
        BY DEF Present
    <2>. QED BY <2>1
<1>3. Present(<<"entry", x>>) <=> entry[x] # NoChild
    <2>1. Present(<<"entry", x>>) = (entry[x] # NoChild)
        BY DEF Present
    <2>. QED BY <2>1
<1>4. Present(<<"policy", x>>) <=> policy[x] # NoRow
    <2>1. Present(<<"policy", x>>) = (policy[x] # NoRow)
        BY DEF Present
    <2>. QED BY <2>1
<1>. QED BY <1>1, <1>2, <1>3, <1>4

-----------------------------------------------------------------------------
(* The steps, one by one: first those that take no lock.                   *)

\* The answer leaves: the writes stay as they are until the COMMIT.
LEMMA ReplyStep ==
    ASSUME RecordsInv, NEW r \in Requests, Reply(r)
    PROVE  RecordsInv'
<1>1. pc[r] = "reply" /\ Step(r, "close") /\ Busy(r)
    BY DEF Reply, Busy
<1>2. TypeOK' /\ Only(r) /\ UNCHANGED DB /\ pc'[r] = "close" /\ job'[r] = job[r] /\ Kept(r)
    BY <1>1, StepShape DEF PCs
<1>3. Shape(r)'
    BY <1>1, <1>2, InvAt DEF Shape
<1>4. Found(r)'
    BY <1>1, <1>2, InvAt DEF Found, Past, Sure, Wrote, IsChild, DB
<1>5. Alone(r)'
    BY <1>1, <1>2, InvAt, AloneStep DEF Alone
<1>6. Wrote(r, "child") => job[r].family \in Families
    BY InvAt DEF Names
<1>. QED BY <1>1, <1>2, <1>3, <1>4, <1>5, <1>6, QuietStep
         DEF Busy, Creating, Adding, Wrote, MetByNoCreation, MetByNoInsertion

\* A 404 from a lookup.
LEMMA NotFoundStep ==
    ASSUME RecordsInv, NEW r \in Requests, NotFound(r),
           pc[r] \in {"find child", "find entry", "find policy"}
    PROVE  RecordsInv'
<1>1. Busy(r) /\ job[r].wrote = {}
    BY InvAt DEF Busy, Shape
<1>2. /\ TypeOK' /\ Only(r) /\ UNCHANGED DB /\ pc'[r] = "reply" /\ Kept(r)
      /\ job'[r].wrote = {} /\ job'[r].status = "not found"
    BY <1>1, NotFoundShape
<1>3. Shape(r)'
    BY <1>2 DEF Shape
<1>4. Found(r)'
    BY <1>2 DEF Found, Past, Sure, Wrote
<1>5. Alone(r)'
    BY <1>2, AloneStep
<1>. QED BY <1>1, <1>2, <1>3, <1>4, <1>5, QuietStep
         DEF Busy, Creating, Adding, Wrote, MetByNoCreation, MetByNoInsertion

\* A statement that fails.  If nobody disturbed the request, it can only be
\* for a family that does not exist or for rows that refer to the child.
LEMMA AbortStep ==
    ASSUME RecordsInv, NEW r \in Requests, Abort(r),
           pc[r] \in {"add child", "add row", "update", "get row", "delete row"},
           job[r].alone
           => \/ job[r].family = Ghost /\ job[r].op \in {"create child", "add policy"}
              \/ job[r].op = "delete child" /\ Tables!Referenced(job[r].child)
    PROVE  RecordsInv'
<1>1. Busy(r)
    BY DEF Busy
<1>2. /\ TypeOK' /\ Only(r) /\ UNCHANGED DB /\ pc'[r] = "close" /\ Kept(r)
      /\ job'[r].wrote = {} /\ job'[r].status = "error"
    BY <1>1, AbortShape
<1>3. Shape(r)'
    BY <1>2 DEF Shape
<1>4. Found(r)'
    BY <1>2 DEF Found, Past, Sure, Wrote
<1>5. Alone(r)'
    BY <1>2, AloneStep
<1>. QED BY <1>1, <1>2, <1>3, <1>4, <1>5, QuietStep
         DEF Busy, Creating, Adding, Wrote, MetByNoCreation, MetByNoInsertion

\* The lookup of the child, which every operation but those on a policy, and
\* the creation, begins with.
LEMMA FindChildStep ==
    ASSUME RecordsInv, NEW r \in Requests, FindChild(r)
    PROVE  RecordsInv'
<1>1. pc[r] = "find child" /\ Busy(r) /\ job[r].wrote = {}
    BY InvAt DEF FindChild, Busy, Shape
<1>2. CASE NotFound(r)
    BY <1>1, <1>2, NotFoundStep
<1>3. CASE ~NotFound(r)
    <2>1. PICK l \in {"update", "get row", "find profile", "add row", "find entry"} :
            /\ Step(r, l)
            /\ IsChild(job[r].child) /\ child[job[r].child] = job[r].family
            /\ l = "update" => job[r].op = "update child"
            /\ l = "get row" => job[r].op = "delete child"
            /\ l = "find profile" => job[r].op = "put profile"
            /\ l = "add row" => job[r].op \in CreateOps
            /\ l = "find entry" => job[r].op \in {"update entry", "delete entry"}
        <3>1. job[r].op \in (ChildOps \cup EntryOps \cup {"add policy"}) \ {"create child"}
            BY <1>1, InvAt DEF Shape
        <3>. QED BY <1>3, <3>1 DEF FindChild, ChildOps, EntryOps, CreateOps
    <2>2. TypeOK' /\ Only(r) /\ UNCHANGED DB /\ pc'[r] = l /\ job'[r] = job[r] /\ Kept(r)
        BY <1>1, <2>1, StepShape DEF PCs
    <2>3. Shape(r)'
        BY <1>1, <2>1, <2>2 DEF Shape, UpdateOps, DeleteOps
    <2>4. Found(r)'
        BY <1>1, <2>1, <2>2 DEF Found, Past, Sure, Wrote, IsChild, DB, EntryOps, PolicyOps, CreateOps
    <2>5. Present(Target(r)) \/ job[r].op \in EntryOps \cup PolicyOps \cup {"put profile"}
        BY <2>1 DEF Target, Present
    <2>6. Alone(r)'
        <3>1. l \in {"update", "get row"} => Present(Target(r))
            BY <2>1, <2>5 DEF EntryOps, PolicyOps
        <3>2. job'[r].status # "error"
            BY <1>1, <2>2, InvAt
        <3>. QED BY <2>1, <2>2, <3>1, <3>2, AloneStep
    <2>7. \/ job[r].op \notin EntryOps \cup PolicyOps
          \/ Adding(r)
          \/ l = "find entry"
        BY <1>1, <2>1 DEF EntryOps, PolicyOps, Adding
    <2>8. Adding(r)' => Adding(r)
        BY <1>1, <2>1, <2>2 DEF Adding, Wrote
    <2>9. ~Creating(r)' /\ ~Wrote(r, "child")'
        BY <1>1, <2>1, <2>2 DEF Creating, Wrote
    <2>10. l # "idle" /\ (l = "find entry" => l \in MetByNoInsertion)
        BY <2>1 DEF MetByNoInsertion
    <2>11. job'[r].status = "error" => pc'[r] = "close"
        BY <1>1, <2>2, InvAt
    <2>. QED BY <1>1, <2>1, <2>2, <2>3, <2>4, <2>6, <2>7, <2>8, <2>9, <2>10, <2>11, QuietStep DEF Busy
<1>. QED BY <1>2, <1>3

\* The lookup of the reading profile, by the child that has been found.
LEMMA FindProfileStep ==
    ASSUME RecordsInv, NEW r \in Requests, FindProfile(r)
    PROVE  RecordsInv'
<1>1. /\ pc[r] = "find profile" /\ Busy(r) /\ job[r].wrote = {} /\ job[r].op = "put profile"
      /\ job[r].status # "error" /\ job[r].child \in Children /\ job[r].child # NoChild
    BY InvAt, RecordsOK DEF FindProfile, Busy, Shape, Names, ChildOps
<1>2. PICK l \in {"update", "add row"} :
        Step(r, l) /\ (l = "update" <=> job[r].child \in profiles)
    BY DEF FindProfile
<1>3. TypeOK' /\ Only(r) /\ UNCHANGED DB /\ pc'[r] = l /\ job'[r] = job[r] /\ Kept(r)
    BY <1>1, <1>2, StepShape DEF PCs
<1>4. job[r].child \in profiles <=> IsChild(job[r].child)
    BY <1>1, InvAt DEF Tables!TablesConsistent, Tables!IsChild, IsChild
<1>5. Shape(r)'
    BY <1>1, <1>2, <1>3 DEF Shape, UpdateOps
<1>6. Found(r)'
    <2>1. child[job[r].child] \in {job[r].family, NoFamily}
        BY <1>1, InvAt DEF Found, Past
    <2>. QED BY <1>1, <1>2, <1>3, <1>4, <2>1
             DEF Found, Past, Sure, Wrote, IsChild, DB, EntryOps, PolicyOps
<1>7. Alone(r)'
    <2>1. job[r].alone => IsChild(job[r].child)
        BY <1>1, InvAt DEF Alone
    <2>2. l = "update" => Present(Target(r))
        BY <1>1, <1>2, TargetOf, PresentOf
    <2>. QED BY <1>1, <1>2, <1>3, <2>1, <2>2, AloneStep
<1>8. Adding(r)' => Adding(r)
    BY <1>1, <1>3 DEF Adding, Wrote, CreateOps
<1>9. ~Creating(r)' /\ ~Wrote(r, "child")'
    BY <1>1, <1>2, <1>3 DEF Creating, Wrote
<1>. QED BY <1>1, <1>2, <1>3, <1>5, <1>6, <1>7, <1>8, <1>9, QuietStep
         DEF Busy, MetByNoCreation, MetByNoInsertion

\* The lookup of an entry among those of the child that has been found.
LEMMA FindEntryStep ==
    ASSUME RecordsInv, NEW r \in Requests, FindEntry(r)
    PROVE  RecordsInv'
<1>1. /\ pc[r] = "find entry" /\ Busy(r) /\ job[r].wrote = {}
      /\ job[r].op \in {"update entry", "delete entry"}
      /\ job[r].status # "error" /\ job[r].child \in Children /\ job[r].child # NoChild
    BY InvAt, RecordsOK DEF FindEntry, Busy, Shape, Names, EntryOps
<1>2. CASE NotFound(r)
    BY <1>1, <1>2, NotFoundStep
<1>3. CASE ~NotFound(r)
    <2>1. PICK l \in {"update", "get row"} :
            /\ Step(r, l) /\ entry[job[r].row] = job[r].child
            /\ l = "update" <=> job[r].op = "update entry"
        BY <1>3 DEF FindEntry
    <2>2. TypeOK' /\ Only(r) /\ UNCHANGED DB /\ pc'[r] = l /\ job'[r] = job[r] /\ Kept(r)
        BY <1>1, <2>1, StepShape DEF PCs
    <2>3. Present(Target(r))
        BY <1>1, <2>1, TargetOf, PresentOf DEF EntryOps
    <2>4. Shape(r)'
        BY <1>1, <2>1, <2>2 DEF Shape, UpdateOps, DeleteOps
    <2>5. Found(r)'
        <3>1. child[job[r].child] \in {job[r].family, NoFamily}
            BY <1>1, InvAt DEF Found, Past
        <3>. QED BY <1>1, <2>1, <2>2, <3>1
                 DEF Found, Past, Sure, Wrote, IsChild, DB, EntryOps, PolicyOps
    <2>6. Alone(r)'
        BY <1>1, <2>1, <2>2, <2>3, AloneStep
    <2>7. ~Adding(r)' /\ ~Creating(r)' /\ ~Wrote(r, "child")'
        BY <1>1, <2>1, <2>2 DEF Adding, Creating, Wrote, CreateOps
    <2>. QED BY <1>1, <2>1, <2>2, <2>3, <2>4, <2>5, <2>6, <2>7, QuietStep
             DEF Busy, MetByNoCreation
<1>. QED BY <1>2, <1>3

\* The lookup of a policy among those of the family.
LEMMA FindPolicyStep ==
    ASSUME RecordsInv, NEW r \in Requests, FindPolicy(r)
    PROVE  RecordsInv'
<1>1. /\ pc[r] = "find policy" /\ Busy(r) /\ job[r].wrote = {}
      /\ job[r].op \in {"update policy", "delete policy"}
      /\ job[r].status # "error" /\ job[r].child = NoChild
    BY InvAt DEF FindPolicy, Busy, Shape, Names
<1>2. CASE NotFound(r)
    BY <1>1, <1>2, NotFoundStep
<1>3. CASE ~NotFound(r)
    <2>1. PICK l \in {"update", "get row"} :
            /\ Step(r, l)
            /\ policy[job[r].row] # NoRow /\ policy[job[r].row].family = job[r].family
            /\ l = "update" <=> job[r].op = "update policy"
        BY <1>3 DEF FindPolicy
    <2>2. TypeOK' /\ Only(r) /\ UNCHANGED DB /\ pc'[r] = l /\ job'[r] = job[r] /\ Kept(r)
        BY <1>1, <2>1, StepShape DEF PCs
    <2>3. Present(Target(r))
        BY <1>1, <2>1, TargetOf, PresentOf DEF PolicyOps
    <2>4. Shape(r)'
        BY <1>1, <2>1, <2>2 DEF Shape, UpdateOps, DeleteOps
    <2>5. Found(r)'
        BY <1>1, <2>1, <2>2 DEF Found, Past, Sure, Wrote, IsChild, DB, EntryOps, PolicyOps
    <2>6. Alone(r)'
        BY <1>1, <2>1, <2>2, <2>3, AloneStep
    <2>7. ~Adding(r)' /\ ~Creating(r)' /\ ~Wrote(r, "child")'
        BY <1>1, <2>1, <2>2 DEF Adding, Creating, Wrote, CreateOps
    <2>. QED BY <1>1, <2>1, <2>2, <2>3, <2>4, <2>5, <2>6, <2>7, QuietStep
             DEF Busy, MetByNoCreation
<1>. QED BY <1>2, <1>3

\* The INSERT of a child, in a family that exists, and of its profile.
LEMMA AddChildStep ==
    ASSUME RecordsInv, NEW r \in Requests, AddChild(r) \/ AddProfile(r)
    PROVE  RecordsInv'
<1>1. /\ pc[r] \in {"add child", "add profile"} /\ Busy(r) /\ job[r].op = "create child"
      /\ Creating(r) /\ job[r].status # "error"
    BY InvAt DEF AddChild, AddProfile, Busy, Shape, Creating, Wrote
<1>2. CASE Abort(r)
    <2>1. job[r].family = Ghost /\ pc[r] = "add child"
        <3>1. pc[r] = "add child" /\ job[r].family \notin Families
            <4>1. "child" # "profile" /\ "add profile" # "close"
                OBVIOUS
            <4>. QED BY <1>1, <1>2, <4>1 DEF AddChild, AddProfile, Abort, Write, Goto, RecordsInv, TypeOK
        <3>. QED BY <1>1, <3>1, InvAt DEF Names, Busy
    <2>. QED BY <1>1, <1>2, <2>1, AbortStep
<1>3. CASE ~Abort(r)
    <2>1. PICK w \in {"child", "profile"}, l \in {"add profile", "reply"} :
            /\ Write(r, w, l)
            /\ w = "child" => pc[r] = "add child" /\ l = "add profile" /\ job[r].family \in Families
            /\ w = "profile" => pc[r] = "add profile" /\ l = "reply"
        BY <1>3 DEF AddChild, AddProfile
    <2>2. /\ TypeOK' /\ Only(r) /\ UNCHANGED DB /\ pc'[r] = l /\ Kept(r)
          /\ job'[r].wrote = job[r].wrote \cup {w} /\ job'[r].status = job[r].status
        BY <1>1, <2>1, WriteShape DEF Labels, PCs
    <2>3. /\ pc[r] = "add child" => job[r].wrote = {}
          /\ pc[r] = "add profile" => "child" \in job[r].wrote
          /\ job[r].wrote \cap {"row", "update", "delete profile", "delete"} = {}
        BY <1>1, InvAt DEF Shape, CreateOps, UpdateOps, DeleteOps
    <2>4. Shape(r)'
        BY <1>1, <2>1, <2>2, <2>3 DEF Shape, Kept
    <2>5. Found(r)'
        BY <1>1, <2>1, <2>2, <2>3 DEF Found, Past, Sure, Wrote, Kept
    <2>6. Alone(r)'
        BY <1>1, <2>1, <2>2, AloneStep
    <2>7. ~Adding(r)'
        BY <1>1, <2>1, <2>2, <2>3 DEF Adding, Wrote
    <2>8. job[r].family \in Families
        BY <1>1, <2>1, <2>3, InvAt DEF Names, Wrote
    <2>. QED BY <1>1, <2>1, <2>2, <2>4, <2>5, <2>6, <2>7, <2>8, QuietStep
             DEF Busy, MetByNoCreation, MetByNoInsertion
<1>. QED BY <1>2, <1>3

\* Every label past the lookups but "add row" belongs to a row of an update or
\* of a deletion, and what is not a policy's is of a child that was found.
LEMMA SureAt ==
    ASSUME RecordsInv, NEW r \in Requests,
           pc[r] \in {"update", "get row", "delete profile", "delete row"}
    PROVE  /\ Busy(r) /\ Sure(r) /\ Past(r) /\ job[r].status # "error"
           /\ job[r].op \in UpdateOps \cup DeleteOps
           /\ ~Adding(r) /\ ~Creating(r) /\ ~Wrote(r, "child")
           /\ job[r].wrote \subseteq {"delete profile"}
           /\ pc[r] # "delete row" => job[r].wrote = {}
<1>1. Shape(r) /\ job[r] \in Job /\ job[r].status # "error"
    BY InvAt
<1>2. job[r].wrote \subseteq Labels
    BY <1>1 DEF Job, Labels
<1>3. job[r].op \in UpdateOps \cup DeleteOps
    BY <1>1 DEF Shape, DeleteOps
<1>4. job[r].op \notin CreateOps \cup {"create child"}
    BY <1>3 DEF UpdateOps, DeleteOps, CreateOps
<1>5. pc[r] = "delete row" => job[r].op \in DeleteOps /\ "delete" \notin job[r].wrote
    BY <1>1 DEF Shape
<1>6. job[r].op \in DeleteOps => job[r].op \notin UpdateOps
    BY DEF UpdateOps, DeleteOps
<1>7. /\ pc[r] # "delete row" => job[r].wrote = {}
      /\ "child" \notin job[r].wrote /\ "profile" \notin job[r].wrote /\ "row" \notin job[r].wrote
      /\ pc[r] = "delete row" => "update" \notin job[r].wrote
    BY <1>1, <1>4, <1>5, <1>6 DEF Shape
<1>. QED BY <1>1, <1>2, <1>3, <1>5, <1>7 DEF Busy, Sure, Past, Adding, Creating, Wrote, Labels

\* A SELECT, an UPDATE that changes no column or a DELETE of a row that has
\* gone: the request passes to l with what it had.
LEMMA PassStep ==
    ASSUME RecordsInv, NEW r \in Requests, NEW l \in {"delete profile", "delete row", "reply"},
           Step(r, l), pc[r] \in {"update", "get row", "delete profile", "delete row"},
           l = "delete profile" => pc[r] = "get row" /\ job[r].op = "delete child",
           l = "delete row" => job[r].op \in DeleteOps
                               /\ (job[r].op = "delete child" => ~IsChild(job[r].child)),
           l = "reply" => job[r].wrote = {},
           l # "reply" /\ job[r].alone => Present(Target(r))
    PROVE  RecordsInv'
<1>1. /\ Busy(r) /\ Sure(r) /\ Past(r) /\ job[r].status # "error"
      /\ ~Adding(r) /\ ~Creating(r) /\ ~Wrote(r, "child")
      /\ job[r].wrote \subseteq {"delete profile"}
      /\ pc[r] # "delete row" => job[r].wrote = {}
    BY SureAt
<1>2. TypeOK' /\ Only(r) /\ UNCHANGED DB /\ pc'[r] = l /\ job'[r] = job[r] /\ Kept(r)
    BY <1>1, StepShape DEF PCs
<1>3. Shape(r)'
    <2>1. l = "delete profile" => job[r].wrote = {}
        BY <1>1
    <2>2. Shape(r)
        BY InvAt
    <2>. QED BY <1>1, <1>2, <2>1, <2>2 DEF Shape
<1>4. Found(r)'
    <2>1. Found(r)
        BY InvAt
    <2>2. \A c : IsChild(c)' = IsChild(c)
        BY <1>2 DEF IsChild, DB
    <2>. QED BY <1>1, <1>2, <2>1, <2>2 DEF Found, Past, Sure, Wrote, DB
<1>5. Alone(r)'
    BY <1>1, <1>2, AloneStep
<1>6. ~Adding(r)' /\ ~Creating(r)' /\ ~Wrote(r, "child")'
    BY <1>1, <1>2 DEF Adding, Creating, Wrote
<1>. QED BY <1>1, <1>2, <1>3, <1>4, <1>5, <1>6, QuietStep
         DEF Busy, MetByNoCreation, MetByNoInsertion

\* delete begins with a SELECT of the row, and a child goes with its profile.
LEMMA GetRowStep ==
    ASSUME RecordsInv, NEW r \in Requests, GetRow(r)
    PROVE  RecordsInv'
<1>1. pc[r] = "get row" /\ job[r].op \in DeleteOps /\ job[r].wrote = {}
    BY InvAt DEF GetRow, Shape
<1>2. CASE Present(Target(r))
    <2>1. PICK l \in {"delete profile", "delete row"} :
            /\ Step(r, l)
            /\ l = "delete profile" => job[r].op = "delete child"
            /\ l = "delete row" => job[r].op # "delete child"
        BY <1>2 DEF GetRow
    <2>. QED BY <1>1, <1>2, <2>1, PassStep
<1>3. CASE ~Present(Target(r))
    <2>1. Abort(r) /\ ~job[r].alone
        BY <1>1, <1>3, InvAt DEF GetRow, Alone
    <2>. QED BY <1>1, <2>1, AbortStep
<1>. QED BY <1>2, <1>3

\* The cascade finds no profile when another deletion has committed.
LEMMA NoProfileStep ==
    ASSUME RecordsInv, NEW r \in Requests, DeleteProfile(r), job[r].child \notin profiles
    PROVE  RecordsInv'
<1>1. /\ pc[r] = "delete profile" /\ job[r].op = "delete child" /\ job[r].wrote = {}
      /\ Step(r, "delete row") /\ job[r].child \in Children
    BY InvAt DEF DeleteProfile, Shape, Names, ChildOps
<1>2. ~IsChild(job[r].child)
    BY <1>1, InvAt DEF Tables!TablesConsistent, Tables!IsChild, IsChild
<1>3. ~Present(Target(r))
    BY <1>1, <1>2, TargetOf, PresentOf DEF ChildOps
<1>4. ~job[r].alone
    BY <1>1, <1>3, InvAt DEF Alone
<1>. QED BY <1>1, <1>2, <1>4, PassStep DEF DeleteOps

\* The DELETE matches no row, or the foreign keys refuse it.
LEMMA NoDeletionStep ==
    ASSUME RecordsInv, NEW r \in Requests, DeleteRow(r), ~Present(Target(r)) \/ Dangling(r)
    PROVE  RecordsInv'
<1>1. pc[r] = "delete row" /\ job[r].op \in DeleteOps
    BY InvAt DEF DeleteRow, Shape
<1>2. job[r].op = "delete child" => Target(r) = <<"child", job[r].child>> /\ job[r].child \in Children
    BY TargetOf, InvAt DEF ChildOps, Names
<1>3. CASE ~Present(Target(r))
    <2>1. job[r].wrote = {}
        <3>1. "delete profile" \in job[r].wrote => FALSE
            <4>. SUFFICES ASSUME "delete profile" \in job[r].wrote PROVE FALSE
                OBVIOUS
            <4>1. job[r].op = "delete child"
                BY InvAt DEF Shape
            <4>2. <<"profile", job[r].child>> \in Changed(r)
                BY DEF Changed, Wrote
            <4>3. job[r].child \in profiles
                BY <4>2, InvAt, PresentOf DEF Locked
            <4>4. IsChild(job[r].child)
                BY <4>3, InvAt DEF Tables!TablesConsistent, Tables!IsChild, IsChild
            <4>. QED BY <1>2, <1>3, <4>1, <4>4, PresentOf
        <3>. QED BY <1>1, <3>1, SureAt
    <2>2. Step(r, "reply")
        BY <1>3 DEF DeleteRow
    <2>. QED BY <1>1, <2>1, <2>2, PassStep
<1>4. CASE Present(Target(r)) /\ Dangling(r)
    <2>1. Abort(r) /\ job[r].op = "delete child"
        BY <1>4 DEF DeleteRow, Dangling
    <2>2. IsChild(job[r].child)
        BY <1>2, <1>4, <2>1, PresentOf
    <2>3. Tables!Referenced(job[r].child)
        BY <1>1, <1>4, <2>1, <2>2, InvAt DEF Dangling, Found
    <2>. QED BY <1>1, <2>1, <2>3, AbortStep
<1>. QED BY <1>3, <1>4

-----------------------------------------------------------------------------
(* The steps that take a lock.                                             *)

\* A write of r that no lock of another request stands against, and that none
\* of what the others have written depends on.
LEMMA LockStep ==
    ASSUME RecordsInv, NEW r \in Requests, NEW w \in {"row", "update", "delete profile", "delete"},
           NEW l \in {"reply", "delete row"}, Write(r, w, l),
           pc[r] \in {"add row", "update", "delete profile", "delete row"},
           Shape(r)', Found(r)', Locked(r)',
           l = "delete row" => Present(Target(r)),
           w = "row" => Adding(r) /\ (job[r].op = "add policy" => job[r].family \in Families),
           \A q \in Requests \ {r} :
               /\ Changed(q) \cap Changed(r)' = {}
               /\ Wrote(q, "delete") => Target(q) \notin Parents(r)'
               /\ Wrote(r, "delete")' => Target(r) \notin Parents(q)
    PROVE  RecordsInv'
<1>1. Busy(r) /\ job[r].status # "error"
    BY InvAt DEF Busy
<1>2. /\ TypeOK' /\ Only(r) /\ UNCHANGED DB /\ pc'[r] = l /\ Kept(r)
      /\ job'[r].wrote = job[r].wrote \cup {w} /\ job'[r].status = job[r].status
    BY <1>1, WriteShape DEF Labels, PCs
<1>3. Alone(r)'
    BY <1>1, <1>2, AloneStep
<1>4. Names(r)'
    BY <1>1, <1>2, InvAt DEF Names, Kept, Busy, Wrote
<1>5. Own(r)'
    BY <1>1, <1>2, <1>3, <1>4 DEF Own
<1>. SUFFICES ASSUME NEW q \in Requests \ {r}
              PROVE  Apart(q, r)' /\ Apart(r, q)'
    BY <1>2, <1>5, LocalStep
<1>6. Apart(q, r) /\ Apart(r, q) /\ Same(q)
    BY <1>2 DEF RecordsInv, Only
<1>7. /\ Changed(q)' = Changed(q) /\ Parents(q)' = Parents(q) /\ Target(q)' = Target(q)
      /\ Creating(q)' = Creating(q) /\ Adding(q)' = Adding(q) /\ Wrote(q, "delete")' = Wrote(q, "delete")
      /\ job'[q].child = job[q].child /\ job'[r].child = job[r].child
      /\ \A s : Unmet(q, s)' <=> Unmet(q, s)
    BY <1>2, <1>6 DEF Same, Kept, Changed, Parents, Target, Wrote, Creating, Adding, Unmet
<1>8. Target(r)' = Target(r)
    BY <1>2 DEF Kept, Target
<1>9. (Creating(r)' => Creating(r)) /\ (Adding(r)' => Adding(r))
    BY <1>2 DEF Creating, Adding, Wrote, Kept
<1>10. ~Unmet(r, MetByNoCreation) /\ ~Unmet(r, MetByNoInsertion)
    BY DEF Unmet, MetByNoCreation, MetByNoInsertion
<1>11. Apart(q, r)'
    BY <1>6, <1>7, <1>8, <1>10 DEF Apart
<1>12. Apart(r, q)'
    BY <1>6, <1>7, <1>8, <1>9 DEF Apart
<1>. QED BY <1>11, <1>12

\* An INSERT takes hold of its parent, which nobody can have deleted: the
\* deletion would have made it wait.
LEMMA AddRowStep ==
    ASSUME RecordsInv, NEW r \in Requests, AddRow(r)
    PROVE  RecordsInv'
<1>1. /\ pc[r] = "add row" /\ ~Blocked(r) /\ job[r].wrote = {} /\ Busy(r) /\ Past(r)
      /\ job[r].op \in CreateOps \cup {"put profile"}
    BY InvAt DEF AddRow, Shape, Busy, Past
<1>2. CASE Abort(r)
    <2>1. job[r].alone => job[r].child = NoChild \/ IsChild(job[r].child)
        BY <1>1, InvAt DEF Alone
    <2>2. job[r].op = "put profile" => job[r].child \in Children /\ ~IsChild(job[r].child)
        BY <1>1, InvAt DEF Names, Found, ChildOps
    <2>3. job[r].alone => job[r].op # "put profile"
        BY <2>1, <2>2, RecordsOK
    <2>4. "reply" # "close"
        OBVIOUS
    <2>5. job[r].alone => job[r].op = "add policy" /\ job[r].family \notin Families
        <3>1. ~Write(r, "row", "reply")
            BY <1>2, <2>4 DEF Abort, Write, Goto, RecordsInv, TypeOK
        <3>. QED BY <2>1, <2>3, <3>1 DEF AddRow
    <2>6. job[r].alone => job[r].family = Ghost
        BY <1>1, <2>5, InvAt DEF Names, Busy
    <2>. QED BY <1>1, <1>2, <2>5, <2>6, AbortStep
<1>3. CASE ~Abort(r)
    <2>1. /\ Write(r, "row", "reply")
          /\ job[r].child = NoChild \/ IsChild(job[r].child)
          /\ job[r].op = "add policy" => job[r].family \in Families
        BY <1>3 DEF AddRow
    <2>2. job[r].op \in CreateOps /\ Adding(r)
        <3>1. job[r].op = "put profile" => job[r].child \in Children /\ ~IsChild(job[r].child)
            BY <1>1, InvAt DEF Names, Found, ChildOps
        <3>. QED BY <1>1, <2>1, <3>1, RecordsOK DEF Adding
    <2>3. /\ UNCHANGED DB /\ pc'[r] = "reply" /\ Kept(r) /\ job'[r].wrote = {"row"}
        BY <1>1, <2>1, WriteShape DEF Labels, PCs
    <2>4. Shape(r)'
        BY <2>2, <2>3 DEF Shape, Kept
    <2>5. job[r].op \notin {"put profile", "create child"}
        BY <2>2 DEF CreateOps
    <2>6. Found(r)'
        <3>1. job[r].child # NoChild => child[job[r].child] \in {job[r].family, NoFamily}
            BY <1>1, InvAt DEF Found
        <3>. QED BY <2>3, <3>1 DEF Found, Past, Sure, Wrote, Kept, DB
    <2>7. Changed(r)' = {}
        BY <2>3 DEF Changed, Wrote
    <2>8. Parents(r)' = IF job[r].child = NoChild THEN {} ELSE {<<"child", job[r].child>>}
        BY <2>3 DEF Parents, Wrote, Kept
    <2>9. Locked(r)'
        <3>1. \A y \in Parents(r)' : Present(y)
            <4>1. CASE job[r].child = NoChild
                BY <2>8, <4>1
            <4>2. CASE IsChild(job[r].child)
                <5>1. Present(<<"child", job[r].child>>)
                    BY <4>2, PresentOf
                <5>. QED BY <2>8, <5>1
            <4>. QED BY <2>1, <4>1, <4>2
        <3>2. \A y : Present(y)' = Present(y)
            BY <2>3 DEF Present, IsChild, DB
        <3>3. /\ job[r].op \in EntryOps => entry[job[r].row] = NoChild
              /\ job[r].op \in PolicyOps => policy[job[r].row] = NoRow
            BY <2>2, InvAt DEF Locked
        <3>4. ~Creating(r)' /\ ~Wrote(r, "delete")'
            BY <2>3 DEF Creating, Wrote
        <3>. QED BY <2>3, <2>7, <3>1, <3>2, <3>3, <3>4 DEF Locked, Kept, DB
    <2>10. ASSUME NEW q \in Requests \ {r}
           PROVE  /\ Changed(q) \cap Changed(r)' = {}
                  /\ Wrote(q, "delete") => Target(q) \notin Parents(r)'
                  /\ Wrote(r, "delete")' => Target(r) \notin Parents(q)
        <3>1. Wrote(q, "delete") => Target(q) # <<"child", job[r].child>>
            BY <1>1 DEF Blocked, WaitsOn
        <3>. QED BY <2>3, <2>7, <2>8, <3>1 DEF Wrote
    <2>. QED BY <1>1, <2>1, <2>2, <2>4, <2>6, <2>9, <2>10, LockStep
<1>. QED BY <1>2, <1>3

\* An UPDATE takes hold of a row that nobody else holds.
LEMMA UpdateStep ==
    ASSUME RecordsInv, NEW r \in Requests, Update(r)
    PROVE  RecordsInv'
<1>1. pc[r] = "update" /\ job[r].op \in UpdateOps
    BY InvAt DEF Update, Shape
<1>2. job[r].wrote = {} /\ Sure(r) /\ Past(r)
    BY <1>1, SureAt
<1>3. CASE ~Present(Target(r)) /\ Abort(r)
    BY <1>1, <1>3, AbortStep, InvAt DEF Alone
<1>4. CASE Step(r, "reply")
    BY <1>1, <1>2, <1>4, PassStep
<1>5. CASE Present(Target(r)) /\ ~Blocked(r) /\ Write(r, "update", "reply")
    <2>1. /\ UNCHANGED DB /\ pc'[r] = "reply" /\ Kept(r) /\ job'[r].wrote = {"update"}
        BY <1>1, <1>2, <1>5, SureAt, WriteShape DEF Labels, PCs
    <2>2. Shape(r)'
        BY <1>1, <2>1 DEF Shape, Kept
    <2>3. Found(r)'
        BY <1>2, <2>1, InvAt DEF Found, Past, Sure, Wrote, Kept, DB, IsChild
    <2>4. Target(r)' = Target(r)
        BY <2>1 DEF Kept, Target
    <2>5. Changed(r)' = {Target(r)} /\ Parents(r)' = {}
        BY <2>1, <2>4 DEF Changed, Parents, Wrote
    <2>6. Locked(r)'
        <3>1. \A y : Present(y)' = Present(y)
            BY <2>1 DEF Present, IsChild, DB
        <3>2. ~Creating(r)' /\ ~Adding(r)' /\ ~Wrote(r, "delete")'
            BY <2>1 DEF Creating, Adding, Wrote
        <3>. QED BY <1>5, <2>5, <3>1, <3>2 DEF Locked
    <2>7. ASSUME NEW q \in Requests \ {r}
          PROVE  /\ Changed(q) \cap Changed(r)' = {}
                 /\ Wrote(q, "delete") => Target(q) \notin Parents(r)'
                 /\ Wrote(r, "delete")' => Target(r) \notin Parents(q)
        <3>1. Target(r) \notin Changed(q)
            BY <1>1, <1>5 DEF Blocked, WaitsOn
        <3>. QED BY <2>1, <2>5, <3>1 DEF Wrote
    <2>. QED BY <1>1, <1>5, <2>2, <2>3, <2>6, <2>7, LockStep
<1>. QED BY <1>3, <1>4, <1>5 DEF Update

\* The cascade takes hold of the profile, if it is there.
LEMMA DeleteProfileStep ==
    ASSUME RecordsInv, NEW r \in Requests, DeleteProfile(r)
    PROVE  RecordsInv'
<1>1. /\ pc[r] = "delete profile" /\ ~Blocked(r) /\ job[r].op = "delete child"
      /\ job[r].child \in Children
    BY InvAt DEF DeleteProfile, Shape, Names, ChildOps
<1>2. job[r].wrote = {} /\ Sure(r) /\ Past(r)
    BY <1>1, SureAt
<1>3. CASE job[r].child \notin profiles
    BY <1>3, NoProfileStep
<1>4. CASE job[r].child \in profiles
    <2>1. Write(r, "delete profile", "delete row")
        BY <1>4 DEF DeleteProfile
    <2>2. /\ UNCHANGED DB /\ pc'[r] = "delete row" /\ Kept(r) /\ job'[r].wrote = {"delete profile"}
        BY <1>1, <1>2, <2>1, SureAt, WriteShape DEF Labels, PCs
    <2>3. IsChild(job[r].child) /\ Present(Target(r))
        <3>1. IsChild(job[r].child)
            BY <1>4, InvAt DEF Tables!TablesConsistent, Tables!IsChild, IsChild
        <3>. QED BY <1>1, <3>1, TargetOf, PresentOf DEF ChildOps
    <2>4. Shape(r)'
        BY <1>1, <2>2 DEF Shape, Kept, DeleteOps
    <2>5. Found(r)'
        BY <1>1, <1>2, <2>2, InvAt DEF Found, Past, Sure, Wrote, Kept, DB, EntryOps, PolicyOps
    <2>6. Changed(r)' = {<<"profile", job[r].child>>} /\ Parents(r)' = {}
        BY <2>2 DEF Changed, Parents, Wrote, Kept
    <2>7. Locked(r)'
        <3>1. \A y : Present(y)' = Present(y)
            BY <2>2 DEF Present, IsChild, DB
        <3>2. ~Creating(r)' /\ ~Adding(r)' /\ ~Wrote(r, "delete")'
            BY <2>2 DEF Creating, Adding, Wrote
        <3>3. Present(<<"profile", job[r].child>>)
            BY <1>4, PresentOf
        <3>. QED BY <2>6, <3>1, <3>2, <3>3 DEF Locked
    <2>8. ASSUME NEW q \in Requests \ {r}
          PROVE  /\ Changed(q) \cap Changed(r)' = {}
                 /\ Wrote(q, "delete") => Target(q) \notin Parents(r)'
                 /\ Wrote(r, "delete")' => Target(r) \notin Parents(q)
        <3>1. <<"profile", job[r].child>> \notin Changed(q)
            BY <1>1 DEF Blocked, WaitsOn
        <3>. QED BY <2>2, <2>6, <3>1 DEF Wrote
    <2>. QED BY <1>1, <2>1, <2>3, <2>4, <2>5, <2>7, <2>8, LockStep
<1>. QED BY <1>3, <1>4

\* The DELETE takes hold of a row that nobody else holds or refers to.
LEMMA DeleteRowStep ==
    ASSUME RecordsInv, NEW r \in Requests, DeleteRow(r)
    PROVE  RecordsInv'
<1>1. pc[r] = "delete row" /\ ~Blocked(r) /\ job[r].op \in DeleteOps
    BY InvAt DEF DeleteRow, Shape
<1>2. job[r].wrote \subseteq {"delete profile"} /\ Sure(r) /\ Past(r) /\ Busy(r)
    BY <1>1, SureAt
<1>3. CASE ~Present(Target(r)) \/ Dangling(r)
    BY <1>3, NoDeletionStep
<1>4. CASE Present(Target(r)) /\ ~Dangling(r)
    <2>1. Write(r, "delete", "reply")
        BY <1>4 DEF DeleteRow
    <2>2. /\ UNCHANGED DB /\ pc'[r] = "reply" /\ Kept(r)
          /\ job'[r].wrote = job[r].wrote \cup {"delete"}
        BY <1>1, <1>2, <2>1, WriteShape DEF Labels, PCs
    <2>3. job[r].op = "delete child"
          => ~Tables!Referenced(job[r].child) /\ Wrote(r, "delete profile")
        <3>. SUFFICES ASSUME job[r].op = "delete child"
                      PROVE  ~Tables!Referenced(job[r].child) /\ Wrote(r, "delete profile")
            OBVIOUS
        <3>1. IsChild(job[r].child)
            BY <1>4, TargetOf, PresentOf DEF ChildOps
        <3>2. job[r].child \in profiles
            BY <3>1, InvAt DEF Tables!TablesConsistent, Tables!IsChild, IsChild
        <3>. QED BY <1>4, <3>2 DEF Dangling
    <2>4. Wrote(r, "delete profile") => job[r].op = "delete child"
        BY InvAt DEF Shape, Wrote
    <2>5. Shape(r)'
        BY <1>1, <1>2, <2>2, <2>3, <2>4 DEF Shape, Kept, Wrote
    <2>6. Found(r)'
        BY <1>1, <1>2, <2>2, InvAt DEF Found, Past, Sure, Wrote, Kept, DB
    <2>7. Target(r)' = Target(r)
        BY <2>2 DEF Kept, Target
    <2>8. Changed(r)' \subseteq Changed(r) \cup {Target(r)} /\ Parents(r)' = {}
        BY <1>2, <2>2, <2>7 DEF Changed, Parents, Wrote, Kept
    <2>9. Locked(r)'
        <3>1. \A y : Present(y)' = Present(y)
            BY <2>2 DEF Present, IsChild, DB
        <3>2. ~Creating(r)' /\ ~Adding(r)'
            BY <1>2, <2>2 DEF Creating, Adding, Wrote
        <3>3. \A c : Tables!Referenced(c)' = Tables!Referenced(c)
            BY <2>2 DEF Tables!Referenced, DB
        <3>4. \A y \in Changed(r)' : Present(y)
            BY <1>4, <2>8, InvAt DEF Locked
        <3>. QED BY <2>2, <2>3, <2>8, <3>1, <3>2, <3>3, <3>4 DEF Locked, Kept
    <2>10. ASSUME NEW q \in Requests \ {r}
           PROVE  /\ Changed(q) \cap Changed(r)' = {}
                  /\ Wrote(q, "delete") => Target(q) \notin Parents(r)'
                  /\ Wrote(r, "delete")' => Target(r) \notin Parents(q)
        <3>1. Target(r) \notin Changed(q) /\ Target(r) \notin Parents(q)
            BY <1>1 DEF Blocked, WaitsOn
        <3>2. Changed(q) \cap Changed(r) = {}
            BY DEF RecordsInv, Apart
        <3>. QED BY <2>8, <3>1, <3>2
    <2>. QED BY <1>1, <2>1, <2>5, <2>6, <2>9, <2>10, LockStep
<1>. QED BY <1>3, <1>4

-----------------------------------------------------------------------------
(* The beginning and the end of a request.                                 *)

\* A slot whose request has ended is in nobody's way.
LEMMA IdleRequest ==
    ASSUME NEW r \in Requests, pc'[r] = "idle", job'[r] = IdleJob
    PROVE  Own(r)' /\ \A q \in Requests : Apart(q, r)' /\ Apart(r, q)'
<1>1. /\ job'[r].op = "none" /\ job'[r].wrote = {} /\ ~job'[r].alone /\ job'[r].status = "ok"
    BY DEF IdleJob
<1>2. Changed(r)' = {} /\ Parents(r)' = {} /\ ~Creating(r)' /\ ~Adding(r)'
    BY <1>1 DEF Changed, Parents, Creating, Adding, Wrote
<1>3. Own(r)'
    BY <1>1, <1>2 DEF Own, Shape, Names, Found, Past, Sure, Locked, Alone, Wrote,
                      ChildOps, EntryOps, PolicyOps
<1>4. \A s \in {MetByNoCreation, MetByNoInsertion} : Unmet(r, s)'
    BY <1>1 DEF Unmet, MetByNoCreation, MetByNoInsertion
<1>. QED BY <1>1, <1>2, <1>3, <1>4 DEF Apart, Wrote

\* A request that fails takes what it has written with it.
LEMMA FailStep ==
    ASSUME RecordsInv, NEW r \in Requests, Fail(r)
    PROVE  RecordsInv'
<1>1. /\ Busy(r) /\ job' = [job EXCEPT ![r] = IdleJob] /\ Goto(r, "idle") /\ UNCHANGED DB
      /\ "idle" \in PCs
    BY DEF Fail, Rollback, PCs
<1>2. TypeOK' /\ Only(r) /\ pc'[r] = "idle" /\ job'[r] = IdleJob
    BY <1>1, IdleType, JobStep
<1>. QED BY <1>1, <1>2, IdleRequest, LocalStep

\* What a request brings along when it arrives.
Arrives(r, o, f, c, x, l) ==
    /\ Start(r, o, f, c, x, l)
    /\ o \in ChildOps \cup EntryOps \cup PolicyOps
    /\ f \in Families \cup {Ghost}
    /\ c \in Children \cup {NoChild}
    /\ o \in ChildOps \cup EntryOps => c \in Children
    /\ o \in EntryOps => x \in Entries
    /\ o \in PolicyOps => x \in Policies
    /\ o \in ChildOps => x = NoRow
    /\ o \in CreateOps => UnusedRow(x)
    /\ l \in {"add child", "find child", "add row", "find policy"}
    /\ l = "add child" => o = "create child" /\ UnusedChild(c)
    /\ l = "find child" => o \in (ChildOps \cup EntryOps \cup {"add policy"}) \ {"create child"}
    /\ l = "add row" => o = "add policy" /\ c = NoChild
    /\ l = "find policy" => o \in {"update policy", "delete policy"}
    /\ o \in {"update policy", "delete policy"} => c = NoChild

\* Every arrival of either face is of this form.
LEMMA ArrivalShape ==
    ASSUME NEW r \in Requests, External(r) \/ Internal(r)
    PROVE  \E o, f, c, x, l : Arrives(r, o, f, c, x, l)
<1>. USE DEF Arrives, ChildOps, EntryOps, PolicyOps, CreateOps
<1>1. PICK f \in Families \cup {Ghost} :
        \/ CreateChild(r, f) \/ UpdateChild(r, f) \/ DeleteChild(r, f) \/ PutProfile(r, f)
        \/ CreateEntry(r, f) \/ UpdateEntry(r, f) \/ DeleteEntry(r, f)
        \/ CreatePolicy(r, f) \/ UpdatePolicy(r, f) \/ DeletePolicy(r, f)
    BY DEF External, Internal
<1>2. CASE CreateChild(r, f)
    <2>1. PICK c \in Children : Arrives(r, "create child", f, c, NoRow, "add child")
        BY <1>2 DEF CreateChild
    <2>. QED BY <2>1
<1>3. CASE UpdateChild(r, f) \/ DeleteChild(r, f) \/ PutProfile(r, f)
    <2>1. PICK o \in {"update child", "delete child", "put profile"}, c \in Children :
            Arrives(r, o, f, c, NoRow, "find child")
        BY <1>3 DEF UpdateChild, DeleteChild, PutProfile
    <2>. QED BY <2>1
<1>4. CASE CreateEntry(r, f) \/ UpdateEntry(r, f) \/ DeleteEntry(r, f)
    <2>1. PICK o \in EntryOps, c \in Children, e \in Entries : Arrives(r, o, f, c, e, "find child")
        BY <1>4 DEF CreateEntry, UpdateEntry, DeleteEntry
    <2>. QED BY <2>1
<1>5. CASE CreatePolicy(r, f)
    <2>1. PICK c \in Children \cup {NoChild}, p \in Policies, l \in {"add row", "find child"} :
            /\ UnusedRow(p) /\ Start(r, "add policy", f, c, p, l)
            /\ l = "add row" => c = NoChild
        BY <1>5 DEF CreatePolicy
    <2>2. Arrives(r, "add policy", f, c, p, l)
        BY <2>1
    <2>. QED BY <2>2
<1>6. CASE UpdatePolicy(r, f) \/ DeletePolicy(r, f)
    <2>1. PICK o \in {"update policy", "delete policy"}, p \in Policies :
            Arrives(r, o, f, NoChild, p, "find policy")
        BY <1>6 DEF UpdatePolicy, DeletePolicy
    <2>. QED BY <2>1
<1>. QED BY <1>1, <1>2, <1>3, <1>4, <1>5, <1>6

\* A request that arrives has nothing yet, and its fresh ids are nobody's.
LEMMA ArriveStep ==
    ASSUME RecordsInv, NEW r \in Requests, External(r) \/ Internal(r)
    PROVE  RecordsInv'
<1>1. PICK o, f, c, x, l : Arrives(r, o, f, c, x, l)
    BY ArrivalShape
<1>. DEFINE j == [IdleJob EXCEPT !.op = o, !.family = f, !.child = c, !.row = x,
                                 !.alone = \A p \in Requests : ~Busy(p)]
<1>2. /\ j.op = o /\ j.family = f /\ j.child = c /\ j.row = x /\ j.wrote = {} /\ j.status = "ok"
      /\ j.alone = (\A p \in Requests : ~Busy(p))
    BY DEF IdleJob
<1>3. j \in Job
    <2>1. (\A p \in Requests : ~Busy(p)) \in BOOLEAN
        OBVIOUS
    <2>2. o \in {"none"} \cup ChildOps \cup EntryOps \cup PolicyOps
          /\ f \in Families \cup {Ghost, NoFamily} /\ c \in Children \cup {NoChild}
          /\ x \in Entries \cup Policies \cup {NoRow}
        BY <1>1 DEF Arrives
    <2>3. \A b \in BOOLEAN : [IdleJob EXCEPT !.op = o, !.family = f, !.child = c, !.row = x,
                                             !.alone = b] \in Job
        BY <2>2, IdleType DEF Job
    <2>. QED BY <2>1, <2>3, Zenon
<1>4. /\ pc[r] = "idle" /\ Goto(r, l) /\ UNCHANGED DB
      /\ job' = [q \in Requests |-> IF q = r THEN j ELSE [job[q] EXCEPT !.alone = FALSE]]
    BY <1>1 DEF Arrives, Start
<1>. HIDE DEF j
<1>5. l \in PCs
    BY <1>1 DEF Arrives, PCs
<1>6. job'[r] = j /\ pc'[r] = l
    BY <1>4, InvAt DEF Goto, TypeOK
<1>7. ASSUME NEW q \in Requests \ {r}
      PROVE  Same(q) /\ ~job'[q].alone /\ job'[q] \in Job
    <2>1. job'[q] = [job[q] EXCEPT !.alone = FALSE] /\ pc'[q] = pc[q] /\ job[q] \in Job
        BY <1>4, InvAt DEF Goto, TypeOK
    <2>. QED BY <2>1 DEF Same, Job
<1>8. Only(r)
    BY <1>7 DEF Only
<1>9. TypeOK'
    <2>1. pc' \in [Requests -> PCs]
        BY <1>4, <1>5, InvAt DEF Goto, TypeOK
    <2>2. job' \in [Requests -> Job]
        BY <1>3, <1>4, <1>6, <1>7
    <2>3. Tables!TablesTypeOK'
        BY <1>4, InvAt DEF Tables!TablesTypeOK, DB
    <2>. QED BY <2>1, <2>2, <2>3 DEF TypeOK
<1>10. /\ Changed(r)' = {} /\ Parents(r)' = {} /\ \A w : ~Wrote(r, w)'
    BY <1>2, <1>6 DEF Changed, Parents, Wrote
<1>11. Creating(r)' => c \in Children /\ UnusedChild(c)
    BY <1>1, <1>6, <1>10 DEF Creating, Arrives, ChildOps
<1>12. Adding(r)' => o \in CreateOps /\ UnusedRow(x)
    BY <1>1, <1>2, <1>6, <1>10 DEF Adding, Arrives
<1>13. Own(r)'
    <2>1. Shape(r)'
        BY <1>1, <1>2, <1>6 DEF Shape, Arrives, CreateOps
    <2>2. Names(r)'
        <3>1. o # "none"
            BY <1>1 DEF Arrives, ChildOps, EntryOps, PolicyOps
        <3>. QED BY <1>1, <1>2, <1>6, <1>10, <3>1 DEF Names, Arrives
    <2>3. Found(r)'
        <3>1. ~Sure(r)' /\ (pc'[r] = "add row" => c = NoChild /\ o = "add policy")
            BY <1>1, <1>2, <1>6 DEF Sure, Arrives
        <3>2. Past(r)' => c = NoChild
            BY <1>1, <1>6, <1>10, <3>1 DEF Past, Arrives
        <3>3. pc'[r] # "delete row"
            BY <1>1, <1>6 DEF Arrives
        <3>. QED BY <1>2, <1>6, <3>1, <3>2, <3>3 DEF Found
    <2>4. Locked(r)'
        <3>1. Creating(r)' => ~IsChild(c)'
            BY <1>4, <1>11 DEF UnusedChild, IsChild, DB
        <3>2. Adding(r)' => (o \in EntryOps => entry'[x] = NoChild)
                            /\ (o \in PolicyOps => policy'[x] = NoRow)
            BY <1>1, <1>4, <1>12 DEF UnusedRow, Arrives, DB
        <3>. QED BY <1>2, <1>6, <1>10, <3>1, <3>2 DEF Locked
    <2>5. Alone(r)'
        <3>1. j.alone => \A q \in Requests \ {r} : ~Busy(q)'
            BY <1>2, <1>7 DEF Same, Busy
        <3>. QED BY <1>1, <1>2, <1>6, <3>1 DEF Alone, Arrives
    <2>. QED BY <1>1, <1>2, <1>6, <2>1, <2>2, <2>3, <2>4, <2>5 DEF Own, Arrives
<1>14. ASSUME NEW q \in Requests \ {r}
       PROVE  Apart(q, r)' /\ Apart(r, q)'
    <2>1. /\ Target(q)' = Target(q) /\ Creating(q)' = Creating(q) /\ Adding(q)' = Adding(q)
          /\ job'[q].child = job[q].child
        BY <1>7 DEF Same, Target, Creating, Adding, Wrote
    <2>2. Creating(r)' => job'[q].child # c
        BY <1>11, <2>1 DEF UnusedChild
    <2>3. Adding(r)' => Target(q)' # Target(r)'
        <3>. SUFFICES ASSUME Adding(r)' PROVE Target(q) # Target(r)'
            BY <2>1
        <3>1. o \in CreateOps /\ job[q].row # x
            BY <1>12 DEF UnusedRow
        <3>2. Target(r)' \in {<<"entry", x>>, <<"policy", x>>}
            BY <1>2, <1>6, <3>1 DEF Target, CreateOps, EntryOps, PolicyOps
        <3>3. Target(q) \in {<<"profile", job[q].child>>, <<"entry", job[q].row>>,
                             <<"policy", job[q].row>>, <<"child", job[q].child>>}
            BY DEF Target
        <3>. QED BY <3>1, <3>2, <3>3
    <2>4. Creating(q)' /\ job'[q].child = c => Unmet(r, MetByNoCreation)'
        <3>. SUFFICES ASSUME Creating(q), job[q].child = c PROVE Unmet(r, MetByNoCreation)'
            BY <2>1
        <3>1. c \in Children
            BY InvAt DEF Creating, Shape, Names, Wrote, ChildOps
        <3>2. l # "add child"
            BY <1>1 DEF Arrives, UnusedChild
        <3>3. l = "find child"
            BY <1>1, <3>1, <3>2, RecordsOK DEF Arrives
        <3>. QED BY <1>2, <1>6, <3>3 DEF Unmet, MetByNoCreation
    <2>5. Adding(q)' /\ Target(q)' = Target(r)' => Unmet(r, MetByNoInsertion)'
        <3>. SUFFICES ASSUME Adding(q), Target(q) = Target(r)' PROVE Unmet(r, MetByNoInsertion)'
            BY <2>1
        <3>1. job[q].op \in CreateOps
            BY InvAt DEF Adding, Shape, Wrote
        <3>2. Target(q) \in {<<"entry", job[q].row>>, <<"policy", job[q].row>>}
            BY <3>1 DEF Target, CreateOps, EntryOps, PolicyOps
        <3>3. o # "create child"
            BY <1>2, <1>6, <3>2 DEF Target, EntryOps, PolicyOps
        <3>4. ~Adding(r)'
            BY <2>1, <2>3
        <3>5. l \in {"find child", "find policy"}
            BY <1>1, <1>2, <1>6, <3>3, <3>4 DEF Arrives, Adding, CreateOps
        <3>. QED BY <1>2, <1>6, <3>5 DEF Unmet, MetByNoInsertion
    <2>6. Apart(q, r)'
        BY <1>2, <1>6, <1>10, <2>2, <2>3, <2>4, <2>5 DEF Apart
    <2>7. Apart(r, q)'
        BY <1>2, <1>6, <1>10, <2>2, <2>3 DEF Apart
    <2>. QED BY <2>6, <2>7
<1>. QED BY <1>4, <1>8, <1>9, <1>13, <1>14, LocalStep

-----------------------------------------------------------------------------
(* The COMMIT.                                                             *)

\* Every COMMIT is one operation of FamilyTables or leaves the tables alone.
LEMMA CloseShape ==
    ASSUME RecordsInv, NEW r \in Requests, Close(r)
    PROVE  LET o == job[r].op
               c == job[r].child
               x == job[r].row
               f == job[r].family
           IN  \/ UNCHANGED DB
               \/ /\ Wrote(r, "child") /\ c \in Children /\ f \in Families
                  /\ Tables!AddChild(c, f)
               \/ /\ Wrote(r, "delete") /\ o = "delete child" /\ c \in Children
                  /\ Tables!DropChild(c)
               \/ /\ Wrote(r, "row") /\ o = "add entry" /\ x \in Entries /\ c \in Children
                  /\ Tables!AddEntry(x, c)
               \/ /\ Wrote(r, "delete") /\ o = "delete entry" /\ x \in Entries
                  /\ Tables!DropEntry(x)
               \/ /\ Wrote(r, "row") /\ o = "add policy" /\ x \in Policies
                  /\ c \in Children \cup {NoChild} /\ f \in Families
                  /\ Tables!AddPolicy(x, f, c)
               \/ /\ Wrote(r, "delete") /\ o = "delete policy" /\ x \in Policies
                  /\ Tables!DropPolicy(x)
<1>. DEFINE o == job[r].op
            c == job[r].child
            x == job[r].row
            f == job[r].family
            W(w) == Wrote(r, w)
<1>1. /\ child' = CASE W("child")                            -> [child EXCEPT ![c] = f]
                    [] o = "delete child" /\ W("delete")     -> [child EXCEPT ![c] = NoFamily]
                    [] OTHER                                 -> child
      /\ profiles' = CASE W("profile") \/ (o = "put profile" /\ W("row")) -> profiles \cup {c}
                       [] W("delete profile")                             -> profiles \ {c}
                       [] OTHER                                           -> profiles
      /\ entry' = CASE o = "add entry" /\ W("row")       -> [entry EXCEPT ![x] = c]
                    [] o = "delete entry" /\ W("delete") -> [entry EXCEPT ![x] = NoChild]
                    [] OTHER                             -> entry
      /\ policy' = CASE o = "add policy" /\ W("row") ->
                            [policy EXCEPT ![x] = [family |-> f, child |-> c]]
                     [] o = "delete policy" /\ W("delete") -> [policy EXCEPT ![x] = NoRow]
                     [] OTHER                              -> policy
    BY DEF Close
<1>2. /\ pc[r] = "close"
      /\ W("child") => o = "create child"
      /\ W("profile") <=> W("child")
      /\ W("row") => o \in CreateOps
      /\ W("delete profile") => o = "delete child" /\ W("delete")
      /\ W("delete") => o \in DeleteOps /\ (o = "delete child" => W("delete profile"))
    BY InvAt DEF Close, Shape, Wrote
<1>3. /\ o \in ChildOps \cup EntryOps => c \in Children
      /\ o \in EntryOps => x \in Entries
      /\ o \in PolicyOps => x \in Policies
      /\ f \in Families \cup {Ghost}
      /\ W("child") => f \in Families
      /\ c \in Children \cup {NoChild}
    BY <1>2, InvAt DEF Names, Job
<1>4. /\ W("child") => ~IsChild(c)
      /\ W("delete") => Present(Target(r))
      /\ W("delete") /\ o = "delete child" => ~Tables!Referenced(c)
      /\ W("row") /\ o \in EntryOps => entry[x] = NoChild
      /\ W("row") /\ o \in PolicyOps => policy[x] = NoRow
      /\ W("row") /\ c # NoChild => IsChild(c)
    <2>1. W("delete") => Target(r) \in Changed(r)
        BY DEF Changed
    <2>2. W("row") /\ c # NoChild => <<"child", c>> \in Parents(r)
        BY DEF Parents
    <2>. QED BY <2>1, <2>2, InvAt, PresentOf DEF Locked, Creating, Adding
<1>5. W("row") /\ c # NoChild => child[c] = f
    BY <1>4, InvAt DEF Found, Past, IsChild
<1>6. /\ W("row") /\ o = "add policy" => f \in Families
      /\ \A p \in Children : Tables!IsChild(p) <=> IsChild(p)
    BY InvAt DEF Names, Tables!IsChild, IsChild
<1>7. CASE W("child")
    <2>1. o = "create child" /\ W("profile") /\ ~W("row") /\ ~W("delete")
        BY <1>2, <1>7 DEF CreateOps, DeleteOps
    <2>2. /\ child' = [child EXCEPT ![c] = f] /\ profiles' = profiles \cup {c}
          /\ entry' = entry /\ policy' = policy
        <3>1. child' = [child EXCEPT ![c] = f]
            BY <1>1, <1>7, <2>1
        <3>2. profiles' = profiles \cup {c}
            BY <1>1, <1>2, <2>1
        <3>3. entry' = entry /\ policy' = policy
            BY <1>1, <2>1
        <3>. QED BY <3>1, <3>2, <3>3
    <2>3. c \in Children /\ f \in Families /\ ~Tables!IsChild(c)
        BY <1>3, <1>4, <1>6, <1>7, <2>1 DEF ChildOps
    <2>. QED BY <1>7, <2>2, <2>3 DEF Tables!AddChild
<1>8. CASE W("row")
    <2>1. ~W("child") /\ ~W("profile") /\ ~W("delete") /\ ~W("delete profile") /\ o \in CreateOps
        BY <1>2, <1>8 DEF CreateOps, DeleteOps
    <2>2. child' = child /\ profiles' = profiles
        BY <1>1, <2>1 DEF CreateOps
    <2>3. CASE o = "add entry"
        <3>1. entry' = [entry EXCEPT ![x] = c] /\ policy' = policy
            BY <1>1, <1>8, <2>3
        <3>2. x \in Entries /\ c \in Children /\ entry[x] = NoChild /\ Tables!IsChild(c)
            BY <1>3, <1>4, <1>6, <1>8, <2>3, RecordsOK DEF EntryOps
        <3>. QED BY <1>8, <2>2, <2>3, <3>1, <3>2 DEF Tables!AddEntry
    <2>4. CASE o = "add policy"
        <3>1. entry' = entry /\ policy' = [policy EXCEPT ![x] = [family |-> f, child |-> c]]
            BY <1>1, <1>8, <2>4
        <3>2. x \in Policies /\ policy[x] = NoRow /\ f \in Families
            BY <1>3, <1>4, <1>6, <1>8, <2>4 DEF PolicyOps
        <3>3. c = NoChild \/ Tables!InFamily(c, f)
            BY <1>3, <1>4, <1>5, <1>6, <1>8 DEF Tables!InFamily
        <3>. QED BY <1>3, <1>8, <2>2, <2>4, <3>1, <3>2, <3>3 DEF Tables!AddPolicy
    <2>. QED BY <2>1, <2>3, <2>4 DEF CreateOps
<1>9. CASE W("delete")
    <2>1. ~W("child") /\ ~W("profile") /\ ~W("row") /\ o \in DeleteOps
        BY <1>2, <1>9 DEF CreateOps, DeleteOps
    <2>2. CASE o = "delete child"
        <3>1. /\ child' = [child EXCEPT ![c] = NoFamily] /\ profiles' = profiles \ {c}
              /\ entry' = entry /\ policy' = policy
            BY <1>1, <1>2, <1>9, <2>1, <2>2
        <3>2. c \in Children /\ IsChild(c) /\ ~Tables!Referenced(c)
            BY <1>3, <1>4, <1>9, <2>2, TargetOf, PresentOf DEF ChildOps
        <3>. QED BY <1>6, <1>9, <2>2, <3>1, <3>2 DEF Tables!DropChild
    <2>3. CASE o = "delete entry"
        <3>1. /\ child' = child /\ profiles' = profiles
              /\ entry' = [entry EXCEPT ![x] = NoChild] /\ policy' = policy
            BY <1>1, <1>2, <1>9, <2>1, <2>3
        <3>2. x \in Entries /\ entry[x] # NoChild
            BY <1>3, <1>4, <1>9, <2>3, TargetOf, PresentOf DEF EntryOps
        <3>. QED BY <1>9, <2>3, <3>1, <3>2 DEF Tables!DropEntry
    <2>4. CASE o = "delete policy"
        <3>1. /\ child' = child /\ profiles' = profiles
              /\ entry' = entry /\ policy' = [policy EXCEPT ![x] = NoRow]
            BY <1>1, <1>2, <1>9, <2>1, <2>4
        <3>2. x \in Policies /\ policy[x] # NoRow
            BY <1>3, <1>4, <1>9, <2>4, TargetOf, PresentOf DEF PolicyOps
        <3>. QED BY <1>9, <2>4, <3>1, <3>2 DEF Tables!DropPolicy
    <2>. QED BY <2>1, <2>2, <2>3, <2>4 DEF DeleteOps
<1>10. CASE ~W("child") /\ ~W("row") /\ ~W("delete")
    BY <1>1, <1>2, <1>10 DEF DB
<1>. QED BY <1>7, <1>8, <1>9, <1>10

\* The rows a request has locked, by kind.
LEMMA LockForm ==
    ASSUME RecordsInv, NEW q \in Requests, NEW y \in Changed(q) \cup Parents(q)
    PROVE  \/ \E c \in Children : y = <<"child", c>> /\ IsChild(c)
           \/ \E c \in Children : y = <<"profile", c>> /\ c \in profiles /\ y \in Changed(q)
           \/ \E e \in Entries : y = <<"entry", e>> /\ entry[e] # NoChild /\ y \in Changed(q)
           \/ \E p \in Policies : y = <<"policy", p>> /\ policy[p] # NoRow /\ y \in Changed(q)
<1>1. Present(y) /\ Names(q) /\ Shape(q)
    BY InvAt DEF Locked
<1>2. CASE y = <<"child", job[q].child>>
    BY <1>1, <1>2, PresentOf DEF IsChild
<1>3. CASE y = <<"profile", job[q].child>> /\ y \in Changed(q)
    <2>1. job[q].child \in profiles
        BY <1>1, <1>3, PresentOf
    <2>. QED BY <1>3, <2>1, InvAt DEF Tables!TablesTypeOK
<1>4. CASE y = Target(q) /\ y \in Changed(q)
    <2>1. job[q].op \in UpdateOps \cup DeleteOps
        BY <1>1, <1>4 DEF Changed, Shape, Wrote, DeleteOps
    <2>2. CASE job[q].op = "put profile"
        BY <1>3, <1>4, <2>2, TargetOf
    <2>3. CASE job[q].op \in EntryOps
        BY <1>1, <1>4, <2>3, TargetOf, PresentOf DEF Names
    <2>4. CASE job[q].op \in PolicyOps
        BY <1>1, <1>4, <2>4, TargetOf, PresentOf DEF Names
    <2>5. CASE job[q].op \in ChildOps \ {"put profile"}
        BY <1>2, <1>4, <2>5, TargetOf
    <2>. QED BY <2>1, <2>2, <2>3, <2>4, <2>5 DEF UpdateOps, DeleteOps, ChildOps, EntryOps, PolicyOps
<1>. QED BY <1>2, <1>3, <1>4 DEF Changed, Parents

\* The lock of q keeps a row if no COMMIT takes away what q has locked.
LEMMA StillPresent ==
    ASSUME RecordsInv, NEW q \in Requests,
           \A c \in Children : IsChild(c) /\ <<"child", c>> \in Changed(q) \cup Parents(q)
                               => IsChild(c)',
           \A c \in profiles : <<"profile", c>> \in Changed(q) => c \in profiles',
           \A e \in Entries : entry[e] # NoChild /\ <<"entry", e>> \in Changed(q)
                              => entry'[e] # NoChild,
           \A p \in Policies : policy[p] # NoRow /\ <<"policy", p>> \in Changed(q)
                               => policy'[p] # NoRow
    PROVE  \A y \in Changed(q) \cup Parents(q) : Present(y)'
<1>. TAKE y \in Changed(q) \cup Parents(q)
<1>1. CASE \E c \in Children : y = <<"child", c>> /\ IsChild(c)
    <2>1. PICK c \in Children : y = <<"child", c>> /\ IsChild(c)'
        BY <1>1
    <2>. QED BY <2>1 DEF Present
<1>2. CASE \E c \in Children : y = <<"profile", c>> /\ c \in profiles /\ y \in Changed(q)
    <2>1. PICK c \in Children : y = <<"profile", c>> /\ c \in profiles'
        BY <1>2
    <2>2. Present(y)' = (c \in profiles')
        BY <2>1 DEF Present
    <2>. QED BY <2>1, <2>2
<1>3. CASE \E e \in Entries : y = <<"entry", e>> /\ entry[e] # NoChild /\ y \in Changed(q)
    <2>1. PICK e \in Entries : y = <<"entry", e>> /\ entry'[e] # NoChild
        BY <1>3
    <2>2. Present(y)' = (entry'[e] # NoChild)
        BY <2>1 DEF Present
    <2>. QED BY <2>1, <2>2
<1>4. CASE \E p \in Policies : y = <<"policy", p>> /\ policy[p] # NoRow /\ y \in Changed(q)
    <2>1. PICK p \in Policies : y = <<"policy", p>> /\ policy'[p] # NoRow
        BY <1>4
    <2>2. Present(y)' = (policy'[p] # NoRow)
        BY <2>1 DEF Present
    <2>. QED BY <2>1, <2>2
<1>. QED BY <1>1, <1>2, <1>3, <1>4, LockForm

\* What a COMMIT of r changes under another request q: nothing q relies on.
LEMMA OtherCommit ==
    ASSUME RecordsInv, NEW r \in Requests, NEW q \in Requests \ {r}, Close(r), Same(q)
    PROVE  Found(q)' /\ Locked(q)'
<1>. DEFINE c == job[r].child
            x == job[r].row
            f == job[r].family
            d == job[q].child
            z == job[q].row
<1>1. Found(q) /\ Locked(q) /\ Shape(q) /\ Names(q) /\ Apart(q, r) /\ Apart(r, q)
    BY InvAt DEF RecordsInv
<1>2. /\ Changed(q)' = Changed(q) /\ Parents(q)' = Parents(q) /\ Target(q)' = Target(q)
      /\ Creating(q)' = Creating(q) /\ Adding(q)' = Adding(q)
      /\ Past(q)' = Past(q) /\ Sure(q)' = Sure(q)
      /\ \A w : Wrote(q, w)' = Wrote(q, w)
      /\ pc'[q] = pc[q] /\ job'[q].op = job[q].op /\ job'[q].child = d /\ job'[q].row = z
      /\ job'[q].family = job[q].family
    BY DEF Same, Changed, Parents, Target, Creating, Adding, Past, Sure, Wrote
<1>3. Tables!TablesTypeOK /\ Tables!TablesConsistent
    BY InvAt
<1>4. Wrote(r, "delete") => Target(r) \in Changed(r)
    BY DEF Changed
<1>5. CASE UNCHANGED DB
    <2>1. \A y : Present(y)' = Present(y)
        BY <1>5 DEF Present, IsChild, DB
    <2>2. \A e : IsChild(e)' = IsChild(e) /\ Tables!Referenced(e)' = Tables!Referenced(e)
        BY <1>5 DEF IsChild, Tables!Referenced, DB
    <2>3. Found(q)'
        BY <1>1, <1>2, <1>5, <2>2 DEF Found, DB
    <2>4. Locked(q)'
        BY <1>1, <1>2, <1>5, <2>1, <2>2 DEF Locked, DB
    <2>. QED BY <2>3, <2>4
<1>6. CASE Wrote(r, "child") /\ c \in Children /\ f \in Families /\ Tables!AddChild(c, f)
    <2>1. Creating(r)
        BY <1>6 DEF Creating
    <2>2. /\ d = c => Unmet(q, MetByNoCreation) /\ ~Creating(q)
          /\ entry' = entry /\ policy' = policy /\ profiles' = profiles \cup {c}
          /\ \A e \in Children : child'[e] = IF e = c THEN f ELSE child[e]
        BY <1>1, <1>3, <1>6, <2>1 DEF Apart, Tables!AddChild, Tables!TablesTypeOK
    <2>3. d = c => ~Past(q) /\ Changed(q) = {} /\ Parents(q) = {}
        BY <2>2 DEF Unmet, MetByNoCreation, Past, Sure, Changed, Parents, Wrote
    <2>4. \A e : e # c => (IsChild(e)' <=> IsChild(e))
        BY <2>2 DEF IsChild
    <2>5. \A y \in Changed(q) \cup Parents(q) : Present(y)'
        <3>1. \A e \in Children : IsChild(e) => IsChild(e)'
            BY <1>6, <2>2, RecordsOK DEF IsChild
        <3>. QED BY <2>2, <3>1, StillPresent
    <2>6. \A e : Tables!Referenced(e)' = Tables!Referenced(e)
        BY <2>2 DEF Tables!Referenced
    <2>7. Found(q)'
        <3>1. Past(q) /\ d # NoChild => child'[d] = child[d]
            BY <2>2, <2>3, InvAt DEF Job
        <3>2. pc[q] \in {"add row", "delete row"} => d # c
            BY <2>2 DEF Unmet, MetByNoCreation
        <3>. QED BY <1>1, <1>2, <2>2, <2>4, <3>1, <3>2 DEF Found
    <2>8. Locked(q)'
        BY <1>1, <1>2, <2>2, <2>4, <2>5, <2>6 DEF Locked
    <2>. QED BY <2>7, <2>8
<1>7. CASE Wrote(r, "delete") /\ job[r].op = "delete child" /\ c \in Children /\ Tables!DropChild(c)
    <2>1. /\ entry' = entry /\ policy' = policy /\ profiles' = profiles \ {c}
          /\ \A e \in Children : child'[e] = IF e = c THEN NoFamily ELSE child[e]
        BY <1>3, <1>7 DEF Tables!DropChild, Tables!TablesTypeOK
    <2>2. <<"child", c>> \notin Changed(q) \cup Parents(q) /\ <<"profile", c>> \notin Changed(q)
        <3>1. Target(r) = <<"child", c>> /\ Wrote(r, "delete profile")
            BY <1>7, TargetOf, InvAt DEF ChildOps, Shape, Wrote
        <3>2. <<"child", c>> \in Changed(r) /\ <<"profile", c>> \in Changed(r)
            BY <1>4, <1>7, <3>1 DEF Changed
        <3>. QED BY <1>1, <1>7, <3>1, <3>2 DEF Apart
    <2>3. \A e : IsChild(e)' => IsChild(e)
        BY <2>1 DEF IsChild
    <2>4. \A y \in Changed(q) \cup Parents(q) : Present(y)'
        <3>1. \A e \in Children : e # c /\ IsChild(e) => IsChild(e)'
            BY <2>1 DEF IsChild
        <3>. QED BY <2>1, <2>2, <3>1, StillPresent
    <2>5. \A e : Tables!Referenced(e)' = Tables!Referenced(e)
        BY <2>1 DEF Tables!Referenced
    <2>6. Found(q)'
        <3>1. Past(q) /\ d # NoChild => child'[d] \in {child[d], NoFamily}
            BY <2>1, InvAt DEF Job
        <3>. QED BY <1>1, <1>2, <2>1, <2>3, <3>1 DEF Found
    <2>7. Locked(q)'
        BY <1>1, <1>2, <2>1, <2>3, <2>4, <2>5 DEF Locked
    <2>. QED BY <2>6, <2>7
<1>8. CASE /\ Wrote(r, "row") /\ job[r].op = "add entry" /\ x \in Entries /\ c \in Children
           /\ Tables!AddEntry(x, c)
    <2>1. /\ child' = child /\ policy' = policy /\ profiles' = profiles /\ entry[x] = NoChild
          /\ \A e \in Entries : entry'[e] = IF e = x THEN c ELSE entry[e]
        BY <1>3, <1>8 DEF Tables!AddEntry, Tables!TablesTypeOK
    <2>2. Adding(r) /\ Target(r) = <<"entry", x>>
        BY <1>8, TargetOf DEF Adding, EntryOps
    <2>3. job[q].op \in EntryOps /\ z = x => ~Sure(q) /\ ~Adding(q)
        <3>. SUFFICES ASSUME job[q].op \in EntryOps, z = x PROVE ~Sure(q) /\ ~Adding(q)
            OBVIOUS
        <3>1. Target(q) = Target(r)
            BY <2>2, TargetOf
        <3>. QED BY <1>1, <2>2, <3>1 DEF Apart, Unmet, MetByNoInsertion, Sure
    <2>4. \A e : IsChild(e)' = IsChild(e)
        BY <2>1 DEF IsChild
    <2>5. \A y \in Changed(q) \cup Parents(q) : Present(y)'
        BY <2>1, <2>4, StillPresent
    <2>6. Wrote(q, "delete") /\ job[q].op = "delete child" => d # c
        <3>1. <<"child", c>> \in Parents(r)
            BY <1>8, RecordsOK DEF Parents
        <3>. QED BY <1>1, <3>1, TargetOf DEF Apart, ChildOps
    <2>7. \A e : e # c /\ ~Tables!Referenced(e) => ~Tables!Referenced(e)'
        BY <2>1 DEF Tables!Referenced
    <2>8. Found(q)'
        <3>1. Sure(q) /\ job[q].op \in EntryOps => entry'[z] = entry[z]
            BY <1>1, <2>1, <2>3 DEF Names
        <3>. QED BY <1>1, <1>2, <2>1, <2>4, <3>1 DEF Found
    <2>9. Locked(q)'
        <3>1. Adding(q) /\ job[q].op \in EntryOps => entry'[z] = entry[z]
            BY <1>1, <2>1, <2>3 DEF Names
        <3>. QED BY <1>1, <1>2, <2>1, <2>4, <2>5, <2>6, <2>7, <3>1 DEF Locked
    <2>. QED BY <2>8, <2>9
<1>9. CASE /\ Wrote(r, "delete") /\ job[r].op = "delete entry" /\ x \in Entries
           /\ Tables!DropEntry(x)
    <2>1. /\ child' = child /\ policy' = policy /\ profiles' = profiles
          /\ \A e \in Entries : entry'[e] = IF e = x THEN NoChild ELSE entry[e]
        BY <1>3, <1>9 DEF Tables!DropEntry, Tables!TablesTypeOK
    <2>2. <<"entry", x>> \notin Changed(q)
        BY <1>1, <1>4, <1>9, TargetOf DEF Apart, EntryOps
    <2>3. \A e : IsChild(e)' = IsChild(e)
        BY <2>1 DEF IsChild
    <2>4. \A y \in Changed(q) \cup Parents(q) : Present(y)'
        BY <2>1, <2>2, <2>3, StillPresent
    <2>5. \A e \in Children : ~Tables!Referenced(e) => ~Tables!Referenced(e)'
        BY <2>1, RecordsOK DEF Tables!Referenced
    <2>6. job[q].op \in EntryOps => entry'[z] \in {entry[z], NoChild}
        BY <1>1, <2>1 DEF Names
    <2>7. Found(q)'
        BY <1>1, <1>2, <2>1, <2>3, <2>6 DEF Found
    <2>8. Locked(q)'
        <3>1. job[q].op = "delete child" => d \in Children
            BY <1>1 DEF Names, ChildOps
        <3>. QED BY <1>1, <1>2, <2>1, <2>3, <2>4, <2>5, <2>6, <3>1 DEF Locked
    <2>. QED BY <2>7, <2>8
<1>10. CASE /\ Wrote(r, "row") /\ job[r].op = "add policy" /\ x \in Policies
            /\ c \in Children \cup {NoChild} /\ f \in Families /\ Tables!AddPolicy(x, f, c)
    <2>1. /\ child' = child /\ entry' = entry /\ profiles' = profiles /\ policy[x] = NoRow
          /\ policy'[x] = [family |-> f, child |-> c] /\ policy'[x] # NoRow
          /\ \A p \in Policies : p # x => policy'[p] = policy[p]
        <3>1. /\ child' = child /\ entry' = entry /\ profiles' = profiles /\ policy[x] = NoRow
              /\ policy' = [policy EXCEPT ![x] = [family |-> f, child |-> c]]
            BY <1>10 DEF Tables!AddPolicy
        <3>2. policy \in [Policies -> Tables!PolicyRow \cup {NoRow}]
            BY <1>3 DEF Tables!TablesTypeOK
        <3>3. policy'[x] = [family |-> f, child |-> c]
            BY <1>10, <3>1, <3>2
        <3>4. [family |-> f, child |-> c] \in Tables!PolicyRow
            BY <1>10 DEF Tables!PolicyRow
        <3>5. policy'[x] # NoRow
            BY <3>3, <3>4, RecordsOK
        <3>6. \A p \in Policies : p # x => policy'[p] = policy[p]
            BY <3>1, <3>2
        <3>. QED BY <3>1, <3>3, <3>5, <3>6
    <2>2. Adding(r) /\ Target(r) = <<"policy", x>>
        BY <1>10, TargetOf DEF Adding, PolicyOps
    <2>3. job[q].op \in PolicyOps /\ z = x => ~Sure(q) /\ ~Adding(q)
        <3>. SUFFICES ASSUME job[q].op \in PolicyOps, z = x PROVE ~Sure(q) /\ ~Adding(q)
            OBVIOUS
        <3>1. Target(q) = Target(r)
            BY <2>2, TargetOf
        <3>. QED BY <1>1, <2>2, <3>1 DEF Apart, Unmet, MetByNoInsertion, Sure
    <2>4. \A e : IsChild(e)' = IsChild(e)
        BY <2>1 DEF IsChild
    <2>5. \A y \in Changed(q) \cup Parents(q) : Present(y)'
        BY <2>1, <2>4, StillPresent
    <2>6. Wrote(q, "delete") /\ job[q].op = "delete child" => d # c
        <3>1. c # NoChild => <<"child", c>> \in Parents(r)
            BY <1>10 DEF Parents
        <3>2. job[q].op = "delete child" => d \in Children /\ Target(q) = <<"child", d>>
            BY <1>1, TargetOf DEF Names, ChildOps
        <3>. QED BY <1>1, <3>1, <3>2, RecordsOK DEF Apart
    <2>7. \A e : e # c /\ ~Tables!Referenced(e) => ~Tables!Referenced(e)'
        <3>1. policy'[x].child = c
            BY <2>1
        <3>. QED BY <2>1, <3>1 DEF Tables!Referenced
    <2>8. Found(q)'
        <3>1. Sure(q) /\ job[q].op \in PolicyOps => policy'[z] = policy[z]
            BY <1>1, <2>1, <2>3 DEF Names
        <3>. QED BY <1>1, <1>2, <2>1, <2>4, <3>1 DEF Found
    <2>9. Locked(q)'
        <3>1. Adding(q) /\ job[q].op \in PolicyOps => policy'[z] = policy[z]
            BY <1>1, <2>1, <2>3 DEF Names
        <3>. QED BY <1>1, <1>2, <2>1, <2>4, <2>5, <2>6, <2>7, <3>1 DEF Locked
    <2>. QED BY <2>8, <2>9
<1>11. CASE /\ Wrote(r, "delete") /\ job[r].op = "delete policy" /\ x \in Policies
            /\ Tables!DropPolicy(x)
    <2>1. /\ child' = child /\ entry' = entry /\ profiles' = profiles
          /\ \A p \in Policies : policy'[p] = IF p = x THEN NoRow ELSE policy[p]
        BY <1>3, <1>11 DEF Tables!DropPolicy, Tables!TablesTypeOK
    <2>2. <<"policy", x>> \notin Changed(q)
        BY <1>1, <1>4, <1>11, TargetOf DEF Apart, PolicyOps
    <2>3. \A e : IsChild(e)' = IsChild(e)
        BY <2>1 DEF IsChild
    <2>4. \A y \in Changed(q) \cup Parents(q) : Present(y)'
        BY <2>1, <2>2, <2>3, StillPresent
    <2>5. \A e : ~Tables!Referenced(e) => ~Tables!Referenced(e)'
        BY <2>1 DEF Tables!Referenced
    <2>6. job[q].op \in PolicyOps => policy'[z] \in {policy[z], NoRow}
        BY <1>1, <2>1 DEF Names
    <2>7. Found(q)'
        BY <1>1, <1>2, <2>1, <2>3, <2>6 DEF Found
    <2>8. Locked(q)'
        BY <1>1, <1>2, <2>1, <2>3, <2>4, <2>5, <2>6 DEF Locked
    <2>. QED BY <2>7, <2>8
<1>. QED BY <1>5, <1>6, <1>7, <1>8, <1>9, <1>10, <1>11, CloseShape

\* The COMMIT preserves the invariant: FamilyTables answers for the tables,
\* Apart and Locked for the other requests.
LEMMA CloseStep ==
    ASSUME RecordsInv, NEW r \in Requests, Close(r)
    PROVE  RecordsInv'
<1>1. Busy(r) /\ job' = [job EXCEPT ![r] = IdleJob] /\ pc' = [pc EXCEPT ![r] = "idle"]
    BY DEF Close, Goto, Busy
<1>2. pc \in [Requests -> PCs] /\ job \in [Requests -> Job]
    BY InvAt DEF TypeOK
<1>3. pc'[r] = "idle" /\ job'[r] = IdleJob
    BY <1>1, <1>2
<1>4. ASSUME NEW q \in Requests \ {r}
      PROVE  Same(q) /\ ~job[q].alone /\ job'[q] = job[q]
    BY <1>1, <1>2, NotAlone DEF Same
<1>5. Tables!TablesTypeOK' /\ Tables!TablesConsistent'
    <2>1. [Tables!TablesNext]_(Tables!tables)
        BY CloseShape DEF DB, Tables!tables, Tables!TablesNext
    <2>. QED BY <2>1, InvAt, TablesStepHere
<1>6. TypeOK'
    BY <1>1, <1>2, <1>5, IdleType DEF TypeOK, PCs
<1>7. ASSUME NEW q \in Requests
      PROVE  Own(q)'
    <2>1. CASE q = r
        BY <1>3, <2>1, IdleRequest
    <2>2. CASE q # r
        <3>1. Same(q) /\ job'[q] = job[q] /\ ~job'[q].alone
            BY <1>4, <2>2
        <3>2. Found(q)' /\ Locked(q)'
            BY <2>2, <3>1, OtherCommit
        <3>3. Shape(q)' /\ Names(q)' /\ Alone(q)'
            BY <3>1, InvAt DEF Same, Shape, Names, Alone, Wrote
        <3>. QED BY <3>1, <3>2, <3>3, InvAt DEF Own, Same
    <2>. QED BY <2>1, <2>2
<1>8. ASSUME NEW p \in Requests, NEW q \in Requests, p # q
      PROVE  Apart(p, q)'
    <2>1. CASE p = r \/ q = r
        BY <1>3, <2>1, IdleRequest
    <2>2. CASE p # r /\ q # r
        BY <1>4, <1>8, <2>2, SameApart DEF RecordsInv
    <2>. QED BY <2>1, <2>2
<1>. QED BY <1>5, <1>6, <1>7, <1>8 DEF RecordsInv

-----------------------------------------------------------------------------
(* The invariant, and what follows from it.                                *)

\* The invariant holds of empty tables and idle requests.
LEMMA RecordsInit == Init => RecordsInv
<1>. SUFFICES ASSUME Init PROVE RecordsInv
    OBVIOUS
<1>1. Tables!TablesTypeOK /\ Tables!TablesConsistent
    BY RecordsOK DEF Init, Tables!TablesInit, Tables!TablesTypeOK, Tables!TablesConsistent,
                     Tables!IsChild
<1>2. TypeOK
    BY <1>1, IdleType DEF Init, TypeOK, PCs
<1>3. ASSUME NEW r \in Requests
      PROVE  /\ pc[r] = "idle" /\ job[r].op = "none" /\ job[r].wrote = {}
             /\ ~job[r].alone /\ job[r].status = "ok"
    BY DEF Init, IdleJob
<1>4. ASSUME NEW r \in Requests
      PROVE  Changed(r) = {} /\ Parents(r) = {} /\ ~Creating(r) /\ ~Adding(r)
    BY <1>3 DEF Changed, Parents, Creating, Adding, Wrote
<1>5. ASSUME NEW r \in Requests
      PROVE  Own(r)
    BY <1>3, <1>4 DEF Own, Shape, Names, Found, Past, Sure, Locked, Alone, Wrote,
                      ChildOps, EntryOps, PolicyOps
<1>6. ASSUME NEW q \in Requests, NEW r \in Requests
      PROVE  Apart(q, r)
    BY <1>3, <1>4 DEF Apart, Wrote
<1>. QED BY <1>1, <1>2, <1>5, <1>6 DEF RecordsInv

\* Every step preserves the invariant.
LEMMA RecordsNext == RecordsInv /\ [Next]_vars => RecordsInv'
<1>. SUFFICES ASSUME RecordsInv, [Next]_vars PROVE RecordsInv'
    OBVIOUS
<1>1. CASE UNCHANGED vars
    <2>. USE <1>1 DEF vars
    <2>1. Tables!TablesConsistent' = Tables!TablesConsistent /\ TypeOK' = TypeOK
        BY DEF Tables!TablesConsistent, Tables!IsChild, Tables!InFamily, TypeOK,
               Tables!TablesTypeOK
    <2>2. ASSUME NEW r \in Requests
          PROVE  /\ Target(r)' = Target(r) /\ Changed(r)' = Changed(r) /\ Parents(r)' = Parents(r)
                 /\ Creating(r)' = Creating(r) /\ Adding(r)' = Adding(r)
        BY DEF Changed, Parents, Target, Creating, Adding, Wrote
    <2>3. /\ \A y : Present(y)' = Present(y)
          /\ \A e : IsChild(e)' = IsChild(e) /\ Tables!Referenced(e)' = Tables!Referenced(e)
        BY DEF Present, IsChild, Tables!Referenced
    <2>4. ASSUME NEW r \in Requests
          PROVE  Own(r)'
        <3>1. Shape(r)' /\ Names(r)'
            BY InvAt DEF Shape, Names, Wrote
        <3>2. Found(r)'
            BY <2>3, InvAt DEF Found, Past, Sure, Wrote
        <3>3. Locked(r)'
            BY <2>2, <2>3, InvAt DEF Locked, Wrote
        <3>4. Alone(r)'
            BY <2>2, <2>3, InvAt DEF Alone, Busy
        <3>. QED BY <3>1, <3>2, <3>3, <3>4, InvAt DEF Own
    <2>5. ASSUME NEW q \in Requests, NEW r \in Requests, q # r
          PROVE  Apart(q, r)'
        BY <2>2, <2>5 DEF RecordsInv, Apart, Unmet, Wrote
    <2>. QED BY <2>1, <2>4, <2>5 DEF RecordsInv
<1>2. ASSUME NEW r \in Requests, External(r) \/ Internal(r) \/ Handle(r) \/ Fail(r)
      PROVE  RecordsInv'
    BY <1>2, ArriveStep, FailStep, FindChildStep, FindProfileStep, FindEntryStep,
       FindPolicyStep, AddChildStep, AddRowStep, UpdateStep, GetRowStep, DeleteProfileStep,
       DeleteRowStep, ReplyStep, CloseStep DEF Handle
<1>. QED BY <1>1, <1>2 DEF Next

\* Whatever the requests do and however many there are, RecordsInv holds.
THEOREM RecordsInvariant == Spec => []RecordsInv
<1>. QED BY RecordsInit, RecordsNext, PTL DEF Spec

\* The tables, the handlers and their transactions are what they are declared
\* to be.
THEOREM RecordsTypeOK == Spec => []TypeOK
<1>1. RecordsInv => TypeOK
    BY DEF RecordsInv
<1>. QED BY <1>1, RecordsInvariant, PTL

\* Every committed state is consistent: a child has its one profile, no
\* history entry or policy refers to a child that is not there, and a policy
\* refers to a child of its own family.
THEOREM RecordsConsistent == Spec => []Tables!TablesConsistent
<1>1. RecordsInv => Tables!TablesConsistent
    BY DEF RecordsInv
<1>. QED BY <1>1, RecordsInvariant, PTL

\* Nobody's open transaction has written, or referred to, a row of another
\* family than its caller's.
THEOREM RecordsStayInFamily == Spec => []NeverCrossesFamilies
<1>1. RecordsInv => NeverCrossesFamilies
    <2>. SUFFICES ASSUME RecordsInv, NEW r \in Requests, NEW y \in Changed(r) \cup Parents(r)
                  PROVE  Present(y) /\ FamilyOf(y) = job[r].family
        BY DEF NeverCrossesFamilies
    <2>. DEFINE c == job[r].child
                x == job[r].row
    <2>1. Present(y)
        BY InvAt DEF Locked
    <2>2. Past(r)
        BY DEF Past, Sure, Changed, Parents, Wrote
    <2>3. IsChild(c) => child[c] = job[r].family
        BY <2>2, InvAt, RecordsOK DEF Found, IsChild
    <2>4. \/ y = <<"child", c>> \/ y = <<"profile", c>>
          \/ job[r].op \in EntryOps /\ Sure(r) /\ y = <<"entry", x>>
          \/ job[r].op \in PolicyOps /\ Sure(r) /\ y = <<"policy", x>>
        BY DEF Changed, Parents, Target, Sure, Wrote
    <2>5. CASE y = <<"child", c>> \/ y = <<"profile", c>>
        <3>1. IsChild(c)
            BY <2>1, <2>5, PresentOf, InvAt DEF Tables!TablesConsistent, Tables!IsChild, IsChild
        <3>. QED BY <2>1, <2>3, <2>5, <3>1 DEF FamilyOf
    <2>6. CASE job[r].op \in EntryOps /\ Sure(r) /\ y = <<"entry", x>>
        <3>1. entry[x] = c /\ entry[x] # NoChild /\ x \in Entries
            BY <2>1, <2>6, PresentOf, InvAt DEF Found, Names
        <3>2. IsChild(c)
            BY <3>1, InvAt DEF Tables!TablesConsistent, Tables!IsChild, IsChild
        <3>. QED BY <2>1, <2>3, <2>6, <3>1, <3>2 DEF FamilyOf
    <2>7. CASE job[r].op \in PolicyOps /\ Sure(r) /\ y = <<"policy", x>>
        <3>1. policy[x] # NoRow /\ policy[x].family = job[r].family
            BY <2>1, <2>7, PresentOf, InvAt DEF Found
        <3>. QED BY <2>1, <2>7, <3>1 DEF FamilyOf
    <2>. QED BY <2>4, <2>5, <2>6, <2>7
<1>. QED BY <1>1, RecordsInvariant, PTL

\* A request that nobody disturbed is answered with a 500 only for one of the
\* two causes the code leaves to the database.
THEOREM RecordsErrorsExplained == Spec => []ErrorsExplained
<1>1. RecordsInv => ErrorsExplained
    BY InvAt DEF ErrorsExplained, Alone
<1>. QED BY <1>1, RecordsInvariant, PTL

\* Who is waited for has written something, and who waits for one that waits
\* has written nothing: there is no chain of three waits, and so no circle.
THEOREM RecordsNoDeadlock == Spec => []NoDeadlock
<1>1. RecordsInv => NoDeadlock
    <2>. SUFFICES ASSUME RecordsInv PROVE NoDeadlock
        OBVIOUS
    <2>1. ASSUME NEW r \in Requests, NEW q \in Requests, WaitsOn(r, q)
          PROVE  Busy(q) /\ job[q].wrote # {}
        <3>1. job[q].wrote # {}
            BY <2>1 DEF WaitsOn, Changed, Parents, Wrote
        <3>. QED BY <3>1, InvAt DEF Busy, Shape
    <2>2. ASSUME NEW r \in Requests, NEW q \in Requests, NEW p \in Requests,
                 WaitsOn(r, q), WaitsOn(q, p)
          PROVE  job[r].wrote = {}
        <3>1. job[q].wrote # {} /\ pc[q] \in {"update", "delete row", "delete profile", "add row"}
            BY <2>1, <2>2 DEF WaitsOn
        <3>2. pc[q] = "delete row" /\ ~Wrote(q, "update") /\ ~Wrote(q, "delete") /\ ~Wrote(q, "row")
            BY <3>1, InvAt DEF Shape, Wrote, UpdateOps, DeleteOps, CreateOps
        <3>3. Parents(q) = {} /\ Changed(q) \subseteq {<<"profile", job[q].child>>}
            BY <3>2 DEF Parents, Changed
        <3>4. pc[r] = "delete row" \/ pc[r] = "update" => Target(r) = <<"profile", job[q].child>>
            BY <2>2, <3>3 DEF WaitsOn
        <3>5. pc[r] # "add row"
            BY <2>2, <3>2 DEF WaitsOn
        <3>6. pc[r] = "delete row" => job[r].op \in DeleteOps
            BY InvAt DEF Shape
        <3>7. pc[r] = "delete row" => Target(r) # <<"profile", job[q].child>>
            BY <3>6 DEF Target, DeleteOps, EntryOps, PolicyOps
        <3>8. pc[r] \in {"update", "delete profile"}
            BY <2>2, <3>4, <3>5, <3>7 DEF WaitsOn
        <3>. QED BY <3>8, InvAt DEF Shape
    <2>3. ASSUME NEW S \in (SUBSET Requests) \ {{}}, \A r \in S : \E q \in S : WaitsOn(r, q)
          PROVE  FALSE
        <3>1. PICK r \in S : TRUE
            BY <2>3
        <3>2. PICK q \in S : WaitsOn(r, q)
            BY <2>3, <3>1
        <3>3. PICK p \in S : WaitsOn(q, p)
            BY <2>3
        <3>4. PICK s \in S : WaitsOn(p, s)
            BY <2>3
        <3>5. job[q].wrote # {} /\ job[q].wrote = {}
            BY <2>1, <2>2, <3>2, <3>3, <3>4
        <3>. QED BY <3>5
    <2>. QED BY <2>1, <2>3 DEF NoDeadlock
<1>. QED BY <1>1, RecordsInvariant, PTL

\* Every step of the requests is, for the tables, one operation of
\* FamilyTables or nothing at all.
LEMMA TablesAbove == RecordsInv /\ [Next]_vars => [Tables!TablesNext]_(Tables!tables)
<1>. SUFFICES ASSUME RecordsInv, [Next]_vars PROVE [Tables!TablesNext]_(Tables!tables)
    OBVIOUS
<1>1. UNCHANGED vars => UNCHANGED Tables!tables
    BY DEF vars, Tables!tables
<1>2. ASSUME NEW r \in Requests, Close(r)
      PROVE  [Tables!TablesNext]_(Tables!tables)
    BY <1>2, CloseShape DEF DB, Tables!tables, Tables!TablesNext
<1>3. ASSUME NEW r \in Requests,
             External(r) \/ Internal(r) \/ Fail(r) \/ (Handle(r) /\ ~Close(r))
      PROVE  UNCHANGED Tables!tables
    <2>1. CASE External(r) \/ Internal(r)
        <3>1. PICK o, f, c, x, l : Arrives(r, o, f, c, x, l)
            BY <2>1, ArrivalShape
        <3>. QED BY <3>1 DEF Arrives, Start, DB, Tables!tables
    <2>2. CASE Fail(r)
        BY <2>2 DEF Fail, Rollback, DB, Tables!tables
    <2>3. CASE FindChild(r) \/ FindProfile(r) \/ FindEntry(r) \/ FindPolicy(r) \/ Reply(r)
        BY <2>3 DEF FindChild, FindProfile, FindEntry, FindPolicy, Reply, Step, NotFound,
                    DB, Tables!tables
    <2>4. CASE AddChild(r) \/ AddProfile(r) \/ AddRow(r) \/ Update(r)
        BY <2>4 DEF AddChild, AddProfile, AddRow, Update, Step, Write, Abort, DB, Tables!tables
    <2>5. CASE GetRow(r) \/ DeleteProfile(r) \/ DeleteRow(r)
        <3>1. Step(r, "reply") \/ Abort(r) \/ Write(r, "delete", "reply")
              \/ Step(r, "delete row") \/ Step(r, "delete profile")
              \/ Write(r, "delete profile", "delete row")
            BY <2>5 DEF GetRow, DeleteProfile, DeleteRow
        <3>. QED BY <3>1 DEF Step, Write, Abort, DB, Tables!tables
    <2>. QED BY <1>3, <2>1, <2>2, <2>3, <2>4, <2>5 DEF Handle
<1>. QED BY <1>1, <1>2, <1>3 DEF Next

\* The handlers, statement by statement and however they interleave, implement
\* the tables of FamilyTables.
THEOREM RecordsImplementTables == Spec => ImplementsTables
<1>1. Init => Tables!TablesInit
    BY DEF Init
<1>. QED BY <1>1, RecordsInvariant, TablesAbove, PTL DEF Spec, ImplementsTables, Tables!TablesSpec
=============================================================================

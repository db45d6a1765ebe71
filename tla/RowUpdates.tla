---------------------------- MODULE RowUpdates ----------------------------
(***************************************************************************)
(* How PATCH and PUT change the columns of one row, at the grain of the    *)
(* SQL statements the session of SQLAlchemy makes of them.                 *)
(*                                                                         *)
(*   services/_util.py    apply_changes                                    *)
(*   services/family.py   update                                           *)
(*   services/member.py   update, upsert_profile                           *)
(*   services/child.py    update, upsert_reading_profile,                  *)
(*                        update_reading_history                           *)
(*   services/policy.py   update                                           *)
(*   schemas.py           the bodies, of which only the fields the client  *)
(*                        has set count                                    *)
(*                                                                         *)
(* All of these run one code: find the row, set the attributes the client  *)
(* sent, let the session write the columns whose value differs from the    *)
(* one it has read, read the row back.  The 1:1 rows are upserted: a PUT   *)
(* inserts the row if it finds none.  The deletion of the row is left to   *)
(* Membership and ChildRecords.                                            *)
(***************************************************************************)
CONSTANTS
    Requests,    \* slots for concurrently served requests
    Fields,      \* columns a body can set
    Required,    \* those declared NOT NULL; each has a server default
    Values,      \* values of a column
    Default,     \* the server default
    Null,        \* NULL, null in a body
    NoRow

VARIABLES
    row,         \* the committed row
    pc,          \* where the handler of each request is
    job          \* the request's local state and uncommitted writes

vars == <<row, pc, job>>

Image == [Fields -> Values \cup {Null}]

\* A stored row, and what it is as long as a 1:1 row has not been inserted.
Stored == {i \in Image : \A f \in Required : i[f] # Null}
RowOrNone == Stored \cup {NoRow}

\* model_dump(exclude_unset=True): a field of the body is set, to a value or
\* to null, or is not there.
Changes == UNION {[D -> Values \cup {Null}] : D \in SUBSET Fields}
Nothing == [f \in {} |-> Null]

\* put    PUT, else PATCH
\* asked  the changes in the body
\* seen   the attributes of the row in the session, as the SELECT that
\*        loaded it found them
\* sets   the columns it has written, not yet committed: all of them if it
\*        has inserted the row
\* answer the row as read back for the response
\* unmet  history: fields asked for whose value no committed row has had
\*        since the request looked
\* alone  history: no other request has been served at the same time
Job == [put : BOOLEAN, asked : Changes, seen : RowOrNone, sets : Changes,
        answer : RowOrNone, status : {"ok", "not found", "error"},
        unmet : SUBSET Fields, alone : BOOLEAN]

PCs == {"idle", "load", "look", "write", "insert", "refresh", "reply", "close"}

ASSUME UpdatesOK ==
    /\ Requests # {} /\ Fields # {} /\ Required \subseteq Fields
    /\ Default \in Values /\ Null \notin Values /\ NoRow \notin Image

TypeOK ==
    /\ row \in RowOrNone
    /\ pc \in [Requests -> PCs]
    /\ job \in [Requests -> Job]

-----------------------------------------------------------------------------
Overlay(i, ch) == [f \in Fields |-> IF f \in DOMAIN ch THEN ch[f] ELSE i[f]]

\* The columns whose attribute apply_changes has given another value.
Dirty(r) == {f \in DOMAIN job[r].asked : job[r].asked[f] # job[r].seen[f]}

\* Mutant of NewRow: a null of the body is inserted like a value.
NewRowWithNulls(r) ==
    [f \in Fields |-> IF f \in DOMAIN job[r].asked THEN job[r].asked[f]
                      ELSE IF f \in Required THEN Default ELSE Null]

\* A new row.  The session leaves a None out of an INSERT, so a column the
\* client has set to null or not at all gets its default.
NewRow(r) ==
    [f \in Fields |->
        IF f \in DOMAIN job[r].asked /\ job[r].asked[f] # Null THEN job[r].asked[f]
        ELSE IF f \in Required THEN Default ELSE Null]

\* Another open transaction has updated the row or inserted its unique key.
Blocked(r) == \E q \in Requests \ {r} : job[q].sets # Nothing

\* What a SELECT of r returns, and what the COMMIT of r makes of the row.
Visible(r) ==
    IF DOMAIN job[r].sets = Fields THEN job[r].sets
    ELSE IF row = NoRow THEN NoRow ELSE Overlay(row, job[r].sets)

Met(r, i) == {f \in DOMAIN job[r].asked : i # NoRow /\ i[f] = job[r].asked[f]}

Busy(q) == pc[q] # "idle"

-----------------------------------------------------------------------------
IdleJob == [put |-> FALSE, asked |-> Nothing, seen |-> NoRow, sets |-> Nothing,
            answer |-> NoRow, status |-> "ok", unmet |-> {}, alone |-> FALSE]

Init ==
    /\ row \in RowOrNone
    /\ pc = [r \in Requests |-> "idle"]
    /\ job = [r \in Requests |-> IdleJob]

Goto(r, l) == pc' = [pc EXCEPT ![r] = l]

\* A statement of r that leaves the committed row alone.
Step(r, j, l) ==
    /\ job' = [job EXCEPT ![r] = j]
    /\ Goto(r, l)
    /\ UNCHANGED row

\* An IntegrityError or StaleDataError nobody catches: rollback and 500.
Abort(r) == Step(r, [job[r] EXCEPT !.sets = Nothing, !.status = "error"], "close")

-----------------------------------------------------------------------------
Start(r, p, l) ==
    /\ pc[r] = "idle"
    /\ \E ch \in Changes :
         job' = [q \in Requests |->
                   IF q = r
                   THEN [IdleJob EXCEPT !.put = p, !.asked = ch, !.unmet = DOMAIN ch,
                                        !.alone = \A o \in Requests : ~Busy(o)]
                   ELSE [job[q] EXCEPT !.alone = FALSE]]
    /\ Goto(r, l)
    /\ UNCHANGED row

\* PATCH of a family, member, child, history entry or policy.
Patch(r) == Start(r, FALSE, "look")

\* PUT of the profile of a member or the reading profile of a child.
Put(r) == Start(r, TRUE, "load")

\* A SELECT that brings the row into the session, unless it is there
\* already: then the attributes stay what they were.
Found(r) ==
    [job[r] EXCEPT !.seen = IF @ = NoRow THEN row ELSE @, !.unmet = @ \ Met(r, row)]

\* get_in_family of the owner of a 1:1 row loads the row with it (selectin).
Load(r) == pc[r] = "load" /\ Step(r, Found(r), "look")

\* Mutant of Look: PUT inserts without looking for the row.
LookInserts(r) ==
    /\ pc[r] = "look"
    /\ IF job[r].put THEN Step(r, job[r], "insert")
       ELSE IF row # NoRow THEN Step(r, Found(r), "write")
       ELSE Step(r, [job[r] EXCEPT !.status = "not found"], "reply")

\* get_in_family, get_for_child; get_by_member, get_by_child
Look(r) ==
    /\ pc[r] = "look"
    /\ IF row # NoRow THEN Step(r, Found(r), "write")
       ELSE IF job[r].put THEN Step(r, job[r], "insert")
       ELSE Step(r, [job[r] EXCEPT !.status = "not found"], "reply")

\* Mutant of Write: an explicit null counts as a field that is not set.
WriteNoNulls(r) ==
    LET d == {f \in Dirty(r) : job[r].asked[f] # Null}
    IN  /\ pc[r] = "write"
        /\ d = {} \/ ~Blocked(r)
        /\ Step(r, [job[r] EXCEPT !.sets = [f \in d |-> job[r].asked[f]]], "refresh")

\* Mutant of Write: the UPDATE writes every column of the row it has read.
WriteAllColumns(r) ==
    /\ pc[r] = "write"
    /\ ~Blocked(r)
    /\ IF \E f \in Dirty(r) \cap Required : job[r].asked[f] = Null THEN Abort(r)
       ELSE Step(r, [job[r] EXCEPT !.sets = Overlay(job[r].seen, job[r].asked)], "refresh")

\* UPDATE ... SET the dirty columns WHERE id = ..., having waited for the row
\* lock; no statement at all if no column is dirty.
Write(r) ==
    /\ pc[r] = "write"
    /\ Dirty(r) = {} \/ ~Blocked(r)
    /\ IF \E f \in Dirty(r) \cap Required : job[r].asked[f] = Null THEN Abort(r)
       ELSE Step(r, [job[r] EXCEPT !.sets = [f \in Dirty(r) |-> job[r].asked[f]]], "refresh")

\* INSERT of a 1:1 row, whose owner's id is unique.
Insert(r) ==
    /\ pc[r] = "insert"
    /\ ~Blocked(r)
    /\ IF row # NoRow THEN Abort(r)
       ELSE Step(r, [job[r] EXCEPT !.sets = NewRow(r)], "refresh")

\* Mutant of Refresh: the response is made of the attributes in the session.
RefreshFromSession(r) ==
    /\ pc[r] = "refresh"
    /\ Step(r, [job[r] EXCEPT !.answer =
                  IF job[r].seen = NoRow THEN job[r].sets
                  ELSE Overlay(job[r].seen, job[r].asked)], "reply")

\* The repository reads the row back before dump() makes the response of it.
Refresh(r) ==
    pc[r] = "refresh" /\ Step(r, [job[r] EXCEPT !.answer = Visible(r)], "reply")

\* The answer leaves before the transaction ends.
Reply(r) == pc[r] = "reply" /\ Step(r, job[r], "close")

Close(r) ==
    /\ pc[r] = "close"
    /\ row' = Visible(r)
    /\ job' = [q \in Requests |->
                 IF q = r THEN IdleJob ELSE [job[q] EXCEPT !.unmet = @ \ Met(q, Visible(r))]]
    /\ Goto(r, "idle")

\* The connection fails in a statement or in the COMMIT, or the process dies.
Fail(r) == Busy(r) /\ Step(r, IdleJob, "idle")

Handle(r) ==
    \/ Load(r) \/ Look(r) \/ Write(r) \/ Insert(r) \/ Refresh(r) \/ Reply(r) \/ Close(r)

Next == \E r \in Requests : Patch(r) \/ Put(r) \/ Handle(r) \/ Fail(r)

Spec == Init /\ [][Next]_vars

-----------------------------------------------------------------------------
(* Properties.                                                             *)

\* A request never undoes what another has done to a column its own body
\* does not set, though it writes from a copy of the row that may be stale.
OnlyAskedFieldsChange ==
    [][\A r \in Requests :
          Close(r) /\ row # NoRow =>
          \A f \in Fields \ DOMAIN job[r].asked : row'[f] = row[f]]_vars

\* When a request that succeeds ends, every value it asked for is, or has
\* been since the request looked at the row, the committed value.  So a
\* change is missing later only because another request has overwritten it,
\* also when it was left out of the UPDATE as equal to what was read.  (The
\* one exception: null in the PUT that inserts the row asks for the default.)
AskedValuesHeld ==
    [][\A r \in Requests :
          Close(r) /\ job[r].status = "ok" =>
          \A f \in job[r].unmet :
             \/ row'[f] = job[r].asked[f]
             \/ row = NoRow /\ job[r].asked[f] = Null]_vars

\* A request that has written answers with exactly the row it then commits,
\* other requests' changes to other columns included.
AnswerIsCommitted ==
    [][\A r \in Requests :
          Close(r) /\ job[r].sets # Nothing => row' = job[r].answer]_vars

\* A 500 has a cause: null for a NOT NULL column of a row that exists, or a
\* PUT that another PUT has raced to the insertion of the row.
ErrorsExplained ==
    \A r \in Requests :
        job[r].status = "error"
        => /\ row # NoRow
           /\ \/ \E f \in Required \cap DOMAIN job[r].asked : job[r].asked[f] = Null
              \/ job[r].put /\ ~job[r].alone
=============================================================================

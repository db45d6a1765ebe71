--------------------------- MODULE RefreshTokens ---------------------------
(***************************************************************************)
(* The rotating refresh tokens of the accounts service, at the grain of    *)
(* the SQL statements the handlers execute.                                *)
(*                                                                         *)
(*   services/refresh.py           issue, rotate, revoke                   *)
(*   services/auth.py              login (_issue_tokens), refresh, logout  *)
(*   db/repositories/family.py     get_by_token_hash, revoke_session       *)
(*   providers.py                  one transaction per HTTP request        *)
(*                                                                         *)
(* Every in-flight HTTP request runs in a slot (an element of Requests):   *)
(* a worker thread holding one database transaction.  The database is      *)
(* PostgreSQL at its default isolation level, READ COMMITTED: a SELECT     *)
(* sees what is committed when it starts, an UPDATE takes the row lock and *)
(* waits for another transaction that holds it, then rewrites the latest   *)
(* version of the row.  Uncommitted writes are kept in job[r] and reach    *)
(* the tables in Close.                                                    *)
(*                                                                         *)
(* A token stands for the raw value, its SHA-256 digest and the row the    *)
(* digest keys.  The session_id of a lineage (a fresh UUID) is identified  *)
(* with the first token of the lineage, which is drawn just as fresh.      *)
(***************************************************************************)
EXTENDS Naturals

CONSTANTS
    Requests,    \* slots for concurrently served requests
    Tokens,      \* raw token values secrets.token_urlsafe can draw
    Members,     \* family members that can sign in
    RefreshTTL,  \* settings.refresh_ttl_seconds
    MaxTime,     \* bound of the clock
    NoToken,     \* no token
    NoRow        \* no row with this digest

VARIABLES
    row,         \* refresh_token table: committed rows by token
    consumed,    \* tokens whose committed row has consumed_at set
    revoked,     \* tokens whose committed row has revoked_at set
    now,         \* the clock, datetime.now(UTC)
    held,        \* raw tokens that reached a client in a Set-Cookie header
    pc,          \* where the handler of each request is
    job,         \* the request's local state and uncommitted writes
    sealed       \* history: lineages revoked with no exchange in flight

vars == <<row, consumed, revoked, now, held, pc, job, sealed>>

TokenOrNone == Tokens \cup {NoToken}

\* A row.  parent and slot are history fields: the token it was exchanged
\* for and the slot that minted it.
Row == [session : Tokens, member : Members, expires : Nat,
        parent : TokenOrNone, slot : Requests]

\* tok    the token the client presented
\* new    the raw value this request will hand out if it mints a token
\* ins    the row it has inserted under the key new, not yet committed
\* marks  rows it has set consumed_at on, not yet committed
\* kills  rows it has set revoked_at on, not yet committed
\* todo   rows revoke_session has read and will update later
\* want   the row the UPDATE being executed is for
\* status the outcome of the handler: success or a 401
\* burn   history: revoke_session ran, and whether an exchange overlapped it
Job == [tok : TokenOrNone, new : TokenOrNone, ins : Row \cup {NoRow},
        marks : SUBSET Tokens, kills : SUBSET Tokens, todo : SUBSET Tokens,
        want : TokenOrNone, status : {"ok", "unauthorized"},
        burn : {"none", "clean", "raced"}]

PCs == {"idle", "refresh", "logout", "decide", "consume", "insert",
        "scan", "revoke", "reply", "close"}

ASSUME ConstantsOK ==
    /\ Requests # {} /\ Members # {}
    /\ RefreshTTL \in Nat \ {0} /\ MaxTime \in Nat
    /\ NoToken \notin Tokens
    /\ NoRow \notin Row

TypeOK ==
    /\ row \in [Tokens -> Row \cup {NoRow}]
    /\ consumed \subseteq Tokens
    /\ revoked \subseteq Tokens
    /\ now \in Nat
    /\ held \subseteq Tokens
    /\ pc \in [Requests -> PCs]
    /\ job \in [Requests -> Job]
    /\ sealed \subseteq Tokens

-----------------------------------------------------------------------------
(* What the queries return.                                                *)

Stored(t) == row[t] # NoRow

\* Mutant of Dead: forgets consumed_at.
DeadIfRevoked(t) == t \in revoked

\* The test of rotate on the row it has read, before it looks at the expiry.
Dead(t) == t \in consumed \cup revoked
Live(t) == Stored(t) /\ ~Dead(t)

\* RefreshTokenService._is_expired.
Expired(t) == row[t].expires <= now

\* Mutant of LineageRows: the filter on revoked_at has become one on consumed_at.
LineageRowsSpent(s) == {t \in Tokens : Stored(t) /\ row[t].session = s /\ t \in consumed}

\* The rows revoke_session selects: the whole lineage, revoked_at IS NULL.
LineageRows(s) == {t \in Tokens : Stored(t) /\ row[t].session = s /\ t \notin revoked}

\* Values nobody has drawn, as far as any client or the database can tell.
Unused(t) == ~Stored(t) /\ t \notin held /\ \A r \in Requests : job[r].new # t

\* r holds the lock of every row it has updated in its open transaction.
Locks(r) == job[r].marks \cup job[r].kills
LockedByOther(r, t) == \E q \in Requests \ {r} : t \in Locks(q)

\* The row the UPDATE of r is waiting for, if r is at an UPDATE.
Wanted(r) == CASE pc[r] = "consume" -> job[r].tok
               [] pc[r] = "revoke"  -> job[r].want
               [] OTHER             -> NoToken
WaitsFor(r, q) == q # r /\ Wanted(r) \in Locks(q)

\* r is on a cycle of the waits-for graph (each waiter waits for one holder).
Deadlocked(r) ==
    \E C \in SUBSET Requests :
        /\ r \in C
        /\ \A p \in C : (\E q \in C : WaitsFor(p, q)) /\ (\E q \in C : WaitsFor(q, p))

\* r has read its token as live and is exchanging it (history).
Exchanging(r) ==
    /\ job[r].tok # NoToken
    /\ pc[r] \in {"decide", "consume", "insert"} \/ job[r].ins # NoRow

\* The SELECT of r by the digest of the presented token finds a row.
Known(r) == job[r].tok # NoToken /\ Stored(job[r].tok)

Session(r) == row[job[r].tok].session

-----------------------------------------------------------------------------
Idle == [tok |-> NoToken, new |-> NoToken, ins |-> NoRow, marks |-> {}, kills |-> {},
         todo |-> {}, want |-> NoToken, status |-> "ok", burn |-> "none"]

Init ==
    /\ row = [t \in Tokens |-> NoRow]
    /\ consumed = {} /\ revoked = {} /\ held = {} /\ sealed = {}
    /\ now = 0
    /\ pc = [r \in Requests |-> "idle"]
    /\ job = [r \in Requests |-> Idle]

DB == <<row, consumed, revoked>>

Goto(r, l) == pc' = [pc EXCEPT ![r] = l]

-----------------------------------------------------------------------------
(* Arrival of a request.                                                   *)

\* The supply of Tokens bounds the minting: a request that may mint sets an
\* unused value aside when it arrives.

\* POST /auth/login with valid credentials (or the tail of a signup): go
\* straight to issue() with no session_id.
Login(r) ==
    /\ pc[r] = "idle"
    /\ \E n \in Tokens :
        /\ Unused(n)
        /\ job' = [job EXCEPT ![r] = [Idle EXCEPT !.new = n]]
    /\ Goto(r, "insert")
    /\ UNCHANGED <<DB, now, held, sealed>>

\* POST /auth/refresh with a cookie: some token a client was handed, or a
\* value that keys no row.  A request without the cookie gets the same 401.
\* A token that is dead already cannot mint and needs no value.
Refresh(r) ==
    /\ pc[r] = "idle"
    /\ \E t \in held \cup {NoToken}, n \in TokenOrNone :
        /\ IF t # NoToken /\ ~Dead(t) THEN n \in Tokens /\ Unused(n) ELSE n = NoToken
        /\ job' = [job EXCEPT ![r] = [Idle EXCEPT !.tok = t, !.new = n]]
    /\ Goto(r, "refresh")
    /\ UNCHANGED <<DB, now, held, sealed>>

\* POST /auth/logout.
Logout(r) ==
    /\ pc[r] = "idle"
    /\ \E t \in held \cup {NoToken} : job' = [job EXCEPT ![r] = [Idle EXCEPT !.tok = t]]
    /\ Goto(r, "logout")
    /\ UNCHANGED <<DB, now, held, sealed>>

-----------------------------------------------------------------------------
(* rotate: SELECT, inspect, UPDATE, INSERT.                                *)

\* get_by_token_hash returned no row: 401.
LookupUnknown(r) ==
    /\ pc[r] = "refresh"
    /\ ~Known(r)
    /\ job' = [job EXCEPT ![r].status = "unauthorized"]
    /\ Goto(r, "reply")
    /\ UNCHANGED <<DB, now, held, sealed>>

\* The row is consumed or revoked: reuse, go on to revoke_session, then 401.
LookupDead(r) ==
    /\ pc[r] = "refresh"
    /\ Known(r) /\ Dead(job[r].tok)
    /\ job' = [job EXCEPT ![r].status = "unauthorized"]
    /\ Goto(r, "scan")
    /\ UNCHANGED <<DB, now, held, sealed>>

\* The row is live.  Revocations of its lineage that are under way are now
\* overlapped by this exchange.
LookupLive(r) ==
    /\ pc[r] = "refresh"
    /\ Known(r) /\ ~Dead(job[r].tok)
    /\ job' = [q \in Requests |->
                 IF job[q].burn = "clean" /\ Session(q) = Session(r)
                 THEN [job[q] EXCEPT !.burn = "raced"] ELSE job[q]]
    /\ Goto(r, "decide")
    /\ UNCHANGED <<DB, now, held, sealed>>

\* Mutant of DecideExpired: the token is consumed before its expiry is looked at.
DecideExpiredConsumes(r) ==
    /\ pc[r] = "decide"
    /\ Expired(job[r].tok)
    /\ ~LockedByOther(r, job[r].tok)
    /\ job' = [job EXCEPT ![r].status = "unauthorized", ![r].marks = @ \cup {job[r].tok}]
    /\ Goto(r, "reply")
    /\ UNCHANGED <<DB, now, held, sealed>>

\* The expiry check reads the clock after the SELECT has returned.
DecideExpired(r) ==
    /\ pc[r] = "decide"
    /\ Expired(job[r].tok)
    /\ job' = [job EXCEPT ![r].status = "unauthorized"]
    /\ Goto(r, "reply")
    /\ UNCHANGED <<DB, now, held, sealed>>

DecideValid(r) ==
    /\ pc[r] = "decide"
    /\ ~Expired(job[r].tok)
    /\ Goto(r, "consume")
    /\ UNCHANGED <<DB, now, held, job, sealed>>

\* UPDATE refresh_token SET consumed_at = now WHERE id = ..., by primary key
\* only: after waiting for the lock it does not look at the row again.
Consume(r) ==
    /\ pc[r] = "consume"
    /\ ~LockedByOther(r, job[r].tok)
    /\ job' = [job EXCEPT ![r].marks = @ \cup {job[r].tok}]
    /\ Goto(r, "insert")
    /\ UNCHANGED <<DB, now, held, sealed>>

\* The row issue() builds: a new lineage, or the lineage of the token being
\* exchanged, with a full lifetime from now in both cases.
\* Mutant of NewRow: the default of session_id is left None.
NewRowNoDefault(r, m) ==
    LET t == job[r].tok
    IN  [session |-> IF t = NoToken THEN NoToken ELSE Session(r),
         member  |-> IF t = NoToken THEN m ELSE row[t].member,
         expires |-> now + RefreshTTL, parent |-> t, slot |-> r]

\* Mutant of NewRow: the default of session_id is evaluated once, so every
\* sign-in continues the first lineage.
NewRowSharedDefault(r, m) ==
    LET t == job[r].tok
    IN  [session |-> IF t = NoToken
                     THEN CHOOSE s \in Tokens : IF \E u \in Tokens : Stored(u)
                                               THEN Stored(s) /\ row[s].parent = NoToken
                                               ELSE s = job[r].new
                     ELSE Session(r),
         member  |-> IF t = NoToken THEN m ELSE row[t].member,
         expires |-> now + RefreshTTL, parent |-> t, slot |-> r]

\* Mutant of NewRow: rotate does not pass session_id on.
NewRowNewLineage(r, m) ==
    LET t == job[r].tok
    IN  [session |-> job[r].new, member |-> IF t = NoToken THEN m ELSE row[t].member,
         expires |-> now + RefreshTTL, parent |-> t, slot |-> r]

\* m is the member the credentials named; an exchange copies its token's.
NewRow(r, m) ==
    LET t == job[r].tok
    IN  [session |-> IF t = NoToken THEN job[r].new ELSE Session(r),
         member  |-> IF t = NoToken THEN m ELSE row[t].member,
         expires |-> now + RefreshTTL, parent |-> t, slot |-> r]

Insert(r) ==
    /\ pc[r] = "insert"
    /\ \E m \in Members : job' = [job EXCEPT ![r].ins = NewRow(r, m)]
    /\ Goto(r, "reply")
    /\ UNCHANGED <<DB, now, held, sealed>>

-----------------------------------------------------------------------------
(* revoke and revoke_session: SELECT, SELECT the lineage, UPDATE each row. *)

\* revoke: an unknown token is a no-op, a known one revokes its lineage
\* whatever state the presented row is in.
LookupLogout(r) ==
    /\ pc[r] = "logout"
    /\ Goto(r, IF Known(r) THEN "scan" ELSE "reply")
    /\ UNCHANGED <<DB, now, held, job, sealed>>

\* Move to the next row of the loop in revoke_session, if one is left.  The
\* query has no ORDER BY, so the rows come in any order.
NextRow(r, rest, j) ==
    \/ /\ rest = {}
       /\ job' = [job EXCEPT ![r] = [j EXCEPT !.todo = {}, !.want = NoToken]]
       /\ Goto(r, "reply")
    \/ \E t \in rest :
       /\ job' = [job EXCEPT ![r] = [j EXCEPT !.todo = rest \ {t}, !.want = t]]
       /\ Goto(r, "revoke")

Scan(r) ==
    /\ pc[r] = "scan"
    /\ NextRow(r, LineageRows(Session(r)),
               [job[r] EXCEPT !.burn =
                  IF \E q \in Requests : Exchanging(q) /\ Session(q) = Session(r)
                  THEN "raced" ELSE "clean"])
    /\ UNCHANGED <<DB, now, held, sealed>>

\* row.revoked_at = now; self.update(row): one UPDATE per row of the result.
Revoke(r) ==
    /\ pc[r] = "revoke"
    /\ ~LockedByOther(r, job[r].want)
    /\ NextRow(r, job[r].todo, [job[r] EXCEPT !.kills = @ \cup {job[r].want}])
    /\ UNCHANGED <<DB, now, held, sealed>>

-----------------------------------------------------------------------------
(* The end of a request.                                                   *)

\* The response leaves before the request scope closes: a success carries
\* the new token in its cookie, a ServiceError has become a 401 response.
Reply(r) ==
    /\ pc[r] = "reply"
    /\ held' = IF job[r].ins # NoRow THEN held \cup {job[r].new} ELSE held
    /\ Goto(r, "close")
    /\ UNCHANGED <<DB, now, job, sealed>>

\* Mutant of Close: a handled error rolls back as well.
CloseRollsBackOn401(r) ==
    LET ok == job[r].status = "ok"
    IN  /\ pc[r] = "close"
        /\ row' = IF job[r].ins # NoRow THEN [row EXCEPT ![job[r].new] = job[r].ins] ELSE row
        /\ consumed' = consumed \cup job[r].marks
        /\ revoked' = IF ok THEN revoked \cup job[r].kills ELSE revoked
        /\ sealed' = IF job[r].burn = "clean" THEN sealed \cup {Session(r)} ELSE sealed
        /\ job' = [job EXCEPT ![r] = Idle]
        /\ Goto(r, "idle")
        /\ UNCHANGED <<now, held>>

\* The provider of the session is resumed with no error, also after a 401,
\* and commits.
Close(r) ==
    /\ pc[r] = "close"
    /\ row' = IF job[r].ins # NoRow THEN [row EXCEPT ![job[r].new] = job[r].ins] ELSE row
    /\ consumed' = consumed \cup job[r].marks
    /\ revoked' = revoked \cup job[r].kills
    /\ sealed' = IF job[r].burn = "clean" THEN sealed \cup {Session(r)} ELSE sealed
    /\ job' = [job EXCEPT ![r] = Idle]
    /\ Goto(r, "idle")
    /\ UNCHANGED <<now, held>>

\* Mutant of Rollback: the transaction is left open, with its row locks.
RollbackKeepsLocks(r) ==
    /\ job' = [job EXCEPT ![r] = [Idle EXCEPT !.marks = job[r].marks, !.kills = job[r].kills]]
    /\ Goto(r, "idle")
    /\ UNCHANGED <<DB, now, held, sealed>>

Rollback(r) ==
    /\ job' = [job EXCEPT ![r] = Idle]
    /\ Goto(r, "idle")
    /\ UNCHANGED <<DB, now, held, sealed>>

\* PostgreSQL aborts one transaction of a lock cycle; the handler raises an
\* unhandled error (500) and the session is rolled back.
DeadlockVictim(r) == Deadlocked(r) /\ Rollback(r)

\* The connection fails in a statement or in the COMMIT, or the process
\* dies: nothing of the transaction remains.  A crash of the process is one
\* Fail for each request in flight.
Fail(r) == pc[r] # "idle" /\ Rollback(r)

Tick ==
    /\ now < MaxTime
    /\ now' = now + 1
    /\ UNCHANGED <<DB, held, pc, job, sealed>>

-----------------------------------------------------------------------------
Arrive(r) == Login(r) \/ Refresh(r) \/ Logout(r)

Handle(r) ==
    \/ LookupUnknown(r) \/ LookupDead(r) \/ LookupLive(r)
    \/ DecideExpired(r) \/ DecideValid(r) \/ Consume(r) \/ Insert(r)
    \/ LookupLogout(r) \/ Scan(r) \/ Revoke(r)
    \/ Reply(r) \/ Close(r) \/ DeadlockVictim(r)

Next == Tick \/ \E r \in Requests : Arrive(r) \/ Handle(r) \/ Fail(r)

Spec == Init /\ [][Next]_vars

\* A started handler keeps running: its worker thread is scheduled and the
\* deadlock detector runs.  Strong fairness stands for PostgreSQL's queue of
\* lock waiters: a request that came earlier is served before later ones, so
\* a row that is released over and over is not always taken by another.
FairSpec == Spec /\ \A r \in Requests : SF_vars(Handle(r))

-----------------------------------------------------------------------------
(* Properties.                                                             *)

\* Two rows minted in exchange for the same token were minted by different
\* slots: only requests that overlapped in time can both spend a token, so
\* at most one row per slot descends from it.  (rotate reads the row without
\* a lock and consumes it by primary key.)
ForksAreConcurrent ==
    \A t, u \in Tokens :
        (/\ t # u /\ Stored(t) /\ Stored(u)
         /\ row[t].parent = row[u].parent /\ row[t].parent # NoToken)
        => row[t].slot # row[u].slot

\* Once a logout or a detected reuse has committed, and no exchange of the
\* lineage overlapped it, every token of the lineage is revoked and stays
\* so: no later request, and none in flight, adds a live one.
SealedStaysDead ==
    \A s \in sealed, t \in Tokens :
        Stored(t) /\ row[t].session = s => t \in revoked

\* All the tokens of a lineage speak for the member who signed in.
LineageIdentity ==
    \A t \in Tokens :
        Stored(t) => /\ Stored(row[t].session)
                     /\ row[row[t].session].session = row[t].session
                     /\ row[t].member = row[row[t].session].member

\* A token is unspent or the lineage went on from it: consuming a token and
\* minting its successor reach the tables together or not at all.
SpentHasSuccessor ==
    \A t \in Tokens :
        t \in consumed <=> \E u \in Tokens : Stored(u) /\ row[u].parent = t

\* With one request at a time the tables implement the promise of
\* OneTimeLineage: every committed transaction opens, exchanges, shuts or
\* leaves a lineage as it was.
Lineages == INSTANCE OneTimeLineage WITH
    minted <- {t \in Tokens : Stored(t)},
    live   <- [s \in Tokens |-> {t \in Tokens : Live(t) /\ row[t].session = s}]
ImplementsLineages == Lineages!Spec

\* A request that has been accepted is answered and its transaction ends,
\* whatever locks it meets (two burns of a lineage can deadlock).
EveryRequestCloses ==
    \A r \in Requests : pc[r] # "idle" ~> pc[r] = "idle"

-----------------------------------------------------------------------------
(* What the documentation says and the code does not keep.                 *)

\* "Rotation is one-time-use: exchanging a token consumes it and mints a new
\* one" (services/refresh.py): a token has at most one successor.
OneTimeUse ==
    \A t, u \in Tokens :
        (/\ Stored(t) /\ Stored(u)
         /\ row[t].parent = row[u].parent /\ row[t].parent # NoToken)
        => t = u
=============================================================================

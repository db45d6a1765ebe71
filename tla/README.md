# A formal model of the accounts service

The accounts service is the identity and family back end of a book
recommendation product: a FastAPI application over PostgreSQL (SQLAlchemy,
advanced-alchemy repositories, dishka for wiring).  It signs families up, logs
members in, rotates refresh tokens, admits members by invite, and keeps the
children, reading profiles, policies and histories of a family.

This directory holds TLA+ modules that model what the service does to its
state, TLC configurations that check them on small instances, and proofs checked
by TLAPS.  Paths below are relative to `src/src/accounts/` unless they say
otherwise.

## 1. The system

A request passes the layers of middleware on the event loop, runs its endpoint -
all endpoints are synchronous functions - on a worker thread, has its answer
validated on a worker thread taken anew where there is a response model, and has
one database transaction (`providers.py`, class `DbProvider`), which ends when the
request scope closes.  Requests share nothing but the pools of threads and
connections and the database: there are no locks, queues or caches in the
process.  Components therefore interact by rows that another transaction
reads, updates or deletes between two statements of this one.

Four facts carry most of the models:

1. **A transaction's statements have a snapshot each.**  The engine uses
   PostgreSQL's default isolation level, READ COMMITTED, and no repository method
   takes a row lock in a SELECT.  An UPDATE or DELETE waits for the row's lock
   and goes by primary key.
2. **A handled error commits.**  `ServiceError` is turned into a response by an
   exception handler inside the request scope, so the provider is resumed with
   no error and commits; only an unhandled exception (a 500) rolls back.
3. **The response leaves before the commit.**  `setup_dishka` comes last in
   `create_app`, so the scope is closed by the outermost layer, on the event
   loop, after the one that sends the response.  A client can hold a token, and
   use it, whose row is never committed.  A 500 is the exception: it is made
   outside the scope, after the rollback.
4. **The session keeps what it has read.**  A row that is in the session already
   keeps its attributes, whatever a later SELECT of the same transaction
   returns; relationships are loaded `selectin`, by statements of their own.

| Component | Code | State | Operations | What is hard | What makes it correct |
|---|---|---|---|---|---|
| Refresh tokens | `services/refresh.py`, `db/repositories/family.py` | `refresh_token`: digest, session, member, expiry, `consumed_at`, `revoked_at` | issue, rotate, revoke, revoke_session | read-then-update without a lock; two revocations of a lineage; reuse long after | one live successor, reuse kills the lineage, lineages keep their member, exchange is atomic |
| Signup, login, invites | `services/auth.py`, `services/invite.py` | `family`, `family_member`, `family_invite` | signup (founding, joining), login, issue, redeem, revoke invite | a redeem racing a redeem or a revocation; failure after half of the writes | unique email, one primary per family, an invite is used up iff somebody joined |
| Members | `services/member.py` | `family_member`, `family_member_profile` | create, update, delete, profile upsert | deletion racing sign-in, invites and the insertion of the profile it should take along | nothing refers to a deleted member; member and profile go together; the primary stays |
| Request transaction | `providers.py`, `main.py`, `db/base.py` | pools of threads and connections, one session per request | arrive, connect, commit, rollback, answer | response before commit; handled errors commit; waiting for one resource while holding another; PostgreSQL restarts | whatever a request takes comes back on every way out; nobody waits for ever |
| Children, profiles, history | `services/child.py` | `child_profile`, `child_reading_profile`, `reading_history` | create, update, delete, upsert, record | deletion cascades to the profile and is refused by history; references to a child that is going | one reading profile per child; whole operations; no row of another family is touched |
| Reading policies | `services/policy.py` | `family_reading_policy` | list, create, update, delete | a child deleted between the ownership check and the insert | a policy names a child of its own family |
| Family | `services/family.py` | `family` | get, update, create (by signup) | a PATCH from a stale copy | a PATCH changes what it was asked to change |
| Context bundle | `services/context.py` | none, reads | load | a dozen statements, one snapshot each; stale objects of the session | nothing invented, nothing missed that was there all along |
| Internal face | `routers/internal.py` | none | the same services with a family id from the query | family ids nobody has checked | as for the services |
| Access tokens, identity | `auth.py`, `security.py` | none (signed JWT) | mint, verify | a token outlives what it names | handlers meet a claim without a row |
| Browser and cookie | `routers/auth.py` | the client's cookie jar | set, send, clear | tabs and retries; a late or lost answer; a logout before the commit | an honest browser stays signed in, and is signed out when told so |
| Schemas, errors, logging, middleware | `schemas.py`, `errors.py`, `logging.py`, `middleware.py` | the correlation id of a request | set, reset | explicit nulls; the layer an answer is made in | no id stays behind |
| Settings, startup | `config.py`, `container.py` | none | - | - | - |

## 2. The modules

| Module | Models |
|---|---|
| `RefreshTokens` | refresh tokens, statement by statement: the core |
| `OneTimeLineage` | what refresh tokens promise, abstractly: two variables, three actions |
| `BrowserSession` | a browser with tabs and one cookie jar, composed with `RefreshTokens` |
| `Membership` | signup, login, invites, member creation and deletion, at the same grain |
| `MemberProfiles` | members and their 1:1 profiles, and the deletion that takes the profile along |
| `FamilyTables` | what the tables of a family's children promise, by whole operations |
| `ChildRecords` | children, reading profiles, history and policies, statement by statement |
| `ContextBundle` | the loader of the context bundle, over `FamilyTables` |
| `RowUpdates` | the columns of one row under PATCH and PUT |
| `RequestLifecycle` | layers, threads, connections and transactions, whatever the handler does |
| `RefreshTokens_proofs`, `Membership_proofs`, `MemberProfiles_proofs`, `FamilyTables_proofs`, `ChildRecords_proofs`, `ContextBundle_proofs`, `RowUpdates_proofs`, `RequestLifecycle_proofs` | theorems (section 4) |
| `MC...` | instances for TLC: symmetry, and for `Membership` a founded family |

The modules divide the service by what a property can depend on.

- `RefreshTokens` and `Membership` meet in one place: a `refresh_token` row refers
  to a member.  `Membership` keeps that reference (`tokens`) and nothing else of
  the token; `RefreshTokens` takes the members that can sign in as a constant.
- `ChildRecords` and `RowUpdates` split a row into its existence with its locks
  and the values of its columns.  An update is a lock in the one and a set of
  columns in the other; no code path looks at a value to decide which row to
  lock.
- `ContextBundle` reads what others commit, so it takes the others at the grain
  of `FamilyTables`, whole operations.  That `ChildRecords` implements
  `FamilyTables` (checked and proved) is what makes this enough.
- `RequestLifecycle` reduces a handler to the resources it keeps, and the others
  take it that a request in flight gets its threads and its connection; with the
  timeout of the pool it is what justifies their fairness.

### RefreshTokens

An element of `Requests` is a *slot*: a request in flight with its open
transaction.  `pc[r]` is the statement the handler is about to execute, `job[r]`
its locals and uncommitted writes, and `Close` carries those to the tables.

| Code | Actions |
|---|---|
| `POST /auth/login`, `AuthService._issue_tokens` | `Login`, `Insert` |
| `POST /auth/refresh`, `rotate` | `Refresh`, `LookupUnknown`, `LookupDead`, `LookupLive`, `DecideExpired`, `DecideValid`, `Consume`, `Insert` |
| `POST /auth/logout`, `revoke` | `Logout`, `LookupLogout` |
| `revoke_session` | `Scan`, `Revoke` (one UPDATE per row, in any order: the query has no ORDER BY) |
| response, `DbProvider.session` | `Reply`, `Close`, `Fail`, `DeadlockVictim` |

`row`, `consumed` and `revoked` are the committed `refresh_token` table, split
by column.  A token stands for the raw value, its digest and the row the digest
keys; a lineage is named by its first token instead of by a fresh UUID.  `held`
is what clients were sent.  `parent`, `slot`, `burn` and `sealed` are history:
no guard of the code's control reads them.

### OneTimeLineage

`live` holds the live tokens of each lineage.  `Open` starts a lineage with one,
`Exchange` replaces the live token by a new one in one step, `Shut` ends a
lineage for good.  `RefreshTokens!Lineages` is the refinement mapping: a
transaction of any number of statements, with rollbacks and crashes, is one
abstract step or none.

### BrowserSession

Extends `RefreshTokens`; every step is a step of it together with what happens
on the wire.  `jar` is the one cookie all tabs share, `wire[r]` the request a tab
has open in slot `r`, which outlives the handler when the answer is on its way
and ends before it when the tab gives up.

| Code or behaviour | Actions |
|---|---|
| login, refresh and logout sent with the cookie of the jar | `SendLogin`, `SendRefresh`, `SendLogout` (with `Open`) |
| the handler runs; the answer carries `Set-Cookie`, deletes it, or leaves it alone (401, 500) | `Serve`, `Answer` |
| the answer arrives, late or in another order; or never | `Deliver`, `Lose` |

`out`, `excused` and `early` are history.  `excused` collects the lineages to which
one of the accidents has happened that a browser cannot help: a lost answer, two
requests open at once, a commit that failed after its answer.  `early` collects
those of which a logout looked for a row that was not committed yet.

### Membership

| Code | Actions |
|---|---|
| `AuthService.signup` | `Signup`, `CheckEmail`, then `FindInvite`, `Accept` (redeem) or `AddFamily`, then `AddMember`, `AddToken` |
| `AuthService.login` | `Login`, `FindLogin`, `AddToken` |
| `MemberService.create`, `POST /internal/members` | `CreateMember`, `CheckEmail`, `AddMember` |
| `MemberService.delete` | `DeleteMember`, `FindMember`, `DeleteRow` |
| `InviteService.create`, `revoke` | `IssueInvite`, `AddInvite`; `RevokeInvite`, `FindOwnInvite`, `DeleteInvite` |
| response, `DbProvider.session` | `Reply`, `Close`, `Fail` |
| an invite's `expires_at` passes | `Lapse` |

`WaitsOn(r, q)` says which statement waits for which uncommitted write: the row
lock of an invite, the unique key of an email that is being inserted or deleted,
the key-share lock by which the insert of a referring row and the DELETE of the
member exclude each other.
`claims` are the identities of the access tokens clients hold.  Because the
response precedes the commit, a claim can name a member or a family that is
never committed; the handlers that insert rows from a claim meet that case as a
foreign-key error.

### MemberProfiles

| Code | Actions |
|---|---|
| `MemberService.create` | `Create`, `AddMember` |
| `MemberService.upsert_profile` | `PutProfile`, `Find`, `Look` (`get_by_member`), `Update` or `Insert` |
| `MemberService.delete` | `Delete`, `Find`, `Load` (the `selectin` load of the profile, and the refusal for a primary), `GetRow`, `DeleteProfile`, `DeleteRow` |

A child gets its reading profile with it; a member's profile is inserted by the
first PUT.  Whether the deletion of a member also deletes a profile was decided
when the member was loaded (`job[r].loaded`), which may be before the profile
was inserted: then the foreign key refuses the DELETE.

### FamilyTables and ChildRecords

`FamilyTables` has the four tables and an action for each whole operation:
`AddChild` (with its profile), `DropChild` (with its profile, if nothing refers to
it), `AddEntry`, `DropEntry`, `AddPolicy` (for a child of the policy's family),
`DropPolicy`.  `ChildRecords` executes the statements:

| Code | Actions |
|---|---|
| arrival, external and internal face | `External`, `Internal`: one action per endpoint that writes, `CreateChild` ... `DeletePolicy` |
| `_require_child`, `_resolve_child`, `get_in_family` | `FindChild` |
| `get_by_child`, `get_for_child`, policies' `get_in_family` | `FindProfile`, `FindEntry`, `FindPolicy` |
| `create` of child and seeded profile | `AddChild`, `AddProfile` |
| INSERT of an entry, a policy, a missing profile | `AddRow` |
| UPDATE by primary key; none if nothing changes | `Update` |
| DELETE with its SELECT by id and its cascade | `GetRow`, `DeleteProfile`, `DeleteRow` |
| response, `DbProvider.session` | `Reply`, `Close`, `Abort`, `Fail` |

The internal face takes the family from the query, so `Ghost`, an id without a
row, is among its families.

### ContextBundle

The loader's statements in order (`Load`): the family, its members with profiles,
children with reading profiles and policies by `selectin`, then `list_by_family` of
members and children and `list_active`.  `loaded` is the session, `fresh` the rows
whose profile the next statement fetches, `bundle` the facts of the answer.
`Commit` is one whole operation of another request.  `ever` and `always` are
history: the facts that were committed at some time, or all the time, since the
load began.

### RowUpdates

One row of any of the seven tables that have a PATCH or a PUT, with columns
`Fields`, some `Required` (NOT NULL).  A body is a function on the fields the
client has set, to a value or to null (`exclude_unset`).

| Code | Actions |
|---|---|
| a body arrives | `Patch`, `Put` |
| the owner of a 1:1 row is found and brings it along | `Load` |
| the lookup of the row itself | `Look` |
| `apply_changes` and the flush: the columns that differ from the copy read | `Write` |
| INSERT of a 1:1 row that was not found | `Insert` |
| the repository's `refresh`, of which the answer is made | `Refresh` |
| response, `DbProvider.session` | `Reply`, `Close`, `Abort`, `Fail` |

### RequestLifecycle

| Code | Actions |
|---|---|
| the scope opens, `CorrelationIdMiddleware.dispatch` sets the id | `Arrive` |
| `get_settings`, a synchronous dependency of `service_guard`, runs on a thread | `TakeThread`, `HasSettings` |
| validation, `service_guard`, `BearerIdentityResolver` refuse | `Refuse` |
| the endpoint gets a thread; the first statement a connection (`pool_pre_ping`) | `TakeThread`, `Connect`, `PoolTimeout` |
| a statement waits for a row lock; it, or the service, fails | `Execute`, `Break` |
| the endpoint returns or raises; `_check_db` closes its own session | `Finish`, `Raise`, `Return` |
| FastAPI validates the answer by its response model on a thread taken anew, the session still open | `TakeThread`, `Validated` |
| the answer passes `dispatch`; the scope commits after it | `Respond`, `Close` |
| an unhandled error passes `dispatch`, then the scope, then `_unhandled_exc` | `Unwind`, `Rollback`, `SendError` |
| PostgreSQL goes away and comes back | `Crash`, `Restart` |

## 3. What the runs check

"pass" runs explore every reachable state of the instance; the "violation" run
shows that the code does not do what a docstring says.

| Run | Checks | Instance |
|---|---|---|
| `RefreshRaces` | `TypeOK`; `ForksAreConcurrent`: two successors of one token come from requests that overlapped; `SealedStaysDead`: a revocation no exchange overlapped is final; `SpentHasSuccessor`: consuming a token and storing its successor happen together or not at all | 2 slots, 3 tokens, 1 member |
| `RefreshSerial` | `ImplementsLineages`: without overlap the tables implement `OneTimeLineage`; `LineageIdentity`: a lineage never changes its member | 1 slot, 4 tokens, 2 members |
| `RefreshLiveness` | `EveryRequestCloses`, also when two revocations deadlock | 2 slots, 2 tokens |
| `RefreshOneTimeUse` | violation of `OneTimeUse` | 2 slots, 3 tokens |
| `BrowserTabs` | `ReuseHasACause`: the browser's own requests look like theft only after a lost answer, overlapping requests or a failed commit; `JarIsGood`: at rest the cookie is one the server would exchange; `LogoutEndsSession`: a confirmed logout leaves no live token, unless it overtook the commit of its own token | 2 tabs, 2 tokens |
| `JoinRaces` | `TypeOK`, `EmailUnique`, `AcceptedIffJoined`, `FamilyHasItsPrimary`, `JoinsInvitersFamily`, `SharedInviteIsConcurrent`, `NoDanglingReference`, `RevokedInviteAdmitsNobody` | 2 slots, 3 ids, 1 invite, 3 emails |
| `JoinLiveness` | `EveryRequestCloses` with no deadlock detector: the lock order has no cycle | 2 slots, 3 ids, 1 invite, 2 emails, from a founded family with an open invite |
| `ProfileRaces` | `TypeOK`; `ProfilesHaveMembers`; `TakenAlong`: member and profile go in one commit and a profile goes no other way; `ErrorsExplained`: a 500 is owed to what another request has committed since this one looked; `EveryRequestCloses` | 3 slots, 2 members of whom one is primary |
| `ChildRaces` | `ImplementsTables`: the tables change by whole operations; `NeverCrossesFamilies`: every row an open transaction has written, and the parent of every row it has inserted, is still a row of its family; `ErrorsExplained`: what a 500 to a request served alone can mean; `NoDeadlock` | 2 slots, 2 families and a ghost, 2 children, 1 entry, 1 policy |
| `BundleRaces` | `TablesConsistent`: whole operations keep the tables consistent; `NothingInvented`: what the bundle says was so, committed, at some time during the load; `NothingMissed`: what was so all through it is in the bundle | 2 families and a ghost, 2 children, 1 policy, 1 member |
| `UpdateRaces` | `TypeOK`: no NULL in a NOT NULL column; `OnlyAskedFieldsChange`: no request undoes another's change to a column it was not asked about; `AskedValuesHeld`: a change is missing only because a later one replaced it; `AnswerIsCommitted`: the answer is the row that is then committed; `ErrorsExplained` | 2 slots, 2 columns, one of them NOT NULL, 2 values, every body and every initial row |
| `LifecyclePools` | `TypeOK`: the pools' limits; `EverythingComesBack`: locks, connections, threads and correlation ids on every way out; `FiveHundredIsOver`: a client that is told 500 can retry at once; `EveryRequestAnswered`: the circles of waits for threads, connections and locks are broken by the pool's timeout | 3 requests, 2 threads, 2 connections, 1 row |

### Bounds

- **Slots.**  Two requests are in flight at a time, any number one after the
  other.  A race in this code is between one request's read and its write and
  another request's commit; a slot that has ended is used again, so a chain of
  overlaps of any length is explored within the supply of tokens.  `ProfileRaces`
  has three, so that a deletion, an insertion and a second deletion or insertion
  can all overlap.  The proofs cover any number of slots.
- **Tokens, ids, invites.**  These bound what can be minted, not what can be
  asked: clients present any token they hold any number of times.  Three tokens
  give a sign-in, an exchange and a fork of it, or two lineages; four, with one
  slot, two lineages of which one has been exchanged twice.  Three ids give a
  founder and two members who race to join, or two families.  `BrowserTabs` has
  two, a sign-in and its exchange or two sign-ins: everything a jar with one
  cookie tells apart; a third makes the instance too large.
- **Rows.**  In `ChildRecords` ids of rows that are gone are drawn again as soon as
  no request knows them, so two children and one entry and policy each give any
  sequence of creations and deletions; two families and two children are what a
  request of the wrong family or a wrong child needs.  In `ContextBundle` an id is
  not drawn again during a load, as a UUID is not.
- **Columns and values.**  Whether an update is lost is a matter of two columns,
  one both requests set and one only one of them sets; a change from a value to
  another and back needs two values besides NULL.
- **Pools.**  Two threads and two connections are far below the libraries'
  defaults, so that three requests meet every limit.  They can also close the
  circle: one has a connection and the lock of the row and waits for a thread to
  validate its answer, one waits on a thread for that lock, one on the other
  thread for a connection.
- **Clock.**  `MaxTime` is at least `RefreshTTL`, so tokens expire between any
  two statements.  `Lapse` needs no clock.
- **Symmetry** is used in the safety runs: the permuted sets are model values and
  no definition chooses among them by more than what tells them apart.  The runs
  with liveness (`RefreshLiveness`, `JoinLiveness`, `ProfileRaces`,
  `LifecyclePools`) do without, since TLC does not support it there.
- `JoinLiveness` leaves the lapse of the invite out: no lock depends on it.  Its
  initial state is one that `JoinRaces` reaches.

Deadlock is checked in every run.  In the models a step is always possible:
a request in flight can fail, and an idle slot can accept a request.

### Fairness

`FairSpec` assumes strong fairness of `Handle(r)` (`Serve(r)` in
`RequestLifecycle`) for each slot and none of arrivals, failures or the clock.  A
started handler is a thread the operating system schedules; where it waits, it
waits in PostgreSQL for a lock.  Those waiters form a queue, so a lock that is
released again and again is granted to the one that came first; weak fairness
would not express that, as the statement is disabled each time another
transaction has the lock.  The same holds of the queues in front of the threads
and of the connection pool.

That a started handler goes on rests on the pool's timeout.  Before its commit a
handler may need a thread a second time, for the response model of its answer,
while it holds a connection and locks; if every thread is with a request that
waits for a connection, or for those locks, nothing moves until one of the former
times out (`RequestLifecycle`, `EveryRequestAnswered`, with weak fairness of
`PoolTimeout`).  One of the former there is as long as a process has no more
connections than threads, which holds of the defaults the code leaves in place
(`db/base.py:54` sets no size: SQLAlchemy's 5 and 10 on top, AnyIO's 40 threads).

In `RefreshTokens` the deadlock detector
(`DeadlockVictim`) is part of `Handle`: PostgreSQL runs it after
`deadlock_timeout`.  The other modules assume no detector, and `RequestLifecycle`
does not count on a restart of PostgreSQL.

`ChildRecords` states the absence of deadlock as an invariant, `NoDeadlock`, over
the instance its safety needs: whoever is waited for is being served, and every
group of requests has one that waits for none of the group.  Each handler being a
finite sequence of statements, this is all that can keep one from its end.

## 4. What is proved

All theorems are checked by TLAPS to the last leaf, for every value of the
constants: any number of slots, tokens, families, rows, columns and values, pools
of any size.  They take nothing but the named assumptions of each module's
constants (`ConstantsOK`, `MembersOK`, `TablesOK`, `RecordsOK`, `BundleOK`,
`UpdatesOK`, `LifecycleOK`), which TLC evaluates in the runs: there is a slot, a
pool holds at least one, a table has a column, and the values for "none" are
distinct from what they stand beside.

Every invariant below that is not a property of a run itself was checked by TLC
on the instance of its component before it was proved.  Those of `BrowserSession`
were besides checked with three tokens, where one can be exchanged twice; that
instance is too large to exhaust (four million states were visited).
`RefreshTokens_proofs` holds the theorems of `RefreshTokens` and, in its second
half, those of `BrowserSession`, which rest on them.

The components that consist of concurrent transactions share one argument, that
of two-phase locking, of which READ COMMITTED gives these statements just
enough.  The properties of the tables are not inductive, since the tables say
nothing of the uncommitted writes that will reach them.  Each invariant therefore
says of every request what the statements it has executed are still worth (`Own`),
and of every two what they cannot both have done (`Apart`).  `Own` is not
inductive without `Apart`: the commit of another request could take away the row
this one relies on.  `Apart` is kept because a statement first waits for the lock
it needs, finds a unique key taken, or draws an id nobody has met.

### RefreshTokens

| Theorem | Says |
|---|---|
| `Invariance` | the inductive invariant `IInv` always holds |
| `TypeCorrect` | `TypeOK` |
| `ForksNeedConcurrency` | `ForksAreConcurrent` |
| `OneTimeUseWhenSerial` | with a single slot a token has at most one successor: the one-time use the documentation claims, with the condition it needs |
| `RevocationIsFinal` | `SealedStaysDead` |
| `LineageKeepsItsMember` | `LineageIdentity` |
| `ExchangeIsAtomic` | `SpentHasSuccessor` |
| `SerialImplementsLineages` | `ImplementsLineages`, with a single slot: the statements of `rotate`, `issue` and `revoke_session` implement `OneTimeLineage` |

`IInv` adds to the properties:

- `Fresh` and `Supplied`: a request that will mint holds a value that keys no
  row, and no other request holds it (so `Close` overwrites nothing);
- `LookedUp`: from its SELECT on, a request's token has a row (rows are never
  deleted), so its lineage is defined;
- `WriteSet`: the consumed mark and the inserted row are written by the same
  transaction and belong to the same exchange (for `ExchangeIsAtomic` and
  `LineageKeepsItsMember`);
- `NoOwnFork`: while a slot exchanges a token it has not yet stored a successor
  it minted itself: the slot read the token as unspent, and a successor it had
  stored earlier would have spent it (for `ForksNeedConcurrency`);
- `CleanBurn` and `SealedQuiet`: a revocation that nothing overlaps has every
  row of its lineage revoked, written or still to write, and nobody is
  exchanging a token of that lineage, which is kept by the fact that an exchange
  can only begin from a row that is live (for `RevocationIsFinal`).

The proof has a lemma per action.  `LocalStep` treats at once all the steps that
change one slot and no table; `CloseStep` is the only one where a table changes.

The refinement needs more than `IInv`, and only a single slot has it
(`SerialInv`): a lineage has at most one live token (`OneLive`), the token under
exchange is that one (`Holding`), and a revocation concerns one lineage and is
never overlapped (`Shutting`).  A commit is then `Open`, `Exchange`, `Shut` or
nothing, and no other step moves the abstract state.

### BrowserSession

| Theorem | Says |
|---|---|
| `BrowserUsesService` | `BSpec => Spec`: a browser drives the service as its specification allows, so all theorems above hold beneath it |
| `BrowserInvariance` | the inductive invariant `BrowserInv` always holds |
| `BrowserTypeCorrect` | `BrowserTypeOK` |
| `ReuseNeedsAnAccident` | `ReuseHasACause`: the browser's own requests are taken for theft only after an accident |
| `JarStaysGood` | `JarIsGood` |
| `LogoutIsFinal` | `LogoutEndsSession` |
| `ForksNeedAnAccident` | two rows replace one token only in a session with an accident |

An *accident* is what puts a session in `excused`: an answer that was lost, a
commit that failed after its answer, or two requests open at once.  The idea of
the proof is that a session without one (`Fine`) is in one place: with a request,
in an answer, or in the jar.  `IInv` says nothing of the wire, and the three
properties nothing of the states in which a request is under way, so neither is
inductive.  `BrowserInv` has:

- `SlotsInv`, about the slots alone: `IInv`, and what it does not need itself, but
  the browser does: which outcome a request can still have (`Outcome`), that a
  revocation stays within its lineage (`RowsOfLineage`), and that a minted token is
  with a client exactly between answer and commit (`Handed`);
- `OnTheWire` and `Traced`: what the wire says agrees with what the slot is doing,
  and a token the browser has is a row, is about to be one, or was lost;
- `OnePlace`: of a session without an accident one request at most is on the wire,
  and what the jar has of it is the token that request was sent with;
- `JarClean`, `Served`, `Answered`: wherever the token is, nobody else has spent or
  revoked it or is about to (`Clean`, `CleanBut`);
- `Newest`: an answer can arrive before the commit it reports.  Until then the
  browser has no other token of the session;
- `SignedOut`: once a logout was confirmed, its lineage is sealed or will be with a
  commit under way, and the browser is rid of it, unless the logout was `early`.

Seven kinds of step are left to tell apart: a statement of the handler, its
answer, the commit, a rollback, and the browser's sending, receiving and losing.
Each has one lemma that says what it leaves alone (`WorkKeeps`, `ReplyKeeps`, ...)
and one that takes `BrowserInv` across it (`WorkWires`, `ReplyWires`, ...).  The
step where an accident must have happened if the code went wrong is the lookup:
`NotRaced` shows that a request which finds its token live does so while nobody
else exchanges a token of the session.

`ForksNeedAnAccident` is the counterpart of the finding about one-time use
(section 5): the two overlapping exchanges that break it can only be sent by a
browser with two requests open, or one that has missed an answer.  `ForkInv` adds
to `BrowserInv` that an exchange in a session without an accident is alone with an
unspent token (`AloneOn`) and that a rotated row is of the session of the row it
replaces (`ChildOfSession`).

### Membership

| Theorem | Says |
|---|---|
| `MembershipInvariant` | the inductive invariant `MembershipInv` always holds |
| `MembershipTypeOK` | `TypeOK` |
| `MembersShareNoEmail` | `EmailUnique` |
| `InviteAcceptedIffJoined` | `AcceptedIffJoined` |
| `FamilyKeepsItsPrimary` | `FamilyHasItsPrimary` |
| `JoinedInvitersFamily` | `JoinsInvitersFamily` |
| `SharersOverlapped` | `SharedInviteIsConcurrent` |
| `MembershipReferencesHold` | `NoDanglingReference` |
| `NobodyJoinsByRevokedInvite` | `RevokedInviteAdmitsNobody` |

`MembershipInv` has the committed rows in order (`Rows`) and of each request
`Shape` (which statements it can have executed where it is), `Names` (whose ids
and invites it names), `Found` (what it has read is as it was, or gone) and
`Locked` (what it has written keeps the member or the invite it refers to).
`Apart` lists the five conflicts that the unique key, the fresh ids, the key-share
lock of a reference and the lock of an invite's row exclude.  An invite two
requests have found open can be redeemed by both; what `SharersOverlapped` and
`NobodyJoinsByRevokedInvite` rest on is that `accept` and the deletion of the
invite exclude each other until the commit.

### MemberProfiles

| Theorem | Says |
|---|---|
| `ProfileTypes` | `TypeOK`; in particular no deletion loses a primary member |
| `ProfilesKeepMembers` | `ProfilesHaveMembers` |
| `ProfileErrorsExplained` | `ErrorsExplained` |
| `ProfileTakenAlong` | `TakenAlong` |

`ProfilesInv` has three parts besides the properties themselves:

- `Own(r)`: what a request has written tells what the committed rows are until it
  commits.  A deleted member is still there, its profile is deleted with it or
  does not exist, an inserted profile has its member and no rival;
- `Apart(q, r)`: an insertion of the profile excludes the deletion of the member
  and another insertion, a deletion excludes another, the creation of a member
  excludes any request that has found it;
- `Cause(r)`: what a request has found stays, or has gone with the member (for
  `ErrorsExplained`).

### FamilyTables and ChildRecords

| Theorem | Says |
|---|---|
| `TablesStayConsistent` | any history of whole operations keeps `TablesConsistent` |
| `RecordsInvariant` | the inductive invariant `RecordsInv` always holds |
| `RecordsImplementTables` | `ImplementsTables`: the statements, in any interleaving, implement the whole operations |
| `RecordsConsistent` | so every committed state is consistent |
| `RecordsStayInFamily` | `NeverCrossesFamilies` |
| `RecordsErrorsExplained` | `ErrorsExplained` |
| `RecordsNoDeadlock` | `NoDeadlock` |
| `RecordsTypeOK` | `TypeOK` |

`TablesConsistent` is inductive as it stands, given the types.  For the statements
`RecordsInv` adds `Shape`, `Names`, `Found` and `Locked` as in `Membership`, `Alone`
(a request nobody disturbs still has what it found, for `ErrorsExplained`) and
`Apart`: no two have changed one row, nobody has deleted a row another one refers
to, and what one is creating no other has met.  A commit is then one operation of
`FamilyTables`, because all of its guard is among what the request holds fast;
the lemmas of `FamilyTables_proofs` about those operations give the consistency
of the result.  `NoDeadlock` follows from the order of the statements: whoever
is waited for has written, and whoever has written waits for nobody who waits.

### ContextBundle

| Theorem | Says |
|---|---|
| `BundleInvariant` | the inductive invariant `BundleInv` always holds |
| `BundleInventsNothing` | `NothingInvented` |
| `BundleMissesNothing` | `NothingMissed` |
| `TablesUnderLoadConsistent` | `TablesConsistent` of the tables the loader reads |
| `BundleTypeOK` | `TypeOK` |

`BundleInv` has three parts.  `Histories`: what the loader may have met is of its
family or gone, since no id is drawn twice, and a profile that stood throughout
had its owner throughout.  `Session`: every object, stale ones included, was loaded
from a fact of the family.  `Covered`: what has stood all along is in the bundle
once its list has been read, and its profile has come with the object or is in
`fresh`.  The last is where the proof would fail for a loader that only refreshes
rows it knows: a profile is fetched with the first statement that brings its
owner, so the second list need not fetch it again.

### RowUpdates

| Theorem | Says |
|---|---|
| `UpdatesInvariant` | the inductive invariant `UpdatesInv` always holds |
| `UpdatesTypeOK` | `TypeOK`; no NOT NULL column is committed as NULL |
| `OthersFieldsAreKept` | `OnlyAskedFieldsChange` |
| `AskedValuesAreCommitted` | `AskedValuesHeld` |
| `AnswersAreCommitted` | `AnswerIsCommitted` |
| `UpdateErrorsExplained` | `ErrorsExplained` |

`Own(r)` says what the copy of the row is worth where the request is, and that what
it has written is the new row or the columns in which the body differs from the
copy (`Written`).  `Apart`: at most one request has uncommitted columns, which is
what makes the answer, read back before the commit, the row that is committed.

### RequestLifecycle

| Theorem | Says |
|---|---|
| `LifecycleInvariant` | the inductive invariant `LifecycleInv` always holds |
| `LifecycleTypeOK` | `TypeOK`: neither pool is overdrawn |
| `EverythingIsGivenBack` | `EverythingComesBack` |
| `FiveHundredLeavesNothing` | `FiveHundredIsOver` |

`Keeps(r)` says what a request may have at each place between arrival and answer;
besides, whoever holds a row's lock has a live connection, and the pools are
finite, so that their size counts (`FiniteSetTheorems`).

### Only model-checked

- Liveness: `EveryRequestCloses` (of `RefreshTokens`, `Membership` and
  `MemberProfiles`) and `EveryRequestAnswered` are temporal properties under strong
  fairness, and `ENABLED` is out of the prover's reach.
- `OneTimeUse` is refuted by a run; what is proved is `OneTimeUseWhenSerial` and,
  beneath a browser, `ForksNeedAnAccident`.

## 5. Findings

`RefreshOneTimeUse` shows a disagreement between a docstring and the code:
*one-time use* (`services/refresh.py:3`).  `rotate` reads without a lock and
consumes by primary key.  Two overlapping exchanges of one token both succeed
and leave two live successors; reuse detection sees neither.  What does hold:
`ForksAreConcurrent`, `OneTimeUseWhenSerial`, and `ForksNeedAnAccident`.

The models show more of the kind.  Where a checked property is the sentence with
the exception it needs, it is named:

- *Revokes the whole lineage* (`services/auth.py:128`): a token inserted by an
  exchange that overlaps `revoke_session` survives it (`SealedStaysDead`).
- *Revoke ... and clear the cookie* (`routers/auth.py:109`): a logout sent after
  the answer that brought its token and before that answer's commit finds no row,
  answers 204, and the token becomes live (`LogoutEndsSession`, `early`).  Likewise
  a refresh sent that soon gets a 401.
- *Set once, enforcing single use* (`db/models/family.py:177`): two overlapping
  signups with one code both join (`SharedInviteIsConcurrent`).
- *No handled error leaves a partial write* (`providers.py:83`): the 401 for a
  reused token commits the revocation, and has to: the mutant that rolls it back
  breaks `SealedStaysDead`.
- *Hard cap on a session* (`config.py:50`): each exchange starts a full
  `refresh_ttl_seconds`, so a lineage in use never ends.
- *unique-email race* (`services/member.py:58`): the except clause catches every
  `IntegrityError`; an unknown family id is answered as an email conflict.
- *Validate ... at the edge* (`schemas.py:3`): the update bodies declare columns
  that are NOT NULL as nullable; an explicit null passes and ends in a 500
  (`ErrorsExplained` of `RowUpdates`).  In the PUT that inserts a 1:1 row, null
  asks for the default instead.
- *Modeled for schema fidelity, no endpoints* (`db/models/child.py:114`): both
  faces write `reading_history`; and a child with history cannot be deleted, the
  answer is a 500 (`ErrorsExplained` of `ChildRecords`).
- *Echoes it on the response* (`middleware.py:3`): a 500 is made outside
  `dispatch`, so it has no `X-Request-Id` and its log line no id
  (`RequestLifecycle`, `Unwind` before `SendError`).
- *Verify the DB is reachable* (`main.py:112`): `_check_db` takes the timeout of
  its own pool for an unreachable database (`PoolTimeout`).  `healthz` is a
  synchronous endpoint and waits for a worker thread like any other.
- Nothing says so, but the engine's pool must be no larger than the limit of worker
  threads (`db/base.py:54`).  With two connections and one thread the instance of
  `LifecyclePools` has a wait no timeout ends: a request has its row's lock and
  waits for the thread to validate its answer, and the thread is with a request
  that waits for that lock.  Raising `pool_size` alone would get there.
- The refresh cookie is written under `settings.refresh_cookie_name` and read
  under the fixed name `refresh_token` (`routers/auth.py:88`).
- A login that is answered and then not committed leaves a member with a valid
  access token and no row that keeps it from being deleted, so "the member has
  been deleted since" is a reachable case for `/auth/me`.
- A bundle can hold a policy that names a child it does not list: each list is
  true of a moment of its own, `NothingInvented` promises no more.

## 6. Not modelled

- `revoke_all_for_member`: nothing calls it.
- sqlite, which tests and local development use: it serialises writers, so the
  races above do not occur there.
- Password hashing, JWT signatures, the reading of key files, the validation of
  single fields, the format of logs and envelopes: pure functions or input and
  output.
- The GET endpoints other than the context bundle: one or two SELECTs that change
  nothing and relate nothing.
- In `ContextBundle`, that a policy brings its child into the session: the child's
  profile is then read somewhat earlier than in the model, inside the same load.
- Settings and startup: read once; `init_db` is run out of band.
- The values of columns outside `RowUpdates`, and there the types of columns.

## 7. Plan

Every safety property a run checks is proved for all values of the constants.
Liveness stays with TLC (section 4).  What further work could take up:

1. a `refresh_token` row of `RefreshTokens` refers to a member that `Membership`
   can delete.  The deletion is refused while the member has a row, also a dead
   one; a composition of the two would say so of whole lineages;
2. `BrowserSession` has one browser.  With two, each with a jar of its own, the
   accidents of one should excuse nothing in the sessions of the other; the parts
   of `BrowserInv` already speak of one session at a time.

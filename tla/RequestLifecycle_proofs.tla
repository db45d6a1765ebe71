---------------------- MODULE RequestLifecycle_proofs ----------------------
(***************************************************************************)
(* Proofs about RequestLifecycle, for any number of requests and rows and  *)
(* pools of any size.                                                      *)
(*                                                                         *)
(* The invariant says of each request what its place between arrival and   *)
(* answer lets it have (Keeps), whose connection holds each lock, and that *)
(* the pools are finite, so that one more or less in use counts.           *)
(***************************************************************************)
EXTENDS RequestLifecycle, FiniteSetTheorems, TLAPS

\* Places where a service may have a connection, its statements done.
AfterStatements ==
    {"return", "refused", "failed", "serialize", "validate", "respond", "close", "unwind", "rollback"}

\* A service keeps its connection until its scope closes, a probe only for
\* its statement.
Keeps(r) ==
    /\ pc[r] = "idle" <=> job[r].kind = "none"
    /\ pc[r] \in {"connect", "execute", "finish"} => job[r].kind \in {"service", "readyz"}
    /\ r \in threads => pc[r] \in OnThread
    /\ pc[r] \in {"execute", "finish"} => r \in conns
    /\ r \in conns
       => \/ pc[r] \in {"execute", "finish"}
          \/ pc[r] \in AfterStatements /\ job[r].kind = "service"
    /\ r \in inside => pc[r] \notin {"idle", "close", "rollback", "error"}

LifecycleInv ==
    /\ TypeOK
    /\ IsFiniteSet(threads) /\ IsFiniteSet(conns)
    /\ \A x \in Rows : locks[x] # NoRequest => locks[x] \in conns \ dead
    /\ \A r \in Requests : Keeps(r)

\* Whatever is said of one request can be unfolded at once.
LEMMA InvAt ==
    ASSUME LifecycleInv, NEW r \in Requests
    PROVE  /\ TypeOK /\ Keeps(r) /\ pc[r] \in PCs /\ job[r] \in Job
           /\ pc \in [Requests -> PCs] /\ job \in [Requests -> Job]
           /\ job[r].kind \in {"none", "service", "healthz", "readyz"}
BY LifecycleOK DEF LifecycleInv, TypeOK, Job

\* A pool with one more in use is over its size only if it was full.
LEMMA PoolGrows ==
    ASSUME NEW S, IsFiniteSet(S), NEW N \in Nat, Cardinality(S) < N, NEW r
    PROVE  IsFiniteSet(S \cup {r}) /\ Cardinality(S \cup {r}) <= N
<1>1. Cardinality(S) \in Nat
    BY FS_CardinalityType
<1>2. /\ IsFiniteSet(S \cup {r})
      /\ Cardinality(S \cup {r}) = IF r \in S THEN Cardinality(S) ELSE Cardinality(S) + 1
    BY FS_AddElement
<1>. QED BY <1>1, <1>2

\* One less in use is within it.
LEMMA PoolShrinks ==
    ASSUME NEW S, IsFiniteSet(S), NEW N \in Nat, Cardinality(S) <= N, NEW r
    PROVE  IsFiniteSet(S \ {r}) /\ Cardinality(S \ {r}) <= N
<1>1. Cardinality(S) \in Nat
    BY FS_CardinalityType
<1>2. /\ IsFiniteSet(S \ {r})
      /\ Cardinality(S \ {r}) = IF r \in S THEN Cardinality(S) - 1 ELSE Cardinality(S)
    BY FS_RemoveElement
<1>. QED BY <1>1, <1>2

-----------------------------------------------------------------------------
(* A step of r.                                                            *)

\* The other requests are left as they are.
Only(r) ==
    \A q \in Requests \ {r} :
        /\ pc'[q] = pc[q] /\ job'[q] = job[q]
        /\ (q \in threads' <=> q \in threads) /\ (q \in conns' <=> q \in conns)
        /\ (q \in dead' <=> q \in dead) /\ (q \in inside' <=> q \in inside)

\* So a step of r has to establish what it says of r, of the pools and of
\* the locks.
LEMMA OwnStep ==
    ASSUME LifecycleInv, NEW r \in Requests, TypeOK', Only(r), Keeps(r)',
           IsFiniteSet(threads'), IsFiniteSet(conns'),
           \A x \in Rows : locks'[x] # NoRequest => locks'[x] \in conns' \ dead'
    PROVE  LifecycleInv'
<1>1. ASSUME NEW q \in Requests
      PROVE  Keeps(q)'
    <2>1. CASE q = r
        BY <2>1
    <2>2. CASE q # r
        BY <2>2, InvAt DEF Only, Keeps
    <2>. QED BY <2>1, <2>2
<1>. QED BY <1>1 DEF LifecycleInv

\* r goes to the label l with the local state j.
Moves(r, j, l) == pc' = [pc EXCEPT ![r] = l] /\ job' = [job EXCEPT ![r] = j]

\* Nobody else goes anywhere.
LEMMA MoveShape ==
    ASSUME LifecycleInv, NEW r \in Requests, NEW j \in Job, NEW l \in PCs, Moves(r, j, l)
    PROVE  /\ pc' \in [Requests -> PCs] /\ job' \in [Requests -> Job] /\ pc'[r] = l /\ job'[r] = j
           /\ \A q \in Requests \ {r} : pc'[q] = pc[q] /\ job'[q] = job[q]
BY InvAt DEF Moves

\* What it has of the pools and locks stays as it is.
LEMMA PlainStep ==
    ASSUME LifecycleInv, NEW r \in Requests, NEW j \in Job, NEW l \in PCs, Moves(r, j, l),
           UNCHANGED <<held, up>>, inside' \in {inside, inside \cup {r}, inside \ {r}}, Keeps(r)'
    PROVE  LifecycleInv'
<1>1. /\ pc' \in [Requests -> PCs] /\ job' \in [Requests -> Job]
      /\ \A q \in Requests \ {r} : pc'[q] = pc[q] /\ job'[q] = job[q]
    BY MoveShape
<1>2. inside' \subseteq Requests /\ \A q \in Requests \ {r} : q \in inside' <=> q \in inside
    BY DEF LifecycleInv, TypeOK
<1>3. /\ threads' = threads /\ conns' = conns /\ locks' = locks /\ dead' = dead /\ up' = up
    BY DEF held
<1>4. TypeOK'
    BY <1>1, <1>2, <1>3 DEF LifecycleInv, TypeOK
<1>5. Only(r)
    BY <1>1, <1>2, <1>3 DEF Only
<1>. QED BY <1>3, <1>4, <1>5, OwnStep DEF LifecycleInv

\* It gives back what it has of them.
LEMMA EndStep ==
    ASSUME LifecycleInv, NEW r \in Requests, NEW j \in Job, NEW l \in PCs, Moves(r, j, l),
           EndSession(r), UNCHANGED <<threads, up, inside>>,
           l \notin {"execute", "finish"},
           l = "idle" <=> j.kind = "none",
           l = "connect" => j.kind \in {"service", "readyz"},
           r \in threads => l \in OnThread,
           r \in inside => l \notin {"idle", "close", "rollback", "error"}
    PROVE  LifecycleInv'
<1>1. /\ pc' \in [Requests -> PCs] /\ job' \in [Requests -> Job] /\ pc'[r] = l /\ job'[r] = j
      /\ \A q \in Requests \ {r} : pc'[q] = pc[q] /\ job'[q] = job[q]
    BY MoveShape
<1>2. /\ conns' = conns \ {r} /\ dead' = dead \ {r}
      /\ locks' = [x \in Rows |-> IF locks[x] = r THEN NoRequest ELSE locks[x]]
      /\ threads' = threads /\ up' = up /\ inside' = inside
    BY DEF EndSession
<1>3. IsFiniteSet(conns') /\ Cardinality(conns') <= Connections
    BY <1>2, PoolShrinks, LifecycleOK DEF LifecycleInv, TypeOK
<1>4. TypeOK'
    BY <1>1, <1>2, <1>3 DEF LifecycleInv, TypeOK
<1>5. Only(r)
    BY <1>1, <1>2 DEF Only
<1>6. \A x \in Rows : locks'[x] # NoRequest => locks'[x] \in conns' \ dead'
    BY <1>2 DEF LifecycleInv
<1>7. Keeps(r)'
    BY <1>1, <1>2 DEF Keeps
<1>. QED BY <1>2, <1>3, <1>4, <1>5, <1>6, <1>7, OwnStep DEF LifecycleInv

-----------------------------------------------------------------------------
(* The steps, one by one.                                                  *)

\* A request arrives with nothing.
LEMMA ArriveStep ==
    ASSUME LifecycleInv, NEW r \in Requests, Arrive(r)
    PROVE  LifecycleInv'
<1>1. PICK k \in Kinds, l \in {"thread", "settings"} : job' = [job EXCEPT ![r].kind = k] /\ Goto(r, l)
    BY DEF Arrive
<1>. DEFINE j == [job[r] EXCEPT !.kind = k]
<1>2. /\ pc[r] = "idle" /\ Moves(r, j, l) /\ UNCHANGED <<held, up>>
      /\ inside' = inside \cup {r}
    BY <1>1 DEF Arrive, Moves, Goto
<1>3. j \in Job /\ j.kind # "none" /\ l \in PCs
    BY LifecycleOK, InvAt DEF Job, PCs, Queued
<1>. HIDE DEF j
<1>4. pc'[r] = l /\ job'[r] = j /\ threads' = threads /\ conns' = conns
    BY <1>2, <1>3, MoveShape DEF held
<1>5. r \notin threads /\ r \notin conns
    BY <1>2, InvAt DEF Keeps, OnThread, AfterStatements
<1>6. Keeps(r)'
    BY <1>3, <1>4, <1>5 DEF Keeps
<1>. QED BY <1>2, <1>3, <1>6, PlainStep

\* A request that goes on with another row to lock.
LEMMA RowType ==
    ASSUME LifecycleInv, NEW r \in Requests, NEW x \in Rows \cup {NoRow}, NEW l \in PCs,
           Goto(r, l), Locking(r, x)
    PROVE  \E j \in Job : Moves(r, j, l) /\ j.kind = job[r].kind
<1>. DEFINE j == [job[r] EXCEPT !.row = x]
<1>1. j \in Job /\ j.kind = job[r].kind
    BY InvAt DEF Job
<1>2. job' = [job EXCEPT ![r] = j]
    BY DEF Locking
<1>. HIDE DEF j
<1>. QED BY <1>1, <1>2 DEF Moves, Goto

\* One that goes on as it is.
LEMMA SameJob ==
    ASSUME LifecycleInv, NEW r \in Requests, NEW l, Goto(r, l), job' = job
    PROVE  Moves(r, job[r], l) /\ job[r] \in Job
BY InvAt DEF Moves, Goto

\* An expected error comes before the first statement.
LEMMA RefuseStep ==
    ASSUME LifecycleInv, NEW r \in Requests, Refuse(r)
    PROVE  LifecycleInv'
<1>1. PICK l \in {"respond", "refused"} :
        /\ Goto(r, l) /\ UNCHANGED <<job, held, up, inside>> /\ job[r].kind = "service"
        /\ IF l = "respond" THEN pc[r] \in {"settings", "thread"} ELSE pc[r] = "connect"
    BY DEF Refuse
<1>2. l \in PCs /\ Moves(r, job[r], l) /\ job[r] \in Job
    BY <1>1, SameJob DEF PCs, OnThread
<1>3. pc'[r] = l /\ job'[r] = job[r] /\ threads' = threads /\ conns' = conns /\ inside' = inside
    BY <1>1, <1>2, MoveShape DEF held
<1>4. Keeps(r)'
    BY <1>1, <1>3, InvAt DEF Keeps, OnThread, AfterStatements
<1>. QED BY <1>1, <1>2, <1>4, PlainStep

\* There is a thread left for it.
LEMMA TakeThreadStep ==
    ASSUME LifecycleInv, NEW r \in Requests, TakeThread(r)
    PROVE  LifecycleInv'
<1>1. PICK l \in {"guard", "return", "connect", "validate"} :
        /\ Cardinality(threads) < Threads /\ threads' = threads \cup {r} /\ Goto(r, l)
        /\ pc[r] = CASE l = "guard" -> "settings" [] l = "validate" -> "serialize" [] OTHER -> "thread"
        /\ l = "connect" => job[r].kind # "healthz"
        /\ UNCHANGED <<job, conns, locks, dead, up, inside>>
    BY DEF TakeThread
<1>2. l \in PCs /\ job[r] \in Job /\ Moves(r, job[r], l)
    BY <1>1, SameJob DEF PCs, OnThread
<1>3. /\ pc' \in [Requests -> PCs] /\ job' \in [Requests -> Job] /\ pc'[r] = l
      /\ job'[r] = job[r] /\ \A q \in Requests \ {r} : pc'[q] = pc[q] /\ job'[q] = job[q]
    BY <1>2, MoveShape
<1>4. IsFiniteSet(threads') /\ Cardinality(threads') <= Threads
    BY <1>1, PoolGrows, LifecycleOK DEF LifecycleInv
<1>5. TypeOK'
    BY <1>1, <1>3, <1>4 DEF LifecycleInv, TypeOK
<1>6. Only(r)
    BY <1>1, <1>3 DEF Only
<1>7. job[r].kind # "none"
    BY <1>1, InvAt DEF Keeps
<1>8. Keeps(r)'
    BY <1>1, <1>3, <1>7, InvAt DEF Keeps, OnThread, AfterStatements
<1>. QED BY <1>1, <1>4, <1>5, <1>6, <1>8, OwnStep DEF LifecycleInv

\* After an error a service keeps its session till its scope closes, a probe
\* has closed its own.
LEMMA RaiseStep ==
    ASSUME LifecycleInv, NEW r \in Requests, Raise(r), pc[r] \in {"connect", "execute", "finish"}
    PROVE  LifecycleInv'
<1>1. "return" \in PCs /\ "failed" \in PCs
    BY DEF PCs, OnThread
<1>2. CASE job[r].kind = "readyz"
    <2>1. /\ Goto(r, "return") /\ Locking(r, NoRow) /\ EndSession(r)
          /\ UNCHANGED <<threads, up, inside>>
        BY <1>2 DEF Raise
    <2>2. PICK j \in Job : Moves(r, j, "return") /\ j.kind = job[r].kind
        BY <1>1, <2>1, RowType
    <2>. QED BY <1>1, <1>2, <2>1, <2>2, EndStep DEF OnThread
<1>3. CASE job[r].kind # "readyz"
    <2>1. /\ Goto(r, "failed") /\ Locking(r, NoRow) /\ UNCHANGED <<held, up>>
          /\ inside' = inside
        BY <1>3 DEF Raise, KeepSession, held
    <2>2. PICK j \in Job : Moves(r, j, "failed") /\ j.kind = job[r].kind
        BY <1>1, <2>1, RowType
    <2>3. pc'[r] = "failed" /\ job'[r] = j /\ threads' = threads /\ conns' = conns
        BY <1>1, <2>1, <2>2, MoveShape DEF held
    <2>4. job[r].kind = "service"
        BY <1>3, InvAt DEF Keeps
    <2>5. Keeps(r)'
        BY <2>1, <2>2, <2>3, <2>4, InvAt DEF Keeps, OnThread, AfterStatements
    <2>. QED BY <1>1, <2>1, <2>2, <2>5, PlainStep
<1>. QED BY <1>2, <1>3

\* There is a connection left for it.
LEMMA ConnectStep ==
    ASSUME LifecycleInv, NEW r \in Requests, Connect(r)
    PROVE  LifecycleInv'
<1>1. pc[r] = "connect" /\ Cardinality(conns) < Connections
    BY DEF Connect
<1>2. CASE up
    <2>1. PICK y \in Rows \cup {NoRow} :
            /\ conns' = conns \cup {r} /\ Goto(r, "execute") /\ Locking(r, y)
            /\ UNCHANGED <<threads, locks, dead, up, inside>>
        BY <1>2 DEF Connect
    <2>2. "execute" \in PCs /\ \E j \in Job : Moves(r, j, "execute") /\ j.kind = job[r].kind
        BY <2>1, RowType DEF PCs, OnThread
    <2>3. /\ pc' \in [Requests -> PCs] /\ job' \in [Requests -> Job] /\ pc'[r] = "execute"
          /\ job'[r].kind = job[r].kind /\ \A q \in Requests \ {r} : pc'[q] = pc[q] /\ job'[q] = job[q]
        BY <2>2, MoveShape
    <2>4. IsFiniteSet(conns') /\ Cardinality(conns') <= Connections
        BY <1>1, <2>1, PoolGrows, LifecycleOK DEF LifecycleInv
    <2>5. TypeOK'
        BY <2>1, <2>3, <2>4 DEF LifecycleInv, TypeOK
    <2>6. Only(r)
        BY <2>1, <2>3 DEF Only
    <2>7. \A x \in Rows : locks'[x] # NoRequest => locks'[x] \in conns' \ dead'
        BY <2>1 DEF LifecycleInv
    <2>8. Keeps(r)'
        BY <1>1, <2>1, <2>3, InvAt DEF Keeps, OnThread
    <2>. QED BY <2>1, <2>4, <2>5, <2>6, <2>7, <2>8, OwnStep DEF LifecycleInv
<1>3. CASE ~up
    BY <1>1, <1>3, RaiseStep DEF Connect
<1>. QED BY <1>2, <1>3

\* The lock is taken over a connection that is open.
LEMMA ExecuteStep ==
    ASSUME LifecycleInv, NEW r \in Requests, Execute(r)
    PROVE  LifecycleInv'
<1>1. /\ pc[r] = "execute" /\ r \notin dead /\ Goto(r, "finish") /\ Locking(r, NoRow)
      /\ UNCHANGED <<threads, conns, dead, up, inside>>
    BY DEF Execute
<1>2. r \in conns
    BY <1>1, InvAt DEF Keeps
<1>3. /\ locks' \in [Rows -> Requests \cup {NoRequest}]
      /\ \A x \in Rows : locks'[x] = locks[x] \/ locks'[x] = r
    <2>1. locks \in [Rows -> Requests \cup {NoRequest}]
        BY DEF LifecycleInv, TypeOK
    <2>. QED BY <2>1 DEF Execute
<1>4. "finish" \in PCs /\ \E j \in Job : Moves(r, j, "finish") /\ j.kind = job[r].kind
    BY <1>1, RowType DEF PCs, OnThread
<1>5. /\ pc' \in [Requests -> PCs] /\ job' \in [Requests -> Job] /\ pc'[r] = "finish"
      /\ job'[r].kind = job[r].kind /\ \A q \in Requests \ {r} : pc'[q] = pc[q] /\ job'[q] = job[q]
    BY <1>4, MoveShape
<1>6. TypeOK'
    BY <1>1, <1>3, <1>5 DEF LifecycleInv, TypeOK
<1>7. Only(r)
    BY <1>1, <1>5 DEF Only
<1>8. \A x \in Rows : locks'[x] # NoRequest => locks'[x] \in conns' \ dead'
    BY <1>1, <1>2, <1>3 DEF LifecycleInv
<1>9. Keeps(r)'
    BY <1>1, <1>5, InvAt DEF Keeps, OnThread
<1>. QED BY <1>1, <1>6, <1>7, <1>8, <1>9, OwnStep DEF LifecycleInv

\* The connection is lost, or the service fails.
LEMMA BreakStep ==
    ASSUME LifecycleInv, NEW r \in Requests, Break(r)
    PROVE  LifecycleInv'
BY RaiseStep DEF Break

\* The endpoint is done: a service keeps its session, a probe does not.
LEMMA FinishStep ==
    ASSUME LifecycleInv, NEW r \in Requests, Finish(r)
    PROVE  LifecycleInv'
<1>1. PICK l \in {"return", "refused"} :
        pc[r] = "finish" /\ Goto(r, l) /\ UNCHANGED <<job, threads, up, inside>>
    BY DEF Finish
<1>2. l \in PCs /\ Moves(r, job[r], l) /\ job[r] \in Job
    BY <1>1, SameJob DEF PCs, OnThread
<1>3. CASE job[r].kind = "readyz"
    <2>1. EndSession(r)
        BY <1>3 DEF Finish
    <2>. QED BY <1>1, <1>2, <1>3, <2>1, EndStep DEF OnThread
<1>4. CASE job[r].kind # "readyz"
    <2>1. UNCHANGED <<held, up>> /\ inside' = inside
        BY <1>1, <1>4 DEF Finish, KeepSession, held
    <2>2. pc'[r] = l /\ job'[r] = job[r] /\ threads' = threads /\ conns' = conns
        BY <1>2, <2>1, MoveShape DEF held
    <2>3. job[r].kind = "service"
        BY <1>1, <1>4, InvAt DEF Keeps
    <2>4. Keeps(r)'
        BY <1>1, <2>1, <2>2, <2>3, InvAt DEF Keeps, OnThread, AfterStatements
    <2>. QED BY <1>2, <2>1, <2>4, PlainStep
<1>. QED BY <1>3, <1>4

\* The thread goes back.
LEMMA LeaveThreadStep ==
    ASSUME LifecycleInv, NEW r \in Requests, HasSettings(r) \/ Return(r) \/ Validated(r)
    PROVE  LifecycleInv'
<1>1. PICK l \in {"thread", "serialize", "respond", "unwind"} :
        /\ pc[r] \in {"guard", "return", "refused", "failed", "validate"}
        /\ l = "thread" => pc[r] = "guard"
        /\ l = "serialize" => job[r].kind # "readyz"
        /\ pc[r] = "guard" => l = "thread"
        /\ LeaveThread(r, l)
    BY DEF HasSettings, Return, Validated
<1>2. l \in PCs /\ job[r] \in Job /\ Moves(r, job[r], l) /\ threads' = threads \ {r}
      /\ UNCHANGED <<job, conns, locks, dead, up, inside>>
    BY <1>1, SameJob DEF PCs, Queued, LeaveThread
<1>3. /\ pc' \in [Requests -> PCs] /\ job' \in [Requests -> Job] /\ pc'[r] = l
      /\ job'[r] = job[r] /\ \A q \in Requests \ {r} : pc'[q] = pc[q] /\ job'[q] = job[q]
    BY <1>2, MoveShape
<1>4. IsFiniteSet(threads') /\ Cardinality(threads') <= Threads
    BY <1>2, PoolShrinks, LifecycleOK DEF LifecycleInv, TypeOK
<1>5. TypeOK'
    BY <1>2, <1>3, <1>4 DEF LifecycleInv, TypeOK
<1>6. Only(r)
    BY <1>2, <1>3 DEF Only
<1>7. Keeps(r)'
    BY <1>1, <1>2, <1>3, InvAt DEF Keeps, AfterStatements
<1>. QED BY <1>2, <1>4, <1>5, <1>6, <1>7, OwnStep DEF LifecycleInv

\* Out of dispatch the context variable is as it was.
LEMMA LeaveStep ==
    ASSUME LifecycleInv, NEW r \in Requests, Respond(r) \/ Unwind(r)
    PROVE  LifecycleInv'
<1>1. PICK l \in {"close", "rollback"} :
        /\ pc[r] \in {"respond", "unwind"} /\ (l = "close" => pc[r] = "respond")
        /\ inside' = inside \ {r} /\ Goto(r, l) /\ UNCHANGED <<job, held, up>>
    BY DEF Respond, Unwind
<1>2. l \in PCs /\ job[r] \in Job /\ Moves(r, job[r], l)
    BY <1>1, InvAt DEF PCs, Moves, Goto
<1>3. pc'[r] = l /\ job'[r] = job[r] /\ threads' = threads /\ conns' = conns
    BY <1>1, <1>2, MoveShape DEF held
<1>4. Keeps(r)'
    BY <1>1, <1>3, InvAt DEF Keeps, OnThread, AfterStatements
<1>. QED BY <1>1, <1>2, <1>4, PlainStep

\* The slot is free for another request.
LEMMA NoJobType == NoJob \in Job /\ NoJob.kind = "none"
BY DEF NoJob, Job

\* The scope closes, with an error or without: the session is over.
LEMMA ScopeCloseStep ==
    ASSUME LifecycleInv, NEW r \in Requests, Close(r) \/ Rollback(r)
    PROVE  LifecycleInv'
<1>1. r \notin threads /\ r \notin inside
    BY InvAt DEF Keeps, OnThread, Close, Rollback
<1>2. CASE Close(r)
    <2>1. Moves(r, NoJob, "idle") /\ EndSession(r) /\ UNCHANGED <<threads, up, inside>>
        BY <1>2 DEF Close, Moves, Goto
    <2>. QED BY <1>1, <2>1, NoJobType, EndStep DEF PCs
<1>3. CASE Rollback(r)
    <2>1. /\ Moves(r, job[r], "error") /\ EndSession(r) /\ UNCHANGED <<threads, up, inside>>
          /\ pc[r] = "rollback" /\ job[r] \in Job
        BY <1>3, InvAt DEF Rollback, Moves, Goto
    <2>2. job[r].kind # "none"
        BY <2>1, InvAt DEF Keeps
    <2>. QED BY <1>1, <2>1, <2>2, EndStep DEF PCs
<1>. QED BY <1>2, <1>3

\* The last to go out is the answer to an unhandled error.
LEMMA SendErrorStep ==
    ASSUME LifecycleInv, NEW r \in Requests, SendError(r)
    PROVE  LifecycleInv'
<1>1. /\ pc[r] = "error" /\ Moves(r, NoJob, "idle") /\ UNCHANGED <<held, up>>
      /\ inside' = inside /\ "idle" \in PCs
    BY DEF SendError, Moves, Goto, PCs
<1>2. r \notin threads /\ r \notin conns /\ r \notin inside
    BY <1>1, InvAt DEF Keeps, OnThread, AfterStatements
<1>3. pc'[r] = "idle" /\ job'[r] = NoJob /\ threads' = threads /\ conns' = conns
    BY <1>1, NoJobType, MoveShape DEF held
<1>4. Keeps(r)'
    BY <1>1, <1>2, <1>3, NoJobType DEF Keeps
<1>. QED BY <1>1, <1>4, NoJobType, PlainStep

\* PostgreSQL lets go of every lock when it stops; that it starts again
\* brings none back.
LEMMA ServerStep ==
    ASSUME LifecycleInv, Crash \/ Restart \/ UNCHANGED vars
    PROVE  LifecycleInv'
<1>1. /\ pc' = pc /\ job' = job /\ threads' = threads /\ conns' = conns /\ inside' = inside
      /\ up' \in BOOLEAN
    BY DEF Crash, Restart, vars, held, LifecycleInv, TypeOK
<1>2. \/ dead' = conns /\ locks' = [x \in Rows |-> NoRequest]
      \/ dead' = dead /\ locks' = locks
    BY DEF Crash, Restart, vars, held
<1>3. TypeOK'
    BY <1>1, <1>2 DEF LifecycleInv, TypeOK
<1>4. \A x \in Rows : locks'[x] # NoRequest => locks'[x] \in conns' \ dead'
    BY <1>1, <1>2 DEF LifecycleInv
<1>5. \A r \in Requests : Keeps(r)'
    BY <1>1 DEF LifecycleInv, Keeps
<1>. QED BY <1>1, <1>3, <1>4, <1>5 DEF LifecycleInv

-----------------------------------------------------------------------------
(* The invariant and what follows from it.                                 *)

\* The pools are untouched at the start.
LEMMA LifecycleInit == Init => LifecycleInv
<1>. SUFFICES ASSUME Init
              PROVE  LifecycleInv
    OBVIOUS
<1>1. IsFiniteSet({}) /\ Cardinality({}) = 0
    BY FS_EmptySet
<1>2. TypeOK
    BY <1>1, NoJobType, LifecycleOK DEF Init, TypeOK, PCs
<1>3. \A r \in Requests : Keeps(r)
    BY NoJobType DEF Init, Keeps
<1>. QED BY <1>1, <1>2, <1>3 DEF LifecycleInv, Init

\* Every step keeps the invariant.
LEMMA LifecycleNext == LifecycleInv /\ [Next]_vars => LifecycleInv'
<1>. SUFFICES ASSUME LifecycleInv, [Next]_vars
              PROVE  LifecycleInv'
    OBVIOUS
<1>1. CASE Crash \/ Restart \/ UNCHANGED vars
    BY <1>1, ServerStep
<1>2. ASSUME NEW r \in Requests, Arrive(r) \/ Refuse(r) \/ PoolTimeout(r)
      PROVE  LifecycleInv'
    BY <1>2, ArriveStep, RefuseStep, RaiseStep DEF PoolTimeout
<1>3. ASSUME NEW r \in Requests, Serve(r)
      PROVE  LifecycleInv'
    BY <1>3, TakeThreadStep, ConnectStep, ExecuteStep, BreakStep, FinishStep, LeaveThreadStep,
       LeaveStep, ScopeCloseStep, SendErrorStep DEF Serve
<1>. QED BY <1>1, <1>2, <1>3 DEF Next

\* In every reachable state each request has what its place lets it have.
THEOREM LifecycleInvariant == Spec => []LifecycleInv
BY LifecycleInit, LifecycleNext, PTL DEF Spec

\* Neither pool is ever overdrawn.
THEOREM LifecycleTypeOK == Spec => []TypeOK
<1>1. LifecycleInv => TypeOK
    BY DEF LifecycleInv
<1>. QED BY <1>1, LifecycleInvariant, PTL

\* No way out of a request leaves a lock, a connection, a thread or a
\* correlation id behind.
THEOREM EverythingIsGivenBack == Spec => []EverythingComesBack
<1>1. LifecycleInv => EverythingComesBack
    <2>. SUFFICES ASSUME LifecycleInv
                  PROVE  EverythingComesBack
        OBVIOUS
    <2>1. conns \subseteq Requests /\ threads \subseteq Requests /\ inside \subseteq Requests
        BY DEF LifecycleInv, TypeOK
    <2>2. \A r \in conns :
            Busy(r) /\ (pc[r] \in {"serialize", "validate", "respond", "close"} => job[r].kind = "service")
        BY <2>1, InvAt DEF Keeps, Busy, AfterStatements
    <2>3. \A r \in threads : pc[r] \in OnThread
        BY <2>1, InvAt DEF Keeps
    <2>4. \A r \in inside : pc[r] \notin {"idle", "close", "rollback", "error"}
        BY <2>1, InvAt DEF Keeps
    <2>. QED BY <2>2, <2>3, <2>4 DEF EverythingComesBack, LifecycleInv
<1>. QED BY <1>1, LifecycleInvariant, PTL

\* When the client is told 500 there is nothing left of its request that a
\* retry could wait for.
THEOREM FiveHundredLeavesNothing == Spec => FiveHundredIsOver
<1>1. LifecycleInv
      => \A r \in Requests : SendError(r) =>
            r \notin conns \cup threads /\ \A x \in Rows : locks[x] # r
    <2>. SUFFICES ASSUME LifecycleInv, NEW r \in Requests, SendError(r)
                  PROVE  r \notin conns \cup threads /\ \A x \in Rows : locks[x] # r
        OBVIOUS
    <2>1. r \notin conns /\ r \notin threads
        BY InvAt DEF Keeps, OnThread, AfterStatements, SendError
    <2>2. \A x \in Rows : locks[x] # NoRequest => locks[x] \in conns
        BY DEF LifecycleInv
    <2>. QED BY <2>1, <2>2, LifecycleOK
<1>. QED BY <1>1, LifecycleInvariant, PTL DEF FiveHundredIsOver
=============================================================================

-------------------------- MODULE RequestLifecycle --------------------------
(***************************************************************************)
(* What every request goes through, whatever its handler does: the layers  *)
(* of middleware, the pool of worker threads, the pool of connections, the *)
(* transaction of its scope, the answer.                                   *)
(*                                                                         *)
(*   main.py         create_app: the layers, the probes, the error handlers*)
(*   middleware.py   CorrelationIdMiddleware                               *)
(*   providers.py    the session of a request and its end                  *)
(*   db/base.py      the engine with its pool; session_scope               *)
(*   routers/      service_guard; which endpoints have a response model    *)
(*                                                                         *)
(* From the outside in, the layers are: the handler of unhandled errors,   *)
(* the request scope, CORS, the correlation id, the handlers of expected   *)
(* errors, the endpoint.  (setup_dishka comes last in create_app, and what *)
(* is added later is further out.)  The layers run on the event loop.  All *)
(* endpoints are synchronous, so FastAPI runs each on a worker thread, and *)
(* on one more, taken anew, what goes with it: before it, the synchronous  *)
(* dependency of service_guard; after it, while the session is still open, *)
(* the validation of an answer that has a response model.                  *)
(*                                                                         *)
(* A handler is reduced to what it takes and keeps: at most one row lock,  *)
(* for the other modules model which ones and in what order.               *)
(***************************************************************************)
EXTENDS Naturals, FiniteSets

CONSTANTS
    Requests,    \* requests in flight
    Threads,     \* number of worker threads
    Connections, \* size of the engine's pool, overflow included
    Rows,        \* rows a handler may lock
    Kinds,       \* kinds of requests that arrive
    NoRow, NoRequest

VARIABLES
    pc,          \* how far each request is
    job,         \* what it is, and the row its statement is about to lock
    threads,     \* requests that run on a worker thread
    conns,       \* requests that have a connection
    locks,       \* the request that has each row's lock
    dead,        \* requests whose connection PostgreSQL has closed
    up,          \* whether PostgreSQL is reachable
    inside       \* requests inside dispatch: their correlation id is in the
                 \* context variable, and an answer they make gets the header

vars == <<pc, job, threads, conns, locks, dead, up, inside>>
held == <<threads, conns, locks, dead>>

Job == [kind : {"none"} \cup Kinds, row : Rows \cup {NoRow}]

\* Places in the queue for a worker thread, and places on one.  "refused" is
\* where an expected error is raised, "failed" any other.
Queued == {"settings", "thread", "serialize"}
OnThread == {"guard", "connect", "execute", "finish", "return", "refused", "failed", "validate"}

PCs == {"idle", "respond", "close", "unwind", "rollback", "error"} \cup Queued \cup OnThread

ASSUME LifecycleOK ==
    /\ Threads \in Nat \ {0} /\ Connections \in Nat \ {0}
    /\ Kinds \subseteq {"service", "healthz", "readyz"}
    /\ NoRow \notin Rows /\ NoRequest \notin Requests

TypeOK ==
    /\ pc \in [Requests -> PCs] /\ job \in [Requests -> Job]
    /\ threads \subseteq Requests /\ Cardinality(threads) <= Threads
    /\ conns \subseteq Requests /\ Cardinality(conns) <= Connections
    /\ locks \in [Rows -> Requests \cup {NoRequest}]
    /\ dead \subseteq conns /\ up \in BOOLEAN /\ inside \subseteq Requests

Busy(r) == pc[r] # "idle"
NoJob == [kind |-> "none", row |-> NoRow]

Init ==
    /\ pc = [r \in Requests |-> "idle"] /\ job = [r \in Requests |-> NoJob]
    /\ threads = {} /\ conns = {} /\ locks = [x \in Rows |-> NoRequest]
    /\ dead = {} /\ up = TRUE /\ inside = {}

Goto(r, l) == pc' = [pc EXCEPT ![r] = l]
Locking(r, x) == job' = [job EXCEPT ![r].row = x]

\* The end of a session: its transaction is over and the connection goes back
\* to the pool, whether or not the COMMIT or ROLLBACK has reached the server.
EndSession(r) ==
    /\ conns' = conns \ {r} /\ dead' = dead \ {r}
    /\ locks' = [x \in Rows |-> IF locks[x] = r THEN NoRequest ELSE locks[x]]
KeepSession == UNCHANGED <<conns, dead, locks>>

-----------------------------------------------------------------------------
(* From the event loop to the endpoint.                                    *)

\* The scope opens and dispatch sets the context variable.  On the internal
\* face service_guard comes first, for which get_settings needs a thread.
Arrive(r) ==
    /\ pc[r] = "idle"
    /\ \E k \in Kinds :
         /\ job' = [job EXCEPT ![r].kind = k]
         /\ Goto(r, "thread") \/ (k = "service" /\ Goto(r, "settings"))
    /\ inside' = inside \cup {r}
    /\ UNCHANGED <<held, up>>

\* An expected error before the first statement: on the event loop a body that
\* cannot be decoded, then a wrong service token or a body that does not
\* validate; on the thread a bad access token.
Refuse(r) ==
    /\ job[r].kind = "service"
    /\ \/ pc[r] \in {"settings", "thread"} /\ Goto(r, "respond")
       \/ pc[r] = "connect" /\ Goto(r, "refused")
    /\ UNCHANGED <<job, held, up, inside>>

\* run_in_threadpool: there is a thread for get_settings, for the endpoint,
\* for the response model.
TakeThread(r) ==
    /\ Cardinality(threads) < Threads
    /\ threads' = threads \cup {r}
    /\ \/ pc[r] = "settings" /\ Goto(r, "guard")
       \/ pc[r] = "thread" /\ Goto(r, IF job[r].kind = "healthz" THEN "return" ELSE "connect")
       \/ pc[r] = "serialize" /\ Goto(r, "validate")
    /\ UNCHANGED <<job, conns, locks, dead, up, inside>>

\* What ran on the thread is done, and the request goes on on the event loop.
LeaveThread(r, l) ==
    /\ threads' = threads \ {r}
    /\ Goto(r, l)
    /\ UNCHANGED <<job, conns, locks, dead, up, inside>>

\* service_guard has its settings; if it accepts, the endpoint comes next.
HasSettings(r) == pc[r] = "guard" /\ LeaveThread(r, "thread")

\* A statement, or the attempt to connect, raises.  _check_db has its session
\* closed by session_scope and catches the exception; a service passes it on.
Raise(r) ==
    /\ IF job[r].kind = "readyz" THEN Goto(r, "return") /\ EndSession(r)
       ELSE Goto(r, "failed") /\ KeepSession
    /\ Locking(r, NoRow)
    /\ UNCHANGED <<threads, up, inside>>

\* The first statement checks a connection out, and pre-pings it.
Connect(r) ==
    /\ pc[r] = "connect"
    /\ Cardinality(conns) < Connections
    /\ IF up
       THEN /\ conns' = conns \cup {r}
            /\ \E x \in Rows \cup {NoRow} : (job[r].kind = "readyz" => x = NoRow) /\ Locking(r, x)
            /\ Goto(r, "execute")
            /\ UNCHANGED <<threads, locks, dead, up, inside>>
       ELSE Raise(r)

\* Mutant of PoolTimeout: the timeout opens one more connection.
OpenAnother(r) ==
    /\ pc[r] = "connect"
    /\ Cardinality(conns) = Connections
    /\ conns' = conns \cup {r}
    /\ Goto(r, "execute")
    /\ UNCHANGED <<job, threads, locks, dead, up, inside>>

\* Mutant of PoolTimeout: a pool without a timeout.
WaitForEver(r) ==
    /\ pc[r] = "connect"
    /\ Cardinality(conns) = Connections
    /\ UNCHANGED vars

\* No connection has come back within the timeout of the pool.
PoolTimeout(r) ==
    /\ pc[r] = "connect"
    /\ Cardinality(conns) = Connections
    /\ Raise(r)

\* The statement that needs the lock of a row waits for it.
Execute(r) ==
    /\ pc[r] = "execute" /\ r \notin dead
    /\ IF job[r].row = NoRow THEN UNCHANGED locks
       ELSE locks[job[r].row] = NoRequest /\ locks' = [locks EXCEPT ![job[r].row] = r]
    /\ Locking(r, NoRow)
    /\ Goto(r, "finish")
    /\ UNCHANGED <<threads, conns, dead, up, inside>>

\* The connection has been lost, or the service fails after its writes.
Break(r) ==
    /\ \/ pc[r] \in {"execute", "finish"} /\ r \in dead
       \/ pc[r] = "finish" /\ job[r].kind = "service"
    /\ Raise(r)

\* The service returns or raises a ServiceError; the probe has its row.
Finish(r) ==
    /\ pc[r] = "finish" /\ r \notin dead
    /\ IF job[r].kind = "readyz" THEN Goto(r, "return") /\ EndSession(r)
       ELSE KeepSession /\ (Goto(r, "return") \/ Goto(r, "refused"))
    /\ UNCHANGED <<job, threads, up, inside>>

-----------------------------------------------------------------------------
(* From the endpoint back to the client.                                   *)

\* The endpoint has returned or raised.  A result goes through its response
\* model, if the endpoint declares one: healthz does, readyz makes its own
\* response, of the services those do that answer with a body.
Return(r) ==
    \/ pc[r] = "return" /\ job[r].kind # "readyz" /\ LeaveThread(r, "serialize")
    \/ pc[r] = "return" /\ job[r].kind # "healthz" /\ LeaveThread(r, "respond")
    \/ pc[r] = "refused" /\ LeaveThread(r, "respond")
    \/ pc[r] = "failed" /\ LeaveThread(r, "unwind")

\* The answer fits its response model.
Validated(r) == pc[r] = "validate" /\ LeaveThread(r, "respond")

\* The answer, also that of an expected error, passes dispatch, which adds
\* the header.
Respond(r) ==
    /\ pc[r] = "respond"
    /\ inside' = inside \ {r}
    /\ Goto(r, "close")
    /\ UNCHANGED <<job, held, up>>

\* Mutant of Close: the session is closed only if its COMMIT succeeds.
CloseWithoutFinally(r) ==
    /\ pc[r] = "close"
    /\ IF r \in dead THEN KeepSession ELSE EndSession(r)
    /\ Goto(r, "idle")
    /\ job' = [job EXCEPT ![r] = NoJob]
    /\ UNCHANGED <<threads, up, inside>>

\* The scope closes without an error, on the event loop: COMMIT.  If that
\* fails the answer cannot be taken back.
Close(r) ==
    /\ pc[r] = "close"
    /\ EndSession(r)
    /\ Goto(r, "idle")
    /\ job' = [job EXCEPT ![r] = NoJob]
    /\ UNCHANGED <<threads, up, inside>>

\* Mutant of Unwind: the answer to an unhandled error is made inside the
\* request scope.
UnwindToError(r) ==
    /\ pc[r] = "unwind"
    /\ inside' = inside \ {r}
    /\ Goto(r, "error")
    /\ UNCHANGED <<job, held, up>>

\* An unhandled error leaves dispatch through its finally.
Unwind(r) ==
    /\ pc[r] = "unwind"
    /\ inside' = inside \ {r}
    /\ Goto(r, "rollback")
    /\ UNCHANGED <<job, held, up>>

\* The scope closes with the error.
Rollback(r) ==
    /\ pc[r] = "rollback"
    /\ EndSession(r)
    /\ Goto(r, "error")
    /\ UNCHANGED <<job, threads, up, inside>>

\* _unhandled_exc logs the error and its envelope goes out from the outermost
\* layer, past dispatch.
SendError(r) ==
    /\ pc[r] = "error"
    /\ Goto(r, "idle")
    /\ job' = [job EXCEPT ![r] = NoJob]
    /\ UNCHANGED <<held, up, inside>>

-----------------------------------------------------------------------------
(* PostgreSQL restarts: open transactions are aborted.                     *)

Crash ==
    /\ up /\ up' = FALSE
    /\ dead' = conns /\ locks' = [x \in Rows |-> NoRequest]
    /\ UNCHANGED <<pc, job, threads, conns, inside>>

Restart ==
    /\ ~up /\ up' = TRUE
    /\ UNCHANGED <<pc, job, held, inside>>

-----------------------------------------------------------------------------
Serve(r) ==
    \/ TakeThread(r) \/ HasSettings(r) \/ Connect(r) \/ Execute(r) \/ Break(r) \/ Finish(r)
    \/ Return(r) \/ Validated(r) \/ Respond(r) \/ Close(r)
    \/ Unwind(r) \/ Rollback(r) \/ SendError(r)

Next ==
    \/ Crash \/ Restart
    \/ \E r \in Requests : Arrive(r) \/ Refuse(r) \/ PoolTimeout(r) \/ Serve(r)

Spec == Init /\ [][Next]_vars

\* A request that can go on does: threads, the event loop and PostgreSQL are
\* scheduled, and whoever waits for a thread, a connection or a lock is not
\* passed over for ever.  The timeout of the pool is a clock and runs out.
FairSpec == Spec /\ \A r \in Requests : SF_vars(Serve(r)) /\ WF_vars(PoolTimeout(r))

-----------------------------------------------------------------------------
(* Properties.                                                             *)

\* Nothing is lost on any of the ways out: a row lock is held through a
\* connection that is open, a connection or thread by a request that is still
\* being served, what a probe has taken it has given back before it answers,
\* and no correlation id stays behind in the context variable.
EverythingComesBack ==
    /\ \A x \in Rows : locks[x] # NoRequest => locks[x] \in conns \ dead
    /\ \A r \in conns :
         Busy(r) /\ (pc[r] \in {"serialize", "validate", "respond", "close"} => job[r].kind = "service")
    /\ \A r \in threads : pc[r] \in OnThread
    /\ \A r \in inside : pc[r] \notin {"idle", "close", "rollback", "error"}

\* A client that is told 500 may retry at once: its first attempt has left no
\* lock, no connection and no open transaction the retry could wait for.
\* (A client that is told 200 has no such promise.)
FiveHundredIsOver ==
    [][\A r \in Requests : SendError(r) =>
          r \notin conns \cup threads /\ \A x \in Rows : locks[x] # r]_vars

\* Every request is answered.  Requests do wait in a circle: one holds a
\* connection, and a row's lock, while it waits for a thread to validate its
\* answer; the threads are held by requests that wait for a connection, or for
\* that lock.  The first kind times out and lets go of its thread, and as long
\* as there are no more connections than threads one of that kind there is:
\* not all threads can be with requests that have a connection while another
\* request has one too.  (The code leaves both at the libraries' defaults.)
EveryRequestAnswered ==
    \A r \in Requests : Busy(r) ~> ~Busy(r)
=============================================================================

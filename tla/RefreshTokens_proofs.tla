------------------------ MODULE RefreshTokens_proofs ------------------------
(***************************************************************************)
(* Proofs about RefreshTokens and, in the second half, BrowserSession, for *)
(* any number of slots, tokens, members and any lifetime.                  *)
(***************************************************************************)
EXTENDS BrowserSession, TLAPS

\* r has consumed its token and has minted, or is about to mint, another.
Spending(r) ==
    /\ job[r].tok # NoToken
    /\ pc[r] = "insert" \/ job[r].ins # NoRow

\* The token a request works on has a row from the moment it was looked up.
LookedUp(r) ==
    /\ pc[r] \in {"decide", "consume", "scan", "revoke"} => Known(r)
    /\ Spending(r) \/ job[r].burn # "none" => Known(r)
    /\ pc[r] = "revoke" => job[r].want \in Tokens /\ job[r].burn # "none"

\* The value set aside when a request arrived is there when it is needed.
Supplied(r) ==
    /\ pc[r] = "refresh" /\ job[r].tok # NoToken /\ job[r].new = NoToken => Dead(job[r].tok)
    /\ pc[r] \in {"decide", "consume", "insert"} \/ job[r].ins # NoRow => job[r].new \in Tokens

\* It keys no row, and no two requests hold the same one.
Fresh ==
    \A r \in Requests : job[r].new # NoToken =>
        /\ ~Stored(job[r].new)
        /\ \A q \in Requests \ {r} : job[q].new # job[r].new

\* The uncommitted writes of a request belong together.
WriteSet(r) ==
    /\ Spending(r) => job[r].marks = {job[r].tok}
    /\ ~Spending(r) => job[r].marks = {}
    /\ job[r].ins # NoRow =>
         /\ pc[r] \in {"reply", "close"} /\ job[r].burn = "none"
         /\ job[r].ins.parent = job[r].tok /\ job[r].ins.slot = r
         /\ job[r].tok = NoToken => job[r].ins.session = job[r].new
         /\ job[r].tok # NoToken =>
              job[r].ins.session = Session(r) /\ job[r].ins.member = row[job[r].tok].member
    /\ job[r].burn # "none" => pc[r] \in {"revoke", "reply", "close"}

\* While r exchanges its token, no row it minted for it is in the table yet.
NoOwnFork(r) ==
    Exchanging(r) => \A t \in Tokens :
        ~(Stored(t) /\ row[t].parent = job[r].tok /\ row[t].slot = r)

\* A revocation no exchange overlaps has every row of its lineage in hand.
CleanBurn(r) ==
    job[r].burn = "clean" =>
        /\ \A t \in Tokens : Stored(t) /\ row[t].session = Session(r)
               => t \in revoked \cup job[r].kills \cup job[r].todo \cup {job[r].want}
        /\ \A q \in Requests : Exchanging(q) => Session(q) # Session(r)
        /\ pc[r] # "revoke" => job[r].todo = {} /\ job[r].want = NoToken

\* A sealed lineage exists and nobody is exchanging a token of it.
SealedQuiet ==
    \A s \in sealed :
        /\ Stored(s)
        /\ \A q \in Requests : Exchanging(q) => Session(q) # s

IInv ==
    /\ TypeOK
    /\ Fresh
    /\ \A r \in Requests : LookedUp(r) /\ Supplied(r) /\ WriteSet(r)
    /\ \A r \in Requests : NoOwnFork(r) /\ CleanBurn(r)
    /\ SealedQuiet
    /\ LineageIdentity
    /\ SpentHasSuccessor
    /\ ForksAreConcurrent
    /\ SealedStaysDead
-----------------------------------------------------------------------------
(* A step that touches no table and moves only slot r from job[r] to j.     *)

\* Such a step has to be good for its own slot: what the invariant says of
\* the tables and of the other slots stays.
LEMMA LocalStep ==
    ASSUME IInv, NEW r \in Requests, NEW j \in Job, NEW l \in PCs,
           job' = [job EXCEPT ![r] = j], pc' = [pc EXCEPT ![r] = l],
           UNCHANGED <<DB, now, sealed>>, held' \subseteq Tokens,
           j.new \in {NoToken, job[r].new} \/ Unused(j.new),
           Exchanging(r)' => Exchanging(r) /\ j.tok = job[r].tok,
           LookedUp(r)', Supplied(r)', WriteSet(r)', CleanBurn(r)'
    PROVE  IInv'
<1>1. /\ job[r] \in Job
      /\ \A q \in Requests \ {r} : job'[q] = job[q] /\ pc'[q] = pc[q]
      /\ job'[r] = j /\ pc'[r] = l
  BY DEF IInv, TypeOK
<1>2. row' = row /\ consumed' = consumed /\ revoked' = revoked /\ sealed' = sealed /\ now' = now
  BY DEF DB
<1>3. TypeOK'
  BY <1>2 DEF IInv, TypeOK
<1>4. Fresh'
  BY <1>1, <1>2 DEF IInv, Fresh, Unused, Stored, Job
<1>5. \A q \in Requests : LookedUp(q)' /\ Supplied(q)' /\ WriteSet(q)'
  <2>1. ASSUME NEW q \in Requests \ {r}
        PROVE  LookedUp(q)' /\ Supplied(q)' /\ WriteSet(q)'
    <3>1. LookedUp(q) /\ Supplied(q) /\ WriteSet(q)
      BY DEF IInv
    <3>2. job'[q] = job[q] /\ pc'[q] = pc[q]
      BY <1>1
    <3>3. LookedUp(q)'
      BY <3>1, <3>2, <1>2 DEF LookedUp, Known, Stored, Spending
    <3>4. Supplied(q)'
      BY <3>1, <3>2, <1>2 DEF Supplied, Dead
    <3>5. WriteSet(q)'
      BY <3>1, <3>2, <1>2 DEF WriteSet, Session, Spending
    <3> QED  BY <3>3, <3>4, <3>5
  <2> QED  BY <2>1
<1>6. \A q \in Requests : Exchanging(q)' => Exchanging(q) /\ Session(q)' = Session(q)
                                            /\ job'[q].tok = job[q].tok
  BY <1>1, <1>2 DEF Exchanging, Session
<1>7. \A q \in Requests : NoOwnFork(q)'
  BY <1>6, <1>2 DEF IInv, NoOwnFork, Stored
<1>8. \A q \in Requests : CleanBurn(q)'
  <2>1. ASSUME NEW q \in Requests \ {r} PROVE CleanBurn(q)'
    BY <1>1, <1>2, <1>6 DEF IInv, CleanBurn, Stored, Session
  <2> QED  BY <2>1
<1>9. SealedQuiet'
  BY <1>2, <1>6 DEF IInv, SealedQuiet, Stored
<1>10. LineageIdentity' /\ SpentHasSuccessor' /\ ForksAreConcurrent' /\ SealedStaysDead'
  BY <1>2 DEF IInv, LineageIdentity, SpentHasSuccessor, ForksAreConcurrent, SealedStaysDead, Stored
<1> QED  BY <1>3, <1>4, <1>5, <1>7, <1>8, <1>9, <1>10 DEF IInv

-----------------------------------------------------------------------------
(* The initial state and the steps of one slot.                            *)

\* Nothing is stored and nobody is served at first.
LEMMA InitIInv == Init => IInv
<1> SUFFICES ASSUME Init PROVE IInv
  OBVIOUS
<1>1. TypeOK
  BY ConstantsOK DEF Init, TypeOK, Idle, Job, PCs, TokenOrNone
<1>2. Fresh /\ \A r \in Requests : LookedUp(r) /\ Supplied(r) /\ WriteSet(r)
  BY DEF Init, Idle, Fresh, LookedUp, Spending, Supplied, WriteSet
<1>3. \A r \in Requests : NoOwnFork(r) /\ CleanBurn(r)
  BY DEF Init, Idle, NoOwnFork, Exchanging, CleanBurn
<1>4. SealedQuiet /\ LineageIdentity /\ SpentHasSuccessor /\ ForksAreConcurrent /\ SealedStaysDead
  BY DEF Init, SealedQuiet, LineageIdentity, SpentHasSuccessor, ForksAreConcurrent,
         SealedStaysDead, Stored
<1> QED  BY <1>1, <1>2, <1>3, <1>4 DEF IInv

\* A slot that is free has nothing.
LEMMA IdleJob == Idle \in Job
BY DEF Idle, Job, TokenOrNone

\* An abandoned transaction leaves the invariant as it is.
LEMMA RollbackStep ==
    ASSUME IInv, NEW r \in Requests, Rollback(r)
    PROVE  IInv'
<1>1. job' = [job EXCEPT ![r] = Idle] /\ pc' = [pc EXCEPT ![r] = "idle"]
      /\ UNCHANGED <<DB, now, sealed>> /\ held' = held
  BY DEF Rollback, Goto
<1>2. job'[r] = Idle /\ pc'[r] = "idle"
  BY <1>1 DEF IInv, TypeOK
<1>3. LookedUp(r)' /\ Supplied(r)' /\ WriteSet(r)' /\ CleanBurn(r)' /\ ~Exchanging(r)'
  BY <1>2 DEF Idle, LookedUp, Spending, Supplied, WriteSet, CleanBurn, Exchanging
<1>4. "idle" \in PCs /\ Idle.new = NoToken /\ held' \subseteq Tokens
  BY <1>1 DEF PCs, Idle, IInv, TypeOK
<1> QED  BY <1>1, <1>3, <1>4, IdleJob, LocalStep

\* login, refresh and logout begin with what the client sends and a value
\* nobody else has drawn.
LEMMA ArriveStep ==
    ASSUME IInv, NEW r \in Requests, Arrive(r)
    PROVE  IInv'
<1> USE DEF IInv, TypeOK
<1>1. CASE Login(r)
  <2>1. PICK n \in Tokens : Unused(n) /\ job' = [job EXCEPT ![r] = [Idle EXCEPT !.new = n]]
    BY <1>1 DEF Login
  <2> DEFINE j == [Idle EXCEPT !.new = n]
  <2>2. j \in Job /\ j.new = n /\ j.tok = NoToken /\ j.ins = NoRow /\ j.marks = {} /\ j.burn = "none"
    BY IdleJob DEF Idle, Job, TokenOrNone
  <2>3. pc' = [pc EXCEPT ![r] = "insert"] /\ "insert" \in PCs /\ UNCHANGED <<DB, now, held, sealed>>
    BY <1>1 DEF Login, Goto, PCs
  <2>4. job'[r] = j /\ pc'[r] = "insert"
    BY <2>1, <2>3
  <2> HIDE DEF j
  <2>5. LookedUp(r)' /\ Supplied(r)' /\ WriteSet(r)' /\ CleanBurn(r)' /\ ~Exchanging(r)'
    BY <2>2, <2>4 DEF LookedUp, Spending, Supplied, WriteSet, CleanBurn, Exchanging
  <2> QED  BY <2>1, <2>2, <2>3, <2>5, LocalStep DEF j
<1>2. CASE Refresh(r)
  <2>1. PICK t \in held \cup {NoToken}, n \in TokenOrNone :
          /\ IF t # NoToken /\ ~Dead(t) THEN n \in Tokens /\ Unused(n) ELSE n = NoToken
          /\ job' = [job EXCEPT ![r] = [Idle EXCEPT !.tok = t, !.new = n]]
    BY <1>2 DEF Refresh
  <2> DEFINE j == [Idle EXCEPT !.tok = t, !.new = n]
  <2>2. j \in Job /\ j.new = n /\ j.tok = t /\ j.ins = NoRow /\ j.marks = {} /\ j.burn = "none"
    BY IdleJob DEF Idle, Job, TokenOrNone
  <2>3. pc' = [pc EXCEPT ![r] = "refresh"] /\ "refresh" \in PCs /\ UNCHANGED <<DB, now, held, sealed>>
    BY <1>2 DEF Refresh, Goto, PCs
  <2>4. job'[r] = j /\ pc'[r] = "refresh"
    BY <2>1, <2>3
  <2> HIDE DEF j
  <2>5. LookedUp(r)' /\ WriteSet(r)' /\ CleanBurn(r)' /\ ~Exchanging(r)'
    BY <2>2, <2>4 DEF LookedUp, Spending, WriteSet, CleanBurn, Exchanging
  <2>6. Supplied(r)'
    BY <2>1, <2>2, <2>3, <2>4, ConstantsOK DEF Supplied, Dead, DB
  <2> QED  BY <2>1, <2>2, <2>3, <2>5, <2>6, LocalStep DEF j
<1>3. CASE Logout(r)
  <2>1. PICK t \in held \cup {NoToken} : job' = [job EXCEPT ![r] = [Idle EXCEPT !.tok = t]]
    BY <1>3 DEF Logout
  <2> DEFINE j == [Idle EXCEPT !.tok = t]
  <2>2. j \in Job /\ j.new = NoToken /\ j.tok = t /\ j.ins = NoRow /\ j.marks = {} /\ j.burn = "none"
    BY IdleJob DEF Idle, Job, TokenOrNone
  <2>3. pc' = [pc EXCEPT ![r] = "logout"] /\ "logout" \in PCs /\ UNCHANGED <<DB, now, held, sealed>>
    BY <1>3 DEF Logout, Goto, PCs
  <2>4. job'[r] = j /\ pc'[r] = "logout"
    BY <2>1, <2>3
  <2> HIDE DEF j
  <2>5. LookedUp(r)' /\ Supplied(r)' /\ WriteSet(r)' /\ CleanBurn(r)' /\ ~Exchanging(r)'
    BY <2>2, <2>4 DEF LookedUp, Spending, Supplied, WriteSet, CleanBurn, Exchanging
  <2> QED  BY <2>1, <2>2, <2>3, <2>5, LocalStep DEF j
<1> QED  BY <1>1, <1>2, <1>3 DEF Arrive

-----------------------------------------------------------------------------
(* The handler steps that write no table.                                  *)

\* The lookups that do not begin an exchange, and the expiry check.
LEMMA DecideStep ==
    ASSUME IInv, NEW r \in Requests,
           \/ LookupUnknown(r) \/ LookupDead(r) \/ DecideExpired(r) \/ DecideValid(r)
           \/ LookupLogout(r)
    PROVE  IInv'
<1> USE DEF IInv, TypeOK
<1>1. PICK j \in Job, l \in PCs :
        /\ job' = [job EXCEPT ![r] = j] /\ pc' = [pc EXCEPT ![r] = l]
        /\ j \in {job[r], [job[r] EXCEPT !.status = "unauthorized"]}
        /\ \/ pc[r] = "refresh" /\ l = "reply"
           \/ pc[r] = "refresh" /\ l = "scan" /\ Known(r)
           \/ pc[r] = "decide" /\ l \in {"reply", "consume"}
           \/ pc[r] = "logout" /\ l = "reply"
           \/ pc[r] = "logout" /\ l = "scan" /\ Known(r)
  <2>1. job[r] \in Job /\ [job[r] EXCEPT !.status = "unauthorized"] \in Job
        /\ job = [job EXCEPT ![r] = job[r]]
    BY DEF Job
  <2> DEFINE u == [job[r] EXCEPT !.status = "unauthorized"]
  <2>2. CASE LookupUnknown(r)
    BY <2>1, <2>2 DEF LookupUnknown, Goto, PCs
  <2>3. CASE LookupDead(r)
    BY <2>1, <2>3 DEF LookupDead, Goto, PCs
  <2>4. CASE DecideExpired(r)
    BY <2>1, <2>4 DEF DecideExpired, Goto, PCs
  <2>5. CASE DecideValid(r)
    BY <2>1, <2>5 DEF DecideValid, Goto, PCs
  <2>6. CASE LookupLogout(r)
    <3>1. pc' = [pc EXCEPT ![r] = IF Known(r) THEN "scan" ELSE "reply"] /\ job' = job /\ pc[r] = "logout"
      BY <2>6 DEF LookupLogout, Goto
    <3> QED  BY <2>1, <3>1 DEF PCs
  <2> QED  BY <2>2, <2>3, <2>4, <2>5, <2>6
<1>2. UNCHANGED <<DB, now, held, sealed>>
  BY DEF LookupUnknown, LookupDead, DecideExpired, DecideValid, LookupLogout
<1>3. /\ j.tok = job[r].tok /\ j.new = job[r].new /\ j.ins = job[r].ins
      /\ j.marks = job[r].marks /\ j.burn = job[r].burn
  BY <1>1 DEF Job
<1>4. job[r].ins = NoRow /\ job[r].burn = "none" /\ job[r].marks = {}
  BY <1>1 DEF WriteSet, Spending
<1>5. job'[r] = j /\ pc'[r] = l
  BY <1>1
<1>6. WriteSet(r)' /\ CleanBurn(r)'
  BY <1>1, <1>3, <1>4, <1>5 DEF WriteSet, CleanBurn, Spending
<1>7. LookedUp(r)'
  BY <1>1, <1>2, <1>3, <1>4, <1>5 DEF LookedUp, Spending, Known, Stored, DB
<1>8. Supplied(r)'
  BY <1>1, <1>2, <1>3, <1>4, <1>5 DEF Supplied
<1>9. Exchanging(r)' => Exchanging(r) /\ j.tok = job[r].tok
  BY <1>1, <1>3, <1>4, <1>5 DEF Exchanging
<1> QED  BY <1>1, <1>2, <1>3, <1>6, <1>7, <1>8, <1>9, LocalStep

\* The UPDATE of rotate marks the token that is being exchanged, and no other.
LEMMA ConsumeStep ==
    ASSUME IInv, NEW r \in Requests, Consume(r)
    PROVE  IInv'
<1> USE DEF IInv, TypeOK
<1> DEFINE j == [job[r] EXCEPT !.marks = @ \cup {job[r].tok}]
<1>1. pc[r] = "consume" /\ Known(r) /\ job[r].tok \in Tokens
      /\ job[r].ins = NoRow /\ job[r].burn = "none" /\ job[r].marks = {}
  BY DEF Consume, LookedUp, Known, WriteSet, Spending, Job, TokenOrNone
<1>2. /\ j \in Job /\ j.tok = job[r].tok /\ j.new = job[r].new /\ j.ins = NoRow
      /\ j.marks = {job[r].tok} /\ j.burn = "none"
  BY <1>1 DEF Job
<1>3. job' = [job EXCEPT ![r] = j] /\ pc' = [pc EXCEPT ![r] = "insert"] /\ "insert" \in PCs
      /\ UNCHANGED <<DB, now, held, sealed>>
  BY DEF Consume, Goto, PCs
<1> HIDE DEF j
<1>4. job'[r] = j /\ pc'[r] = "insert"
  BY <1>3
<1>5. LookedUp(r)' /\ WriteSet(r)' /\ CleanBurn(r)'
  BY <1>1, <1>2, <1>3, <1>4
  DEF LookedUp, Known, Stored, DB, Spending, WriteSet, CleanBurn
<1>6. Supplied(r)'
  BY <1>1, <1>2, <1>4 DEF Supplied
<1>7. Exchanging(r)' => Exchanging(r) /\ j.tok = job[r].tok
  BY <1>1, <1>2, <1>4 DEF Exchanging
<1> QED  BY <1>2, <1>3, <1>5, <1>6, <1>7, LocalStep

\* The row of issue belongs to the lineage of the token it replaces.
LEMMA InsertStep ==
    ASSUME IInv, NEW r \in Requests, Insert(r)
    PROVE  IInv'
<1> USE DEF IInv, TypeOK
<1>1. PICK m \in Members : job' = [job EXCEPT ![r].ins = NewRow(r, m)]
  BY DEF Insert
<1> DEFINE j == [job[r] EXCEPT !.ins = NewRow(r, m)]
<1>2. pc[r] = "insert" /\ job[r].ins = NoRow /\ job[r].burn = "none"
      /\ (job[r].tok # NoToken => Known(r)) /\ job[r].new \in Tokens
      /\ job[r].marks = IF job[r].tok # NoToken THEN {job[r].tok} ELSE {}
  BY DEF Insert, LookedUp, Spending, Supplied, WriteSet
<1>3. NewRow(r, m) \in Row
  <2>1. now + RefreshTTL \in Nat
    BY ConstantsOK
  <2>2. CASE job[r].tok = NoToken
    BY <2>1, <2>2, <1>2 DEF NewRow, Row, TokenOrNone
  <2>3. CASE job[r].tok # NoToken
    <3>1. job[r].tok \in Tokens /\ row[job[r].tok] \in Row
      BY <2>3, <1>2 DEF Known, Stored, Job, TokenOrNone
    <3> QED  BY <2>1, <2>3, <3>1 DEF NewRow, Row, TokenOrNone, Session
  <2> QED  BY <2>2, <2>3
<1>4. /\ j \in Job /\ j.tok = job[r].tok /\ j.new = job[r].new /\ j.ins = NewRow(r, m)
      /\ j.marks = job[r].marks /\ j.burn = "none"
  BY <1>2, <1>3 DEF Job
<1>5. job' = [job EXCEPT ![r] = j] /\ pc' = [pc EXCEPT ![r] = "reply"] /\ "reply" \in PCs
      /\ UNCHANGED <<DB, now, held, sealed>>
  BY <1>1 DEF Insert, Goto, PCs
<1> HIDE DEF j
<1>6. job'[r] = j /\ pc'[r] = "reply" /\ row' = row
  BY <1>5 DEF DB
<1>7. LookedUp(r)' /\ Supplied(r)' /\ CleanBurn(r)'
  BY <1>2, <1>4, <1>6 DEF LookedUp, Known, Stored, Spending, Supplied, CleanBurn
<1>8. WriteSet(r)'
  <2>1. j.ins # NoRow
    BY <1>3, <1>4, ConstantsOK
  <2>2. /\ j.ins.parent = j.tok /\ j.ins.slot = r
        /\ j.tok = NoToken => j.ins.session = j.new
        /\ j.tok # NoToken => j.ins.session = Session(r) /\ j.ins.member = row[j.tok].member
    BY <1>4 DEF NewRow
  <2>3. Session(r)' = Session(r)
    BY <1>4, <1>6 DEF Session
  <2> HIDE DEF IInv, TypeOK
  <2> QED  BY <2>1, <2>2, <2>3, <1>2, <1>4, <1>6 DEF WriteSet, Spending
<1>9. Exchanging(r)' => Exchanging(r) /\ j.tok = job[r].tok
  BY <1>2, <1>4, <1>6 DEF Exchanging
<1> QED  BY <1>4, <1>5, <1>7, <1>8, <1>9, LocalStep

\* The answer, with its cookie, leaves before the commit.
LEMMA ReplyStep ==
    ASSUME IInv, NEW r \in Requests, Reply(r)
    PROVE  IInv'
<1> USE DEF IInv, TypeOK
<1>1. pc[r] = "reply" /\ job' = [job EXCEPT ![r] = job[r]] /\ pc' = [pc EXCEPT ![r] = "close"]
      /\ "close" \in PCs /\ UNCHANGED <<DB, now, sealed>> /\ job[r] \in Job
  BY DEF Reply, Goto, PCs
<1>2. held' \subseteq Tokens
  BY DEF Reply, Supplied
<1>3. job'[r] = job[r] /\ pc'[r] = "close" /\ row' = row /\ consumed' = consumed
      /\ revoked' = revoked /\ job' = job
  BY <1>1 DEF DB
<1>4. LookedUp(r)' /\ Supplied(r)' /\ WriteSet(r)'
  BY <1>1, <1>3 DEF LookedUp, Known, Stored, Spending, Supplied, WriteSet, Session
<1>5. \A q \in Requests : Exchanging(q)' => Exchanging(q)
  BY <1>1, <1>3 DEF Exchanging
<1>6. CleanBurn(r)'
  BY <1>1, <1>3, <1>5 DEF CleanBurn, Stored, Session
<1>7. Exchanging(r)' => Exchanging(r) /\ job[r].tok = job[r].tok
  BY <1>5
<1> QED  BY <1>1, <1>2, <1>4, <1>6, <1>7, LocalStep

-----------------------------------------------------------------------------
(* The loop of revoke_session.                                             *)

\* Going on with the rows of rest keeps a revocation that no exchange has
\* overlapped complete.
LEMMA NextRowStep ==
    ASSUME IInv, NEW r \in Requests, NEW rest \in SUBSET Tokens, NEW i \in Job,
           NextRow(r, rest, i), UNCHANGED <<DB, now, held, sealed>>,
           Known(r), job[r].ins = NoRow, job[r].marks = {},
           pc[r] \in {"scan", "revoke"},
           i.tok = job[r].tok, i.new = job[r].new, i.ins = NoRow, i.marks = {},
           i.burn # "none",
           i.burn = "clean" =>
             /\ \A t \in Tokens : Stored(t) /\ row[t].session = Session(r)
                   => t \in revoked \cup i.kills \cup rest
             /\ \A q \in Requests : Exchanging(q) => Session(q) # Session(r)
    PROVE  IInv'
<1> USE DEF IInv, TypeOK
<1>1. PICK j \in Job, l \in PCs :
        /\ job' = [job EXCEPT ![r] = j] /\ pc' = [pc EXCEPT ![r] = l]
        /\ j.tok = i.tok /\ j.new = i.new /\ j.ins = NoRow /\ j.marks = {}
        /\ j.burn = i.burn /\ j.kills = i.kills
        /\ \/ l = "reply" /\ rest = {} /\ j.todo = {} /\ j.want = NoToken
           \/ l = "revoke" /\ j.want \in rest /\ j.todo = rest \ {j.want}
  <2>1. CASE rest = {} /\ job' = [job EXCEPT ![r] = [i EXCEPT !.todo = {}, !.want = NoToken]]
             /\ Goto(r, "reply")
    <3> DEFINE j == [i EXCEPT !.todo = {}, !.want = NoToken]
    <3>1. /\ j \in Job /\ j.tok = i.tok /\ j.new = i.new /\ j.ins = NoRow /\ j.marks = {}
          /\ j.burn = i.burn /\ j.kills = i.kills /\ j.todo = {} /\ j.want = NoToken
      BY DEF Job, TokenOrNone
    <3> QED  BY <2>1, <3>1 DEF Goto, PCs
  <2>2. ASSUME NEW t \in rest, Goto(r, "revoke"),
               job' = [job EXCEPT ![r] = [i EXCEPT !.todo = rest \ {t}, !.want = t]]
        PROVE  \E j \in Job, l \in PCs :
        /\ job' = [job EXCEPT ![r] = j] /\ pc' = [pc EXCEPT ![r] = l]
        /\ j.tok = i.tok /\ j.new = i.new /\ j.ins = NoRow /\ j.marks = {}
        /\ j.burn = i.burn /\ j.kills = i.kills
        /\ \/ l = "reply" /\ rest = {} /\ j.todo = {} /\ j.want = NoToken
           \/ l = "revoke" /\ j.want \in rest /\ j.todo = rest \ {j.want}
    <3> DEFINE j == [i EXCEPT !.todo = rest \ {t}, !.want = t]
    <3>1. /\ j \in Job /\ j.tok = i.tok /\ j.new = i.new /\ j.ins = NoRow /\ j.marks = {}
          /\ j.burn = i.burn /\ j.kills = i.kills /\ j.todo = rest \ {t} /\ j.want = t
      BY DEF Job, TokenOrNone
    <3> QED  BY <2>2, <3>1 DEF Goto, PCs
  <2> QED  BY <2>1, <2>2 DEF NextRow
<1>2. job'[r] = j /\ pc'[r] = l
  BY <1>1
<1>3. row' = row /\ consumed' = consumed /\ revoked' = revoked
  BY DEF DB
<1>4. LookedUp(r)' /\ Supplied(r)'
  BY <1>1, <1>2, <1>3 DEF LookedUp, Known, Stored, Spending, Supplied
<1>5. WriteSet(r)'
  BY <1>1, <1>2, <1>3 DEF WriteSet, Spending
<1>6. \A q \in Requests : Exchanging(q)' => Exchanging(q) /\ Session(q)' = Session(q)
  BY <1>1, <1>2, <1>3 DEF Exchanging, Session
<1>7. CleanBurn(r)'
  BY <1>1, <1>2, <1>3, <1>6 DEF CleanBurn, Stored, Session
<1>8. Exchanging(r)' => Exchanging(r) /\ j.tok = job[r].tok
  BY <1>1, <1>6
<1>9. held' \subseteq Tokens
  OBVIOUS
<1> QED  BY <1>1, <1>4, <1>5, <1>7, <1>8, <1>9, LocalStep

\* The SELECT of revoke_session takes all of the lineage that is left to revoke.
LEMMA ScanStep ==
    ASSUME IInv, NEW r \in Requests, Scan(r)
    PROVE  IInv'
<1> USE DEF IInv, TypeOK
<1> DEFINE b == IF \E q \in Requests : Exchanging(q) /\ Session(q) = Session(r)
                THEN "raced" ELSE "clean"
           i == [job[r] EXCEPT !.burn = b]
<1>1. pc[r] = "scan" /\ Known(r) /\ job[r].ins = NoRow /\ job[r].marks = {}
  BY DEF Scan, LookedUp, WriteSet, Spending
<1>2. NextRow(r, LineageRows(Session(r)), i) /\ UNCHANGED <<DB, now, held, sealed>>
  BY DEF Scan
<1>3. b \in {"raced", "clean"}
  OBVIOUS
<1>4. b = "clean" => \A q \in Requests : Exchanging(q) => Session(q) # Session(r)
  OBVIOUS
<1> HIDE DEF b
<1>5. i \in Job /\ i.tok = job[r].tok /\ i.new = job[r].new /\ i.ins = NoRow /\ i.marks = {}
      /\ i.burn = b
  BY <1>1, <1>3 DEF Job
<1>6. \A t \in Tokens : Stored(t) /\ row[t].session = Session(r)
         => t \in revoked \cup i.kills \cup LineageRows(Session(r))
  BY DEF LineageRows
<1>7. LineageRows(Session(r)) \in SUBSET Tokens
  BY DEF LineageRows
<1> HIDE DEF i, IInv, TypeOK
<1>8. b # "none"
  BY <1>3
<1>9. pc[r] \in {"scan", "revoke"}
  BY <1>1
<1> QED  BY <1>1, <1>2, <1>4, <1>5, <1>6, <1>7, <1>8, <1>9, NextRowStep

\* Each UPDATE of revoke_session moves one row from those to do to those done.
LEMMA RevokeStep ==
    ASSUME IInv, NEW r \in Requests, Revoke(r)
    PROVE  IInv'
<1> USE DEF IInv, TypeOK
<1> DEFINE i == [job[r] EXCEPT !.kills = @ \cup {job[r].want}]
<1>1. pc[r] = "revoke" /\ Known(r) /\ job[r].ins = NoRow /\ job[r].marks = {}
      /\ job[r].want \in Tokens
  BY DEF Revoke, LookedUp, WriteSet, Spending
<1>2. NextRow(r, job[r].todo, i) /\ UNCHANGED <<DB, now, held, sealed>>
  BY DEF Revoke
<1>3. i \in Job /\ i.tok = job[r].tok /\ i.new = job[r].new /\ i.ins = NoRow /\ i.marks = {}
      /\ i.burn = job[r].burn /\ i.kills = job[r].kills \cup {job[r].want}
      /\ job[r].todo \in SUBSET Tokens
  BY <1>1 DEF Job
<1> HIDE DEF i
<1>4. i.burn = "clean" =>
        /\ \A t \in Tokens : Stored(t) /\ row[t].session = Session(r)
              => t \in revoked \cup i.kills \cup job[r].todo
        /\ \A q \in Requests : Exchanging(q) => Session(q) # Session(r)
  BY <1>3 DEF CleanBurn
<1>5. i.burn # "none"
  BY <1>1, <1>3 DEF LookedUp, Revoke
<1>6. pc[r] \in {"scan", "revoke"}
  BY <1>1
<1> HIDE DEF IInv, TypeOK
<1> QED  BY <1>1, <1>2, <1>3, <1>4, <1>5, <1>6, NextRowStep

-----------------------------------------------------------------------------
(* The two steps in which requests meet: an exchange begins, and a         *)
(* transaction commits.                                                    *)

\* The token is live, so it has no successor yet and its lineage is not
\* sealed; the revocations it overlaps are clean no longer.
LEMMA LookupLiveStep ==
    ASSUME IInv, NEW r \in Requests, LookupLive(r)
    PROVE  IInv'
<1> USE DEF IInv, TypeOK
<1>1. pc[r] = "refresh" /\ Known(r) /\ ~Dead(job[r].tok) /\ job[r].ins = NoRow
      /\ job[r].burn = "none" /\ job[r].tok \in Tokens /\ job[r].new \in Tokens
  BY DEF LookupLive, Known, WriteSet, Supplied, Job, TokenOrNone
<1>2. row' = row /\ consumed' = consumed /\ revoked' = revoked /\ sealed' = sealed
      /\ now' = now /\ held' = held
  BY DEF LookupLive, DB
<1>3. pc' = [pc EXCEPT ![r] = "decide"] /\ pc'[r] = "decide"
      /\ \A q \in Requests \ {r} : pc'[q] = pc[q]
  BY DEF LookupLive, Goto
<1>4. job' = [q \in Requests |->
                 IF job[q].burn = "clean" /\ Session(q) = Session(r)
                 THEN [job[q] EXCEPT !.burn = "raced"] ELSE job[q]]
  BY DEF LookupLive
<1>5. ASSUME NEW q \in Requests
      PROVE  /\ job'[q] \in Job
             /\ job'[q].tok = job[q].tok /\ job'[q].new = job[q].new /\ job'[q].ins = job[q].ins
             /\ job'[q].marks = job[q].marks /\ job'[q].kills = job[q].kills
             /\ job'[q].todo = job[q].todo /\ job'[q].want = job[q].want
             /\ \/ job'[q] = job[q] /\ ~(job[q].burn = "clean" /\ Session(q) = Session(r))
                \/ job'[q].burn = "raced" /\ job[q].burn = "clean"
  BY <1>4 DEF Job
<1>6. job'[r] = job[r]
  BY <1>1, <1>4
<1>7. TypeOK'
  <2>1. pc' \in [Requests -> PCs]
    BY <1>3 DEF PCs
  <2>2. job' \in [Requests -> Job]
    BY <1>4, <1>5
  <2> QED  BY <1>2, <2>1, <2>2
<1>8. Fresh'
  BY <1>2, <1>5 DEF Fresh, Stored
<1>9. \A q \in Requests : Spending(q)' <=> Spending(q)
  BY <1>1, <1>3, <1>5 DEF Spending
<1>10. \A q \in Requests : Session(q)' = Session(q) /\ (Known(q)' <=> Known(q))
  BY <1>2, <1>5 DEF Session, Known, Stored
<1>11. \A q \in Requests : LookedUp(q)'
  BY <1>1, <1>3, <1>5, <1>6, <1>9, <1>10 DEF LookedUp
<1>12. \A q \in Requests : Supplied(q)'
  BY <1>1, <1>2, <1>3, <1>5 DEF Supplied, Dead
<1>13. \A q \in Requests : WriteSet(q)'
  <2>1. ASSUME NEW q \in Requests PROVE WriteSet(q)'
    <3>1. CASE q = r
      BY <3>1, <1>1, <1>3, <1>6, <1>9 DEF WriteSet
    <3>2. CASE q # r
      <4>1. WriteSet(q)
        OBVIOUS
      <4> QED  BY <3>2, <4>1, <1>2, <1>3, <1>5, <1>9, <1>10 DEF WriteSet
    <3> QED  BY <3>1, <3>2
  <2> QED  BY <2>1
<1>14. \A q \in Requests : Exchanging(q)' => Exchanging(q) \/ q = r
  BY <1>3, <1>5 DEF Exchanging
<1>15. \A q \in Requests : NoOwnFork(q)'
  <2>1. ASSUME NEW q \in Requests PROVE NoOwnFork(q)'
    <3>1. CASE q = r
      BY <3>1, <1>1, <1>2, <1>5 DEF NoOwnFork, SpentHasSuccessor, Dead, Stored
    <3>2. CASE q # r
      BY <3>2, <1>2, <1>5, <1>14 DEF NoOwnFork, Stored
    <3> QED  BY <3>1, <3>2
  <2> QED  BY <2>1
<1>16. \A q \in Requests : CleanBurn(q)'
  <2>1. ASSUME NEW q \in Requests, job'[q].burn = "clean" PROVE CleanBurn(q)'
    <3>1. job'[q] = job[q] /\ Session(q) # Session(r) /\ q # r
      BY <2>1, <1>1, <1>5
    <3>2. \A p \in Requests : Exchanging(p)' => Session(p)' # Session(q)'
      BY <2>1, <3>1, <1>10, <1>14 DEF CleanBurn
    <3> QED  BY <2>1, <3>1, <3>2, <1>2, <1>3, <1>10 DEF CleanBurn, Stored
  <2> QED  BY <2>1 DEF CleanBurn
<1>17. SealedQuiet'
  <2>1. Session(r) \notin sealed
    BY <1>1 DEF SealedStaysDead, Known, Dead, Session
  <2> QED  BY <2>1, <1>2, <1>10, <1>14 DEF SealedQuiet, Stored
<1>18. LineageIdentity' /\ SpentHasSuccessor' /\ ForksAreConcurrent' /\ SealedStaysDead'
  BY <1>2 DEF LineageIdentity, SpentHasSuccessor, ForksAreConcurrent, SealedStaysDead, Stored
<1> QED  BY <1>7, <1>8, <1>11, <1>12, <1>13, <1>15, <1>16, <1>17, <1>18

\* The commit is where the tables change: the writes of r, which belong
\* together, reach them at once.
LEMMA CloseStep ==
    ASSUME IInv, NEW r \in Requests, Close(r)
    PROVE  IInv'
<1> USE DEF IInv, TypeOK
<1> DEFINE n == job[r].new
           x == job[r].ins
<1>1. /\ row' = IF x # NoRow THEN [row EXCEPT ![n] = x] ELSE row
      /\ consumed' = consumed \cup job[r].marks
      /\ revoked' = revoked \cup job[r].kills
      /\ sealed' = IF job[r].burn = "clean" THEN sealed \cup {Session(r)} ELSE sealed
      /\ now' = now /\ held' = held
  BY DEF Close
<1>2. /\ job' = [job EXCEPT ![r] = Idle] /\ pc' = [pc EXCEPT ![r] = "idle"] /\ pc[r] = "close"
      /\ job'[r] = Idle /\ pc'[r] = "idle"
      /\ \A q \in Requests \ {r} : job'[q] = job[q] /\ pc'[q] = pc[q]
  BY DEF Close, Goto
<1>3. x # NoRow =>
        /\ n \in Tokens /\ ~Stored(n) /\ x \in Row /\ job[r].burn = "none"
        /\ x.parent = job[r].tok /\ x.slot = r
        /\ \A q \in Requests \ {r} : job[q].new # n
  <2>1. SUFFICES ASSUME x # NoRow
        PROVE  /\ n \in Tokens /\ ~Stored(n) /\ x \in Row /\ job[r].burn = "none"
               /\ x.parent = job[r].tok /\ x.slot = r
               /\ \A q \in Requests \ {r} : job[q].new # n
    OBVIOUS
  <2>2. n \in Tokens
    BY <2>1 DEF Supplied
  <2>3. ~Stored(n) /\ \A q \in Requests \ {r} : job[q].new # n
    BY <2>2, ConstantsOK DEF Fresh
  <2>4. x \in Row
    BY <2>1 DEF Job
  <2>5. job[r].burn = "none" /\ x.parent = job[r].tok /\ x.slot = r
    BY <2>1 DEF WriteSet
  <2> QED  BY <2>2, <2>3, <2>4, <2>5
<1>4. \A t \in Tokens : Stored(t)' <=> Stored(t) \/ (x # NoRow /\ t = n)
  BY <1>1, <1>3, ConstantsOK DEF Stored
<1>5. \A t \in Tokens : Stored(t) => row'[t] = row[t]
  BY <1>1, <1>3
<1>6. x # NoRow => row'[n] = x
  BY <1>1, <1>3
<1>7. job[r].kills \subseteq Tokens /\ job[r].marks \subseteq Tokens
  BY DEF Job
<1> HIDE DEF n, x
<1>8. TypeOK'
  <2>1. row' \in [Tokens -> Row \cup {NoRow}]
    BY <1>1, <1>3
  <2>2. sealed' \subseteq Tokens
    <3>1. job[r].burn = "clean" => Session(r) \in Tokens
      BY DEF LookedUp, Known, Stored, Session, Row, Job, TokenOrNone
    <3> QED  BY <1>1, <3>1
  <2>3. job' \in [Requests -> Job] /\ pc' \in [Requests -> PCs]
    BY <1>2, IdleJob DEF PCs
  <2> QED  BY <1>1, <1>7, <2>1, <2>2, <2>3
<1>9. Fresh'
  <2>1. ASSUME NEW q \in Requests, job'[q].new # NoToken
        PROVE  ~Stored(job[q].new)' /\ \A p \in Requests \ {q} : job'[p].new # job'[q].new
    <3>1. q # r /\ job'[q] = job[q]
      BY <2>1, <1>2 DEF Idle
    <3>2. job[q].new \in Tokens
      BY <2>1, <3>1 DEF Job, TokenOrNone
    <3>3. ~Stored(job[q].new)'
      BY <2>1, <3>1, <3>2, <1>3, <1>4 DEF Fresh
    <3>4. \A p \in Requests \ {q} : job'[p].new # job'[q].new
      BY <2>1, <3>1, <1>2 DEF Fresh, Idle
    <3> QED  BY <3>1, <3>3, <3>4
  <2> QED  BY <2>1 DEF Fresh
<1>10. \A q \in Requests : LookedUp(q)' /\ Supplied(q)' /\ WriteSet(q)'
  <2>1. LookedUp(r)' /\ Supplied(r)' /\ WriteSet(r)'
    BY <1>2 DEF LookedUp, Supplied, WriteSet, Spending, Idle
  <2>2. ASSUME NEW q \in Requests \ {r} PROVE LookedUp(q)' /\ Supplied(q)' /\ WriteSet(q)'
    <3>1. job'[q] = job[q] /\ pc'[q] = pc[q]
      BY <1>2
    <3>2. Known(q) => Known(q)' /\ Session(q)' = Session(q) /\ row'[job[q].tok] = row[job[q].tok]
      BY <3>1, <1>4, <1>5 DEF Known, Session, Job, TokenOrNone
    <3>3. Spending(q)' <=> Spending(q)
      BY <3>1 DEF Spending
    <3>4. LookedUp(q)'
      BY <3>1, <3>2, <3>3 DEF LookedUp
    <3>5. Supplied(q)'
      BY <3>1, <1>1 DEF Supplied, Dead
    <3>6. WriteSet(q)'
      <4>1. WriteSet(q) /\ LookedUp(q)
        OBVIOUS
      <4> HIDE DEF IInv, TypeOK
      <4> QED  BY <4>1, <3>1, <3>2, <3>3 DEF WriteSet, LookedUp, Spending
    <3> QED  BY <3>4, <3>5, <3>6
  <2> QED  BY <2>1, <2>2
<1>11. \A q \in Requests : Exchanging(q)' =>
         /\ q # r /\ Exchanging(q) /\ Known(q)
         /\ job'[q] = job[q] /\ Session(q)' = Session(q)
  <2>1. ~Exchanging(r)'
    BY <1>2 DEF Exchanging, Idle
  <2>2. ASSUME NEW q \in Requests \ {r}, Exchanging(q)'
        PROVE  Exchanging(q) /\ Known(q) /\ job'[q] = job[q] /\ Session(q)' = Session(q)
    <3>1. job'[q] = job[q] /\ pc'[q] = pc[q]
      BY <1>2
    <3>2. Exchanging(q) /\ Known(q)
      BY <2>2, <3>1 DEF Exchanging, LookedUp, Spending
    <3> QED  BY <3>1, <3>2, <1>5 DEF Session, Known, Job, TokenOrNone
  <2> QED  BY <2>1, <2>2
\* What a committed exchange adds: a row in a lineage it was exchanging on.
<1>12. x # NoRow /\ job[r].tok # NoToken =>
         /\ Exchanging(r) /\ Known(r) /\ job[r].tok \in Tokens /\ job[r].marks = {job[r].tok}
         /\ x.session = Session(r) /\ x.member = row[job[r].tok].member
  BY DEF x, Exchanging, LookedUp, WriteSet, Spending, Known, Job, TokenOrNone
<1>13. x = NoRow \/ job[r].tok = NoToken => job[r].marks = {}
  BY <1>2 DEF x, WriteSet, Spending
<1>14. x # NoRow /\ job[r].tok = NoToken => x.session = n
  BY DEF x, n, WriteSet
<1>15. \A q \in Requests : NoOwnFork(q)'
  <2>1. ASSUME NEW q \in Requests, Exchanging(q)', NEW t \in Tokens, Stored(t)',
               row'[t].parent = job'[q].tok, row'[t].slot = q
        PROVE  FALSE
    <3>1. CASE Stored(t)
      BY <2>1, <3>1, <1>5, <1>11 DEF NoOwnFork
    <3>2. CASE ~Stored(t)
      BY <2>1, <3>2, <1>3, <1>4, <1>6, <1>11
    <3> QED  BY <3>1, <3>2
  <2> QED  BY <2>1 DEF NoOwnFork
\* A row added to a lineage with no exchange is the first of a new lineage.
<1>16. ASSUME NEW s \in Tokens, Stored(s), ~Exchanging(r) \/ Session(r) # s, x # NoRow
       PROVE  x.session # s
  BY <1>16, <1>3, <1>12, <1>14
<1>17. \A q \in Requests : CleanBurn(q)'
  <2>1. ASSUME NEW q \in Requests, job'[q].burn = "clean" PROVE CleanBurn(q)'
    <3>1. q # r /\ job'[q] = job[q] /\ pc'[q] = pc[q]
      BY <2>1, <1>2 DEF Idle
    <3>2. Known(q) /\ job[q].tok \in Tokens /\ Session(q)' = Session(q)
          /\ Session(q) \in Tokens /\ Stored(Session(q))
      BY <2>1, <3>1, <1>5 DEF LookedUp, Known, Session, Job, TokenOrNone, LineageIdentity, Stored, Row
    <3>3. \A p \in Requests : Exchanging(p) => Session(p) # Session(q)
      BY <2>1, <3>1 DEF CleanBurn
    <3>4. x # NoRow => x.session # Session(q)
      BY <3>2, <3>3, <1>16
    <3>5. \A t \in Tokens : Stored(t)' /\ row'[t].session = Session(q)
            => Stored(t) /\ row[t].session = Session(q)
      BY <3>4, <1>4, <1>5, <1>6
    <3> QED  BY <2>1, <3>1, <3>2, <3>3, <3>5, <1>1, <1>11 DEF CleanBurn
  <2> QED  BY <2>1 DEF CleanBurn
\* The lineage r has revoked, if no exchange overlapped it, is dead now.
<1>18. job[r].burn = "clean" =>
         /\ x = NoRow /\ Session(r) \in Tokens /\ Stored(Session(r))
         /\ \A t \in Tokens : Stored(t) /\ row[t].session = Session(r)
               => t \in revoked \cup job[r].kills
         /\ \A q \in Requests : Exchanging(q) => Session(q) # Session(r)
  <2>1. SUFFICES ASSUME job[r].burn = "clean"
        PROVE  /\ x = NoRow /\ Session(r) \in Tokens /\ Stored(Session(r))
               /\ \A t \in Tokens : Stored(t) /\ row[t].session = Session(r)
                     => t \in revoked \cup job[r].kills
               /\ \A q \in Requests : Exchanging(q) => Session(q) # Session(r)
    OBVIOUS
  <2>2. x = NoRow
    BY <2>1, <1>3
  <2>3. Session(r) \in Tokens /\ Stored(Session(r))
    BY <2>1 DEF LookedUp, Known, Session, Job, TokenOrNone, LineageIdentity, Stored, Row
  <2>4. CleanBurn(r) /\ pc[r] = "close"
    BY <1>2
  <2> QED  BY <2>1, <2>2, <2>3, <2>4, ConstantsOK DEF CleanBurn
<1>19. SealedQuiet'
  BY <1>1, <1>4, <1>11, <1>18 DEF SealedQuiet
<1>20. SealedStaysDead'
  <2>1. ASSUME NEW s \in sealed', NEW t \in Tokens, Stored(t)', row'[t].session = s
        PROVE  t \in revoked'
    <3>1. CASE s \in sealed
      <4>1. s \in Tokens /\ Stored(s) /\ (~Exchanging(r) \/ Session(r) # s)
        BY <3>1 DEF SealedQuiet
      <4>2. Stored(t) /\ row[t].session = s
        BY <2>1, <4>1, <1>4, <1>5, <1>6, <1>16
      <4> QED  BY <3>1, <4>2, <1>1 DEF SealedStaysDead
    <3>2. CASE s \notin sealed
      <4>1. job[r].burn = "clean" /\ s = Session(r)
        BY <3>2, <1>1
      <4>2. Stored(t) /\ row[t].session = Session(r)
        BY <2>1, <4>1, <1>4, <1>5, <1>18
      <4> QED  BY <4>1, <4>2, <1>1, <1>18
    <3> QED  BY <3>1, <3>2
  <2> QED  BY <2>1 DEF SealedStaysDead
<1>21. LineageIdentity'
  <2>1. ASSUME NEW t \in Tokens, Stored(t)'
        PROVE  /\ Stored(row[t].session)' /\ row'[row'[t].session].session = row'[t].session
               /\ row'[t].member = row'[row'[t].session].member
    <3>1. CASE Stored(t)
      BY <3>1, <1>4, <1>5 DEF LineageIdentity, Row, Stored
    <3>2. CASE ~Stored(t) /\ job[r].tok = NoToken
      BY <2>1, <3>2, <1>4, <1>6, <1>14
    <3>3. CASE ~Stored(t) /\ job[r].tok # NoToken
      <4>1. t = n /\ x # NoRow /\ row'[t] = x
        BY <2>1, <3>3, <1>4, <1>6
      <4>2. /\ Stored(Session(r)) /\ Session(r) \in Tokens
            /\ row[Session(r)].session = Session(r)
            /\ x.member = row[Session(r)].member
        BY <3>3, <4>1, <1>12 DEF LineageIdentity, Known, Session, Row, Stored
      <4> QED  BY <3>3, <4>1, <4>2, <1>4, <1>5, <1>12
    <3> QED  BY <3>1, <3>2, <3>3
  <2> QED  BY <2>1 DEF LineageIdentity, Stored
<1>22. SpentHasSuccessor'
  <2>1. ASSUME NEW t \in Tokens, t \in consumed'
        PROVE  \E u \in Tokens : Stored(u)' /\ row'[u].parent = t
    <3>1. CASE t \in consumed
      BY <3>1, <1>4, <1>5 DEF SpentHasSuccessor
    <3>2. CASE t \notin consumed
      <4>1. x # NoRow /\ job[r].tok = t
        BY <2>1, <3>2, <1>1, <1>12, <1>13
      <4> QED  BY <4>1, <1>3, <1>4, <1>6
    <3> QED  BY <3>1, <3>2
  <2>2. ASSUME NEW t \in Tokens, NEW u \in Tokens, Stored(u)', row'[u].parent = t
        PROVE  t \in consumed'
    <3>1. CASE Stored(u)
      BY <2>2, <3>1, <1>1, <1>5 DEF SpentHasSuccessor
    <3>2. CASE ~Stored(u)
      BY <2>2, <3>2, <1>1, <1>3, <1>4, <1>6, <1>12, ConstantsOK
    <3> QED  BY <3>1, <3>2
  <2> QED  BY <2>1, <2>2 DEF SpentHasSuccessor
<1>23. ForksAreConcurrent'
  <2>1. \A t \in Tokens : Stored(t) /\ row[t].parent = job[r].tok /\ x # NoRow
           /\ job[r].tok # NoToken => row[t].slot # r
    BY <1>12 DEF NoOwnFork
  <2>2. ASSUME NEW t \in Tokens, NEW u \in Tokens, t # u, Stored(t)', Stored(u)',
               row'[t].parent = row'[u].parent, row'[t].parent # NoToken
        PROVE  row'[t].slot # row'[u].slot
    <3>1. CASE Stored(t) /\ Stored(u)
      BY <2>2, <3>1, <1>5 DEF ForksAreConcurrent
    <3>2. CASE ~Stored(t)
      BY <2>1, <2>2, <3>2, <1>3, <1>4, <1>5, <1>6
    <3>3. CASE ~Stored(u)
      BY <2>1, <2>2, <3>3, <1>3, <1>4, <1>5, <1>6
    <3> QED  BY <3>1, <3>2, <3>3
  <2> QED  BY <2>2 DEF ForksAreConcurrent
<1> QED  BY <1>8, <1>9, <1>10, <1>15, <1>17, <1>19, <1>20, <1>21, <1>22, <1>23

-----------------------------------------------------------------------------
(* Theorems of the specification.                                          *)

\* Every step keeps the invariant.
LEMMA NextIInv == IInv /\ [Next]_vars => IInv'
<1> SUFFICES ASSUME IInv, [Next]_vars PROVE IInv'
  OBVIOUS
<1>1. ASSUME NEW r \in Requests, Arrive(r) PROVE IInv'
  BY <1>1, ArriveStep
<1>2. ASSUME NEW r \in Requests, Handle(r) PROVE IInv'
  <2>1. CASE DeadlockVictim(r)
    BY <2>1, RollbackStep DEF DeadlockVictim
  <2> QED
    BY <1>2, <2>1, DecideStep, LookupLiveStep, ConsumeStep, InsertStep, ScanStep, RevokeStep,
       ReplyStep, CloseStep DEF Handle
<1>3. ASSUME NEW r \in Requests, Fail(r) PROVE IInv'
  BY <1>3, RollbackStep DEF Fail
<1>4. ASSUME Tick \/ UNCHANGED vars PROVE IInv'
  <2>1. /\ UNCHANGED <<row, consumed, revoked, held, pc, job, sealed>>
        /\ now' \in Nat
    BY <1>4 DEF Tick, vars, DB, IInv, TypeOK
  <2>2. TypeOK'
    BY <2>1 DEF IInv, TypeOK
  <2>3. Fresh' /\ SealedQuiet' /\ LineageIdentity' /\ SpentHasSuccessor'
        /\ ForksAreConcurrent' /\ SealedStaysDead'
    BY <2>1 DEF IInv, Fresh, SealedQuiet, Exchanging, Session, LineageIdentity,
         SpentHasSuccessor, ForksAreConcurrent, SealedStaysDead, Stored
  <2>4. \A r \in Requests : LookedUp(r)' /\ Supplied(r)' /\ WriteSet(r)'
    BY <2>1 DEF IInv, LookedUp, Known, Stored, Spending, Supplied, Dead, WriteSet, Session
  <2>5. \A r \in Requests : NoOwnFork(r)' /\ CleanBurn(r)'
    BY <2>1 DEF IInv, NoOwnFork, CleanBurn, Exchanging, Stored, Session
  <2> QED  BY <2>2, <2>3, <2>4, <2>5 DEF IInv
<1> QED  BY <1>1, <1>2, <1>3, <1>4 DEF Next

\* The inductive invariant holds in every reachable state.
THEOREM Invariance == Spec => []IInv
BY InitIInv, NextIInv, PTL DEF Spec

\* Every variable keeps its type, for any number of slots and tokens.
THEOREM TypeCorrect == Spec => []TypeOK
<1>1. IInv => TypeOK
  BY DEF IInv
<1> QED  BY <1>1, Invariance, PTL

\* Only overlapping requests can spend one token twice: whatever the number
\* of slots, a token has at most one successor per slot.
THEOREM ForksNeedConcurrency == Spec => []ForksAreConcurrent
<1>1. IInv => ForksAreConcurrent
  BY DEF IInv
<1> QED  BY <1>1, Invariance, PTL

\* One request at a time is the guarantee the docstring of refresh.py gives:
\* a token is exchanged at most once.
THEOREM OneTimeUseWhenSerial ==
    ASSUME \A p, q \in Requests : p = q
    PROVE  Spec => []OneTimeUse
<1>1. IInv => OneTimeUse
  <2> SUFFICES ASSUME IInv, NEW t \in Tokens, NEW u \in Tokens, Stored(t), Stored(u),
                      row[t].parent = row[u].parent, row[t].parent # NoToken
               PROVE  t = u
    BY DEF OneTimeUse
  <2>1. row[t].slot \in Requests /\ row[u].slot \in Requests
    BY DEF IInv, TypeOK, Stored, Row
  <2>2. row[t].slot = row[u].slot
    BY <2>1
  <2> QED  BY <2>2 DEF IInv, ForksAreConcurrent
<1> QED  BY <1>1, Invariance, PTL

\* A logout or a detected reuse that no exchange of the lineage overlapped
\* is final: no token of that lineage is live again.
THEOREM RevocationIsFinal == Spec => []SealedStaysDead
<1>1. IInv => SealedStaysDead
  BY DEF IInv
<1> QED  BY <1>1, Invariance, PTL

\* A lineage never changes hands.
THEOREM LineageKeepsItsMember == Spec => []LineageIdentity
<1>1. IInv => LineageIdentity
  BY DEF IInv
<1> QED  BY <1>1, Invariance, PTL

\* The two writes of an exchange are atomic, through crashes, rollbacks and
\* lost commits.
THEOREM ExchangeIsAtomic == Spec => []SpentHasSuccessor
<1>1. IInv => SpentHasSuccessor
  BY DEF IInv
<1> QED  BY <1>1, Invariance, PTL

-----------------------------------------------------------------------------
(* One request at a time.  With a single slot the tables implement         *)
(* OneTimeLineage: what it calls an exchange, or the end of a lineage, is   *)
(* the commit of the request, and everything else is a stutter.            *)

\* A lineage has at most one live token.
OneLive ==
    \A t, u \in Tokens : Live(t) /\ Live(u) /\ row[t].session = row[u].session => t = u

\* Only rows are marked.
MarkedAreStored == \A t \in consumed \cup revoked : Stored(t)

\* Whom nobody overlaps revokes a lineage or nothing.
Shutting(r) ==
    /\ job[r].burn # "raced"
    /\ \A t \in job[r].kills \cup job[r].todo : Stored(t) /\ row[t].session = Session(r)
    /\ pc[r] = "revoke" => Stored(job[r].want) /\ row[job[r].want].session = Session(r)
    /\ job[r].burn = "none" => job[r].kills = {} /\ job[r].todo = {}

\* The token it is exchanging is still the live one of its lineage.
Holding(r) == Exchanging(r) => Live(job[r].tok)

SerialInv ==
    /\ IInv /\ OneLive /\ MarkedAreStored
    /\ \A r \in Requests : Shutting(r) /\ Holding(r)

\* A step that writes no table has to be good for its own slot only, and the
\* lineages do not move.
LEMMA SerialLocal ==
    ASSUME SerialInv, NEW r \in Requests, Requests = {r}, UNCHANGED DB, IInv',
           Shutting(r)', Holding(r)'
    PROVE  SerialInv' /\ UNCHANGED Lineages!vars
<1>1. row' = row /\ consumed' = consumed /\ revoked' = revoked
    BY DEF DB
<1>2. \A t : Stored(t)' = Stored(t) /\ Live(t)' = Live(t)
    BY <1>1 DEF Live, Stored, Dead
<1>3. OneLive' /\ MarkedAreStored'
    BY <1>1, <1>2 DEF SerialInv, OneLive, MarkedAreStored
<1>4. UNCHANGED Lineages!vars
    BY <1>1 DEF Lineages!vars, Live, Stored, Dead
<1>. QED BY <1>3, <1>4 DEF SerialInv

\* What a request has locally, and what its job becomes in a local step.
LEMMA SerialShape ==
    ASSUME SerialInv, NEW r \in Requests
    PROVE  /\ job \in [Requests -> Job] /\ pc \in [Requests -> PCs] /\ job[r] \in Job
           /\ Shutting(r) /\ Holding(r) /\ LookedUp(r) /\ WriteSet(r)
BY DEF SerialInv, IInv, TypeOK

\* A request arrives, or leaves nothing behind.
LEMMA SerialFreshStep ==
    ASSUME SerialInv, NEW r \in Requests, Requests = {r}, IInv', Arrive(r) \/ Rollback(r)
    PROVE  SerialInv' /\ UNCHANGED Lineages!vars
<1>1. PICK j \in Job, l \in {"idle", "insert", "refresh", "logout"} :
        /\ job' = [job EXCEPT ![r] = j] /\ pc' = [pc EXCEPT ![r] = l] /\ UNCHANGED DB
        /\ j.ins = NoRow /\ j.burn = "none" /\ j.kills = {} /\ j.todo = {}
        /\ l = "insert" => j.tok = NoToken
    <2>1. CASE Login(r)
        <3>1. PICK n \in Tokens : job' = [job EXCEPT ![r] = [Idle EXCEPT !.new = n]]
            BY <2>1 DEF Login
        <3>. QED BY <2>1, <3>1 DEF Login, Goto, Idle, Job, TokenOrNone
    <2>2. CASE Refresh(r)
        <3>1. PICK t \in held \cup {NoToken}, n \in TokenOrNone :
                job' = [job EXCEPT ![r] = [Idle EXCEPT !.tok = t, !.new = n]]
            BY <2>2 DEF Refresh
        <3>2. t \in TokenOrNone
            BY DEF SerialInv, IInv, TypeOK, TokenOrNone
        <3>. DEFINE j == [Idle EXCEPT !.tok = t, !.new = n]
        <3>3. j \in Job /\ j.ins = NoRow /\ j.burn = "none" /\ j.kills = {} /\ j.todo = {}
            BY <3>2, IdleJob DEF Idle, Job
        <3>. HIDE DEF j
        <3>4. job' = [job EXCEPT ![r] = j]
            BY <3>1 DEF j
        <3>. QED BY <2>2, <3>3, <3>4 DEF Refresh, Goto
    <2>3. CASE Logout(r)
        <3>1. PICK t \in held \cup {NoToken} : job' = [job EXCEPT ![r] = [Idle EXCEPT !.tok = t]]
            BY <2>3 DEF Logout
        <3>2. t \in TokenOrNone
            BY DEF SerialInv, IInv, TypeOK, TokenOrNone
        <3>. DEFINE j == [Idle EXCEPT !.tok = t]
        <3>3. j \in Job /\ j.ins = NoRow /\ j.burn = "none" /\ j.kills = {} /\ j.todo = {}
            BY <3>2, IdleJob DEF Idle, Job
        <3>. HIDE DEF j
        <3>4. job' = [job EXCEPT ![r] = j]
            BY <3>1 DEF j
        <3>. QED BY <2>3, <3>3, <3>4 DEF Logout, Goto
    <2>4. CASE Rollback(r)
        BY <2>4, IdleJob DEF Rollback, Goto, Idle
    <2>. QED BY <2>1, <2>2, <2>3, <2>4 DEF Arrive
<1>2. job'[r] = j /\ pc'[r] = l
    BY <1>1, SerialShape
<1>3. Shutting(r)'
    BY <1>1, <1>2 DEF Shutting
<1>4. Holding(r)'
    BY <1>1, <1>2 DEF Holding, Exchanging
<1>. QED BY <1>1, <1>3, <1>4, SerialLocal

\* The handler reads, waits or writes what only it can see, and is not at the
\* rows of a lineage.
LEMMA SerialHandlerStep ==
    ASSUME SerialInv, NEW r \in Requests, Requests = {r}, IInv',
           \/ LookupUnknown(r) \/ LookupDead(r) \/ LookupLive(r) \/ DecideExpired(r)
           \/ DecideValid(r) \/ Consume(r) \/ Insert(r) \/ LookupLogout(r) \/ Reply(r)
    PROVE  SerialInv' /\ UNCHANGED Lineages!vars
<1>1. /\ job[r] \in Job /\ Shutting(r) /\ Holding(r) /\ LookedUp(r) /\ WriteSet(r)
      /\ job \in [Requests -> Job] /\ pc \in [Requests -> PCs]
    BY SerialShape
<1>2. /\ UNCHANGED DB /\ pc'[r] # "revoke"
      /\ job'[r].tok = job[r].tok /\ job'[r].kills = job[r].kills
      /\ job'[r].todo = job[r].todo /\ job'[r].burn = job[r].burn
      /\ Exchanging(r)' => Exchanging(r) \/ (Known(r) /\ ~Dead(job[r].tok))
    <2>1. CASE LookupUnknown(r) \/ LookupDead(r) \/ DecideExpired(r)
        BY <1>1, <2>1 DEF LookupUnknown, LookupDead, DecideExpired, Goto, Job, Exchanging
    <2>2. CASE LookupLive(r)
        <3>1. job'[r] = job[r]
            BY <1>1, <2>2 DEF LookupLive, WriteSet
        <3>. QED BY <1>1, <2>2, <3>1 DEF LookupLive, Goto
    <2>3. CASE DecideValid(r) \/ LookupLogout(r) \/ Reply(r)
        BY <1>1, <2>3 DEF DecideValid, LookupLogout, Reply, Goto, Exchanging
    <2>4. CASE Consume(r)
        BY <1>1, <2>4 DEF Consume, Goto, Job, Exchanging
    <2>5. CASE Insert(r)
        <3>1. PICK m \in Members : job' = [job EXCEPT ![r].ins = NewRow(r, m)]
            BY <2>5 DEF Insert
        <3>. QED BY <1>1, <2>5, <3>1 DEF Insert, Goto, Job, Exchanging
    <2>. QED BY <2>1, <2>2, <2>3, <2>4, <2>5
<1>3. row' = row /\ consumed' = consumed /\ revoked' = revoked
    BY <1>2 DEF DB
<1>4. Shutting(r)'
    BY <1>1, <1>2, <1>3 DEF Shutting, Stored, Session
<1>5. Holding(r)'
    BY <1>1, <1>2, <1>3 DEF Holding, Live, Known, Stored, Dead
<1>. QED BY <1>2, <1>4, <1>5, SerialLocal

\* The rows of revoke_session's loop are those of one lineage.
LEMMA SerialLoopStep ==
    ASSUME SerialInv, NEW r \in Requests, Requests = {r}, IInv', Scan(r) \/ Revoke(r)
    PROVE  SerialInv' /\ UNCHANGED Lineages!vars
<1>1. /\ job[r] \in Job /\ Shutting(r) /\ LookedUp(r) /\ WriteSet(r)
      /\ job \in [Requests -> Job] /\ pc \in [Requests -> PCs]
    BY SerialShape
<1>2. /\ job[r].ins = NoRow /\ ~Exchanging(r) /\ UNCHANGED DB
    BY <1>1 DEF Scan, Revoke, WriteSet, Exchanging
<1>3. PICK rest \in SUBSET Tokens, j \in Job :
        /\ NextRow(r, rest, j) /\ j.tok = job[r].tok /\ j.ins = NoRow /\ j.burn = "clean"
        /\ \A t \in j.kills \cup rest : Stored(t) /\ row[t].session = Session(r)
    <2>1. CASE Scan(r)
        <3>. DEFINE b == IF \E q \in Requests : Exchanging(q) /\ Session(q) = Session(r)
                         THEN "raced" ELSE "clean"
                    j == [job[r] EXCEPT !.burn = b]
                    rest == LineageRows(Session(r))
        <3>1. b = "clean"
            BY <1>2
        <3>2. pc[r] = "scan" /\ NextRow(r, rest, j)
            BY <2>1 DEF Scan
        <3>. HIDE DEF b
        <3>3. j \in Job /\ j.tok = job[r].tok /\ j.ins = NoRow /\ j.burn = "clean"
              /\ j.kills = job[r].kills
            BY <1>1, <1>2, <3>1 DEF Job
        <3>4. job[r].kills = {}
            BY <1>1, <3>2 DEF Shutting, WriteSet
        <3>5. rest \in SUBSET Tokens /\ \A t \in rest : Stored(t) /\ row[t].session = Session(r)
            BY DEF LineageRows
        <3>. HIDE DEF j, rest
        <3>. QED BY <3>2, <3>3, <3>4, <3>5
    <2>2. CASE Revoke(r)
        <3>. DEFINE j == [job[r] EXCEPT !.kills = @ \cup {job[r].want}]
        <3>1. pc[r] = "revoke" /\ NextRow(r, job[r].todo, j)
            BY <2>2 DEF Revoke
        <3>2. job[r].want \in Tokens /\ job[r].burn = "clean"
            BY <1>1, <3>1 DEF LookedUp, Shutting, Job
        <3>3. j \in Job /\ j.tok = job[r].tok /\ j.ins = NoRow /\ j.burn = "clean"
              /\ j.kills = job[r].kills \cup {job[r].want} /\ job[r].todo \in SUBSET Tokens
            BY <1>1, <1>2, <3>2 DEF Job
        <3>. HIDE DEF j
        <3>4. \A t \in j.kills \cup job[r].todo : Stored(t) /\ row[t].session = Session(r)
            BY <1>1, <3>1, <3>3 DEF Shutting
        <3>. QED BY <3>1, <3>3, <3>4
    <2>. QED BY <2>1, <2>2
<1>4. PICK i \in Job, l \in {"reply", "revoke"} :
        /\ job' = [job EXCEPT ![r] = i] /\ pc' = [pc EXCEPT ![r] = l]
        /\ i.tok = job[r].tok /\ i.ins = NoRow /\ i.burn = "clean" /\ i.kills = j.kills
        /\ i.todo \subseteq rest /\ (l = "revoke" => i.want \in rest)
    <2>1. CASE rest = {} /\ job' = [job EXCEPT ![r] = [j EXCEPT !.todo = {}, !.want = NoToken]]
               /\ Goto(r, "reply")
        <3>. DEFINE i == [j EXCEPT !.todo = {}, !.want = NoToken]
        <3>1. /\ i \in Job /\ i.tok = j.tok /\ i.ins = j.ins /\ i.burn = j.burn
              /\ i.kills = j.kills /\ i.todo = {}
            BY DEF Job, TokenOrNone
        <3>2. job' = [job EXCEPT ![r] = i]
            BY <2>1
        <3>. HIDE DEF i
        <3>. QED BY <1>3, <2>1, <3>1, <3>2 DEF Goto
    <2>2. ASSUME NEW t \in rest, Goto(r, "revoke"),
                 job' = [job EXCEPT ![r] = [j EXCEPT !.todo = rest \ {t}, !.want = t]]
          PROVE  \E i \in Job, l \in {"reply", "revoke"} :
                    /\ job' = [job EXCEPT ![r] = i] /\ pc' = [pc EXCEPT ![r] = l]
                    /\ i.tok = job[r].tok /\ i.ins = NoRow /\ i.burn = "clean" /\ i.kills = j.kills
                    /\ i.todo \subseteq rest /\ (l = "revoke" => i.want \in rest)
        <3>. DEFINE i == [j EXCEPT !.todo = rest \ {t}, !.want = t]
        <3>1. /\ i \in Job /\ i.tok = j.tok /\ i.ins = j.ins /\ i.burn = j.burn
              /\ i.kills = j.kills /\ i.todo = rest \ {t} /\ i.want = t
            BY DEF Job, TokenOrNone
        <3>. QED BY <1>3, <2>2, <3>1 DEF Goto
    <2>. QED BY <1>3, <2>1, <2>2 DEF NextRow
<1>5. job'[r] = i /\ pc'[r] = l /\ row' = row
    BY <1>1, <1>2, <1>4 DEF DB
<1>6. Shutting(r)'
    BY <1>3, <1>4, <1>5 DEF Shutting, Stored, Session
<1>7. Holding(r)'
    BY <1>4, <1>5 DEF Holding, Exchanging
<1>. QED BY <1>2, <1>6, <1>7, SerialLocal

\* The live tokens by lineage, as OneTimeLineage has them.
LiveOf == [s \in Tokens |-> {t \in Tokens : Live(t) /\ row[t].session = s}]

\* Where a commit changes the live tokens of one lineage only, so does live.
LEMMA LiveMoves ==
    ASSUME NEW f \in Tokens, NEW S \in SUBSET Tokens,
           \A s, t \in Tokens : (Live(t)' /\ row'[t].session = s)
               <=> IF s = f THEN t \in S ELSE Live(t) /\ row[t].session = s
    PROVE  LiveOf' = [LiveOf EXCEPT ![f] = S]
<1>1. ASSUME NEW s \in Tokens
      PROVE  {t \in Tokens : Live(t)' /\ row'[t].session = s}
             = IF s = f THEN S ELSE {t \in Tokens : Live(t) /\ row[t].session = s}
    OBVIOUS
<1>. QED BY <1>1 DEF LiveOf

\* The commit of the only request opens a lineage, exchanges its live token,
\* shuts it or does nothing.
LEMMA SerialCloseStep ==
    ASSUME SerialInv, NEW r \in Requests, Requests = {r}, IInv', Close(r)
    PROVE  SerialInv' /\ [Lineages!Next]_(Lineages!vars)
<1>. DEFINE n == job[r].new
            x == job[r].ins
            t0 == job[r].tok
<1>1. /\ row' = IF x # NoRow THEN [row EXCEPT ![n] = x] ELSE row
      /\ consumed' = consumed \cup job[r].marks
      /\ revoked' = revoked \cup job[r].kills
      /\ job' = [job EXCEPT ![r] = Idle] /\ pc' = [pc EXCEPT ![r] = "idle"] /\ pc[r] = "close"
    BY DEF Close, Goto
<1>2. /\ job[r] \in Job /\ Shutting(r) /\ Holding(r) /\ LookedUp(r) /\ WriteSet(r)
      /\ job \in [Requests -> Job] /\ pc \in [Requests -> PCs]
      /\ row \in [Tokens -> Row \cup {NoRow}]
    BY SerialShape DEF SerialInv, IInv, TypeOK
<1>3. job'[r] = Idle /\ pc'[r] = "idle"
    BY <1>1, <1>2
<1>4. Shutting(r)' /\ Holding(r)'
    BY <1>3 DEF Shutting, Holding, Exchanging, Idle
<1>5. x = NoRow => job[r].marks = {}
    BY <1>1, <1>2 DEF WriteSet, Spending
<1>6. x # NoRow =>
        /\ n \in Tokens /\ ~Stored(n) /\ x \in Row
        /\ job[r].kills = {}
        /\ t0 = NoToken => x.session = n /\ job[r].marks = {}
        /\ t0 # NoToken => /\ t0 \in Tokens /\ Live(t0) /\ job[r].marks = {t0}
                           /\ x.session = Session(r)
    <2>. SUFFICES ASSUME x # NoRow
                  PROVE  /\ n \in Tokens /\ ~Stored(n) /\ x \in Row
                         /\ job[r].kills = {}
                         /\ t0 = NoToken => x.session = n /\ job[r].marks = {}
                         /\ t0 # NoToken => /\ t0 \in Tokens /\ Live(t0) /\ job[r].marks = {t0}
                                            /\ x.session = Session(r)
        OBVIOUS
    <2>1. n \in Tokens
        BY DEF SerialInv, IInv, Supplied
    <2>2. ~Stored(n)
        BY <2>1, ConstantsOK DEF SerialInv, IInv, Fresh
    <2>3. x \in Row
        BY <1>2 DEF Job
    <2>4. job[r].burn = "none" /\ job[r].kills = {}
        BY <1>2 DEF WriteSet, Shutting
    <2>5. t0 = NoToken => x.session = n /\ job[r].marks = {}
        BY <1>1, <1>2 DEF WriteSet, Spending
    <2>6. t0 # NoToken => /\ t0 \in Tokens /\ Live(t0) /\ job[r].marks = {t0}
                          /\ x.session = Session(r)
        BY <1>2 DEF WriteSet, Spending, Holding, Exchanging, Job, TokenOrNone
    <2>. QED BY <2>1, <2>2, <2>3, <2>4, <2>5, <2>6
<1>7. x # NoRow =>
        /\ \A t \in Tokens : Stored(t)' <=> Stored(t) \/ t = n
        /\ \A t \in Tokens : t # n => row'[t] = row[t]
        /\ row'[n] = x
    BY <1>1, <1>2, <1>6, ConstantsOK DEF Stored
<1>. HIDE DEF n, x, t0
<1>8. CASE x = NoRow /\ job[r].burn = "none"
    <2>1. UNCHANGED DB
        BY <1>1, <1>2, <1>5, <1>8 DEF Shutting, DB
    <2>. QED BY <1>4, <2>1, SerialLocal
<1>9. CASE x = NoRow /\ job[r].burn = "clean"
    <2>. DEFINE s0 == Session(r)
    <2>1. row' = row /\ consumed' = consumed /\ revoked' = revoked \cup job[r].kills
        BY <1>1, <1>5, <1>9
    <2>2. s0 \in Tokens /\ Stored(s0)
        BY <1>2, <1>9
        DEF SerialInv, IInv, LookedUp, Known, Session, Job, TokenOrNone, LineageIdentity, Stored, Row
    <2>3. \A t \in job[r].kills : Stored(t) /\ row[t].session = s0
        BY <1>2 DEF Shutting
    <2>4. \A t \in Tokens : Stored(t) /\ row[t].session = s0 => t \in revoked \cup job[r].kills
        BY <1>1, <1>9, ConstantsOK DEF SerialInv, IInv, CleanBurn
    <2>. HIDE DEF s0
    <2>5. \A t \in Tokens : Live(t)' <=> Live(t) /\ row[t].session # s0
        BY <2>1, <2>3, <2>4 DEF Live, Dead, Stored
    <2>6. OneLive'
        BY <2>1, <2>5 DEF SerialInv, OneLive
    <2>7. MarkedAreStored'
        BY <2>1, <2>3 DEF SerialInv, MarkedAreStored, Stored
    <2>8. LiveOf' = [LiveOf EXCEPT ![s0] = {}]
        <3>1. \A s, t \in Tokens : (Live(t)' /\ row'[t].session = s)
                <=> IF s = s0 THEN t \in {} ELSE Live(t) /\ row[t].session = s
            BY <2>1, <2>5
        <3>. QED BY <2>2, <3>1, LiveMoves
    <2>9. {t \in Tokens : Stored(t)}' = {t \in Tokens : Stored(t)}
        BY <2>1 DEF Stored
    <2>10. PICK s \in Tokens : s = s0
        BY <2>2
    <2>11. Lineages!Shut(s)
        BY <2>2, <2>8, <2>9, <2>10 DEF Lineages!Shut, LiveOf
    <2>12. Lineages!Next
        BY <2>11 DEF Lineages!Next
    <2>. QED BY <1>4, <2>6, <2>7, <2>12 DEF SerialInv
<1>10. CASE x # NoRow
    <2>1. /\ revoked' = revoked /\ consumed' = consumed \cup job[r].marks
          /\ n \notin consumed \cup revoked
        BY <1>1, <1>6, <1>10 DEF SerialInv, MarkedAreStored
    <2>2. job[r].marks \subseteq {t0} \cap Tokens /\ n \notin job[r].marks
        BY <1>6, <1>10 DEF Live
    <2>3. \A t \in Tokens : Live(t)' <=> (Live(t) /\ t \notin job[r].marks) \/ t = n
        BY <1>6, <1>7, <1>10, <2>1, <2>2 DEF Live, Dead
    <2>4. MarkedAreStored'
        BY <1>6, <1>7, <1>10, <2>1, <2>2 DEF SerialInv, MarkedAreStored, Live, IInv, TypeOK
    <2>5. {t \in Tokens : Stored(t)}' = {t \in Tokens : Stored(t)} \cup {n}
          /\ n \notin {t \in Tokens : Stored(t)}
        BY <1>6, <1>7, <1>10
    <2>6. CASE t0 = NoToken
        <3>1. x.session = n /\ job[r].marks = {}
            BY <1>6, <1>10, <2>6
        <3>2. \A t \in Tokens : Stored(t) => row[t].session # n
            BY <1>6, <1>10 DEF SerialInv, IInv, LineageIdentity
        <3>3. \A s, t \in Tokens : (Live(t)' /\ row'[t].session = s)
                <=> IF s = n THEN t \in {n} ELSE Live(t) /\ row[t].session = s
            BY <1>6, <1>7, <1>10, <2>3, <3>1, <3>2 DEF Live
        <3>4. OneLive'
            BY <1>7, <1>10, <2>3, <3>1, <3>2 DEF SerialInv, OneLive, Live
        <3>5. LiveOf' = [LiveOf EXCEPT ![n] = {n}]
            <4>. DEFINE S == {n}
            <4>1. n \in Tokens /\ S \in SUBSET Tokens
                BY <1>6, <1>10
            <4>2. \A s, t \in Tokens : (Live(t)' /\ row'[t].session = s)
                    <=> IF s = n THEN t \in S ELSE Live(t) /\ row[t].session = s
                BY <3>3
            <4>. HIDE DEF S
            <4>3. LiveOf' = [LiveOf EXCEPT ![n] = S]
                BY <4>1, <4>2, LiveMoves
            <4>. QED BY <4>3 DEF S
        <3>6. PICK s \in Tokens : s = n
            BY <1>6, <1>10
        <3>7. Lineages!Open(s)
            BY <2>5, <3>5, <3>6 DEF Lineages!Open, LiveOf
        <3>8. Lineages!Next
            BY <3>7 DEF Lineages!Next
        <3>. QED BY <1>4, <2>4, <3>4, <3>8 DEF SerialInv
    <2>7. CASE t0 # NoToken
        <3>. DEFINE s0 == Session(r)
        <3>1. t0 \in Tokens /\ Live(t0) /\ job[r].marks = {t0} /\ x.session = s0
              /\ row[t0].session = s0
            BY <1>6, <1>10, <2>7 DEF Session, t0
        <3>2. s0 \in Tokens /\ n # t0
            BY <1>2, <1>6, <1>10, <3>1 DEF Live, Stored, Row
        <3>. HIDE DEF s0
        <3>3. \A t \in Tokens : Live(t) /\ row[t].session = s0 <=> t = t0
            BY <3>1 DEF SerialInv, OneLive
        <3>4. \A s, t \in Tokens : (Live(t)' /\ row'[t].session = s)
                <=> IF s = s0 THEN t \in {n} ELSE Live(t) /\ row[t].session = s
            BY <1>6, <1>7, <1>10, <2>3, <3>1, <3>3 DEF Live
        <3>5. OneLive'
            BY <1>7, <1>10, <2>3, <3>1, <3>3 DEF SerialInv, OneLive
        <3>6. LiveOf' = [LiveOf EXCEPT ![s0] = {n}]
            BY <1>6, <1>10, <3>2, <3>4, LiveMoves
        <3>7. LiveOf[s0] = {t0}
            BY <3>1, <3>2, <3>3 DEF LiveOf
        <3>8. PICK s, c, u \in Tokens : s = s0 /\ c = t0 /\ u = n
            BY <1>6, <1>10, <3>1, <3>2
        <3>9. Lineages!Exchange(s, c, u)
            BY <2>5, <3>6, <3>7, <3>8 DEF Lineages!Exchange, LiveOf
        <3>10. Lineages!Next
            BY <3>9 DEF Lineages!Next
        <3>. QED BY <1>4, <2>4, <3>5, <3>10 DEF SerialInv
    <2>. QED BY <2>6, <2>7
<1>. QED BY <1>2, <1>8, <1>9, <1>10 DEF Shutting, Job

\* Every step of the only request is one of OneTimeLineage or changes nothing
\* that it has.
LEMMA SerialNext ==
    ASSUME \A p, q \in Requests : p = q, SerialInv, [Next]_vars
    PROVE  SerialInv' /\ [Lineages!Next]_(Lineages!vars)
<1>1. IInv'
    BY NextIInv DEF SerialInv
<1>2. PICK r \in Requests : Requests = {r}
    BY ConstantsOK
<1>3. CASE Tick \/ UNCHANGED vars
    <2>1. UNCHANGED <<row, consumed, revoked, pc, job>> /\ UNCHANGED DB
        BY <1>3 DEF Tick, vars, DB
    <2>2. Shutting(r)' /\ Holding(r)'
        BY <2>1, SerialShape
        DEF Shutting, Holding, Exchanging, Live, Stored, Dead, Session
    <2>. QED BY <1>1, <1>2, <2>1, <2>2, SerialLocal
<1>4. CASE Arrive(r) \/ Fail(r) \/ DeadlockVictim(r)
    BY <1>1, <1>2, <1>4, SerialFreshStep DEF Fail, DeadlockVictim
<1>5. CASE Handle(r) /\ ~DeadlockVictim(r)
    BY <1>1, <1>2, <1>5, SerialHandlerStep, SerialLoopStep, SerialCloseStep DEF Handle
<1>. QED BY <1>2, <1>3, <1>4, <1>5 DEF Next

\* Nothing is minted at first.
LEMMA SerialInit == Init => SerialInv /\ Lineages!Init
<1>. SUFFICES ASSUME Init PROVE SerialInv /\ Lineages!Init
    OBVIOUS
<1>1. \A t \in Tokens : ~Stored(t)
    BY DEF Init, Stored
<1>2. OneLive /\ MarkedAreStored
    BY <1>1 DEF Init, OneLive, MarkedAreStored, Live
<1>3. \A r \in Requests : Shutting(r) /\ Holding(r)
    BY DEF Init, Idle, Shutting, Holding, Exchanging
<1>4. Lineages!Init
    BY <1>1 DEF Lineages!Init, Live
<1>. QED BY <1>2, <1>3, <1>4, InitIInv DEF SerialInv

\* When requests do not overlap, rotation keeps its promise in full: whatever
\* the clients present and wherever a transaction breaks off, the committed
\* tables only ever open a lineage, replace its one live token by the next or
\* shut it.
THEOREM SerialImplementsLineages ==
    ASSUME \A p, q \in Requests : p = q
    PROVE  Spec => ImplementsLineages
<1>1. SerialInv /\ [Next]_vars => SerialInv' /\ [Lineages!Next]_(Lineages!vars)
    BY SerialNext
<1>. QED BY <1>1, SerialInit, PTL DEF Spec, ImplementsLineages, Lineages!Spec

-----------------------------------------------------------------------------
(* The requests beneath a browser: what they hold besides IInv.            *)

\* A free slot has nothing, and a request that mints, or still may, has not
\* been refused.
Outcome(r) ==
    /\ pc[r] = "idle" => job[r] = Idle
    /\ pc[r] \in {"refresh", "logout", "decide", "consume", "insert"} \/ job[r].ins # NoRow
       => job[r].status = "ok"

\* The rows a revocation has updated and is going to are of its lineage.
RowsOfLineage(r) ==
    /\ job[r].burn = "none" => job[r].kills = {} /\ job[r].todo = {}
    /\ \A t \in job[r].kills \cup job[r].todo : Stored(t) /\ row[t].session = Session(r)
    /\ pc[r] = "revoke" => Stored(job[r].want) /\ row[job[r].want].session = Session(r)

\* Clients present what they were given; what is minted is given to them when
\* the answer leaves.
Handed(r) ==
    /\ job[r].tok \in held \cup {NoToken}
    /\ job[r].new \in held <=> pc[r] = "close" /\ job[r].ins # NoRow

SlotsInv ==
    /\ IInv /\ MarkedAreStored
    /\ \A r \in Requests : Outcome(r) /\ RowsOfLineage(r) /\ Handed(r)

-----------------------------------------------------------------------------
(* The invariant of the browser.                                           *)

\* The handler of r is running: it has been called and has not answered.
Running(r) == pc[r] \notin {"idle", "close"}

\* r has minted t and not committed it.
Pending(r, t) == job[r].ins # NoRow /\ job[r].new = t

\* Nobody has spent or revoked t nor, but for r, is about to commit that.
CleanBut(r, t) == ~Dead(t) /\ \A q \in Requests \ {r} : t \notin Locks(q)
Clean(t) == ~Dead(t) /\ \A q \in Requests : t \notin Locks(q)

\* No accident has happened to the session of t; t and u are of one such.
Fine(t) == SessionOf(t) \notin excused
Linked(t, u) == Fine(t) /\ SessionOf(t) = SessionOf(u)

\* Where the browser has tokens apart from the jar: the cookie it has sent
\* with a request that is not over and the one that comes back.
Carries(r, t) == wire[r].state # "none" /\ t \in {wire[r].tok, wire[r].cookie}

\* The session of t is revoked, or will be with the commit of a request that
\* no exchange has overlapped.
Over(t) ==
    \/ SessionOf(t) \in sealed
    \/ \E q \in Requests : pc[q] = "close" /\ job[q].burn = "clean" /\ Session(q) = SessionOf(t)

\* The browser has no token of the session of t any more.
Gone(t) == \A u \in held : Linked(t, u) => jar # u /\ \A r \in Requests : ~Carries(r, u)

\* What is on the wire agrees with what the slot is doing; a request whose
\* sender is not waiting for it has an excuse.
OnTheWire(r) ==
    /\ wire[r].state = "none" =>
         /\ wire[r] = Quiet
         /\ Running(r) => \A t \in held : job[r].tok = t => ~Fine(t)
    /\ wire[r].state = "open" =>
         /\ Running(r)
         /\ wire[r].tok = job[r].tok /\ ~wire[r].sets /\ wire[r].cookie = NoToken
    /\ wire[r].state = "answer" =>
         /\ ~Running(r)
         /\ pc[r] = "close" => wire[r] = Answer(r)
         /\ wire[r].cookie # NoToken =>
              wire[r].sets /\ (wire[r].tok # NoToken => Stored(wire[r].tok))

\* A token a client was given has a row, is to get one, or was lost with it.
Traced ==
    /\ \A r \in Requests : {wire[r].tok, wire[r].cookie} \subseteq held \cup {NoToken}
    /\ \A t \in held : Stored(t) \/ ~Fine(t) \/ \E q \in Requests : Pending(q, t)

\* A session that is not excused is in one place: one request on the wire at
\* most is about it, and if the jar has it too, the request was sent with that.
OnePlace ==
    /\ \A p, q \in Requests : \A t, u \in held :
         p # q /\ Carries(p, t) /\ Carries(q, u) => ~Linked(t, u)
    /\ \A r \in Requests : \A t, u \in held :
         jar = t /\ Carries(r, u) /\ Linked(t, u) => t = wire[r].tok

\* The cookie in the jar is good unless a request is out with it.
JarClean ==
    \A t \in held : jar = t /\ Fine(t) /\ (\A r \in Requests : ~Carries(r, t)) => Clean(t)

\* A request that is served finds its token good; if it revokes a session it
\* is a logout, and nobody overlaps it.
Served(r) ==
    wire[r].state = "open" => \A t \in held : wire[r].tok = t /\ Fine(t) =>
        /\ CleanBut(r, t)
        /\ pc[r] = "scan" \/ job[r].burn # "none" => job[r].status = "ok"
        /\ job[r].burn # "raced"
        /\ pc[r] = "reply" /\ job[r].ins = NoRow /\ job[r].status = "ok" /\ job[r].burn = "none"
           => SessionOf(t) \in early

\* An answer brings a good cookie, leaves a good one, or ends the session.
Answered(r) ==
    wire[r].state = "answer" => \A t \in held : Fine(t) =>
        /\ wire[r].cookie = t => Clean(t)
        /\ wire[r].tok = t /\ ~wire[r].sets => Clean(t)
        /\ wire[r].tok = t /\ wire[r].sets /\ wire[r].cookie = NoToken
           => SessionOf(t) \in early \/ Over(t)

\* While a token that was delivered is not committed, it is the only one of
\* its session the browser has.
Newest(r) ==
    wire[r].state = "none" /\ pc[r] = "close" /\ job[r].ins # NoRow =>
        \A t, u \in held : job[r].new = t /\ Linked(t, u) =>
            /\ jar = u => u = t
            /\ \A q \in Requests : Carries(q, u) => wire[q].tok = t

\* A session whose logout was confirmed is over, and the browser is rid of it.
SignedOut ==
    \A t \in out : Fine(t) => SessionOf(t) \in early \/ (Over(t) /\ Gone(t))

WiresInv ==
    /\ \A r \in Requests : OnTheWire(r) /\ Served(r) /\ Answered(r) /\ Newest(r)
    /\ Traced /\ OnePlace /\ JarClean /\ SignedOut

BrowserInv == SlotsInv /\ BrowserTypeOK /\ WiresInv
-----------------------------------------------------------------------------
(* What SessionOf says of a token, and what a slot is to one.              *)

\* A stored token belongs to the session of its row, a pending one to that of
\* the row to come, and any other is a session of its own.
SessionsAreRows ==
    \A t \in Tokens :
        /\ Stored(t) => SessionOf(t) = row[t].session
        /\ \A q \in Requests : ~Stored(t) /\ Pending(q, t) => SessionOf(t) = job[q].ins.session
        /\ ~Stored(t) /\ (\A q \in Requests : ~Pending(q, t)) => SessionOf(t) = t

\* Only one slot can be minting a token, so the definition has no choice.
LEMMA SessionsLemma == IInv => SessionsAreRows
<1>. SUFFICES ASSUME IInv, NEW t \in Tokens
              PROVE  /\ Stored(t) => SessionOf(t) = row[t].session
                     /\ \A q \in Requests : ~Stored(t) /\ Pending(q, t) => SessionOf(t) = job[q].ins.session
                     /\ ~Stored(t) /\ (\A q \in Requests : ~Pending(q, t)) => SessionOf(t) = t
    BY DEF SessionsAreRows
<1>1. Stored(t) => SessionOf(t) = row[t].session
    BY DEF SessionOf
<1>2. ASSUME NEW q \in Requests, ~Stored(t), Pending(q, t)
      PROVE  SessionOf(t) = job[q].ins.session
    <2>1. \A p \in Requests : job[p].new = t <=> p = q
        BY <1>2, ConstantsOK DEF IInv, Fresh, Pending
    <2>2. (CHOOSE p \in Requests : job[p].new = t) = q
        BY <2>1
    <2>3. \E p \in Requests : job[p].new = t /\ job[p].ins # NoRow
        BY <1>2 DEF Pending
    <2>. QED BY <1>2, <2>2, <2>3 DEF SessionOf
<1>3. ~Stored(t) /\ (\A q \in Requests : ~Pending(q, t)) => SessionOf(t) = t
    BY DEF SessionOf, Pending
<1>. QED BY <1>1, <1>2, <1>3

\* The same of the next state.
LEMMA SessionsNext == IInv' => SessionsAreRows'
BY SessionsLemma, PTL

\* A request that has found its token works on the session of that.
LEMMA SessionOfRequest ==
    ASSUME IInv, NEW r \in Requests, Known(r)
    PROVE  job[r].tok \in Tokens /\ Session(r) = SessionOf(job[r].tok)
<1>1. job[r].tok \in Tokens /\ Stored(job[r].tok)
    BY DEF Known, IInv, TypeOK, Job, TokenOrNone
<1>. QED BY <1>1, SessionsLemma DEF SessionsAreRows, Session
-----------------------------------------------------------------------------
(* The steps of the requests.                                              *)

\* A step of another slot leaves q alone, but an exchange may overlap a
\* revocation of q's.
Alike(q) ==
    /\ pc'[q] = pc[q]
    /\ job'[q].tok = job[q].tok /\ job'[q].new = job[q].new /\ job'[q].ins = job[q].ins
    /\ job'[q].marks = job[q].marks /\ job'[q].kills = job[q].kills
    /\ job'[q].todo = job[q].todo /\ job'[q].want = job[q].want
    /\ job'[q].status = job[q].status
    /\ job'[q].burn = job[q].burn \/ (job[q].burn = "clean" /\ job'[q].burn = "raced")

\* A step of r keeps what SlotsInv says of the others.
LEMMA OtherSlots ==
    ASSUME SlotsInv, NEW r \in Requests, NEW q \in Requests \ {r}, Alike(q),
           pc[q] = "idle" => job'[q] = job[q],
           \A t \in Tokens : Stored(t) => Stored(t)' /\ row'[t] = row[t],
           held' = held \/ (held' = held \cup {job[r].new} /\ job[r].new \in Tokens)
    PROVE  Outcome(q)' /\ RowsOfLineage(q)' /\ Handed(q)'
<1>1. Outcome(q) /\ RowsOfLineage(q) /\ Handed(q) /\ LookedUp(q) /\ job[q] \in Job
    BY DEF SlotsInv, IInv, TypeOK
<1>2. Outcome(q)'
    BY <1>1 DEF Outcome, Alike
<1>3. job[q].burn # "none" \/ pc[q] = "revoke" => Known(q) /\ Session(q)' = Session(q)
    BY <1>1 DEF LookedUp, Known, Session, Alike, Job, TokenOrNone
<1>4. RowsOfLineage(q)'
    BY <1>1, <1>3 DEF RowsOfLineage, LookedUp, Alike, Job
<1>5. job[r].new \in Tokens => job[q].new # job[r].new
    BY ConstantsOK DEF SlotsInv, IInv, Fresh
<1>6. Handed(q)'
    BY <1>1, <1>5 DEF Handed, Alike
<1>. QED BY <1>2, <1>4, <1>6

\* What a step of the handler between arrival and answer does: it writes no
\* table, and locks rows of its own session only.
Works(r) ==
    /\ UNCHANGED <<DB, held, sealed>> /\ Running(r) /\ pc'[r] \notin {"idle", "close"}
    /\ job'[r].tok = job[r].tok /\ job'[r].new = job[r].new /\ job[r].ins = NoRow
    /\ \A q \in Requests \ {r} :
         /\ Alike(q) /\ (pc[q] = "idle" => job'[q] = job[q])
         /\ job'[q].burn # job[q].burn => Known(r) /\ Session(q) = Session(r)
    /\ \A t \in Tokens : t \in job'[r].marks \cup job'[r].kills
         => t \in Locks(r) \/ (Known(r) /\ Stored(t) /\ row[t].session = Session(r))
    /\ job'[r].status = job[r].status \/ (pc'[r] \in {"reply", "scan"} /\ job'[r].status = "unauthorized")
    /\ pc'[r] = "scan" =>
         Known(r) /\ (Dead(job[r].tok) \/ (pc[r] = "logout" /\ job'[r].status = job[r].status))
    /\ job'[r].burn # "none" =>
         /\ pc[r] \in {"scan", "revoke"} /\ job'[r].status = job[r].status
         /\ job'[r].burn = "raced" => \/ job[r].burn = "raced"
                                      \/ \E q \in Requests : Exchanging(q) /\ Session(q) = Session(r)
    /\ pc'[r] = "reply" /\ job'[r].ins = NoRow /\ job'[r].status = "ok" /\ job'[r].burn = "none"
         => LookupLogout(r) /\ ~Known(r)

\* The steps of Works.
WorkStep(r) ==
    \/ LookupUnknown(r) \/ LookupDead(r) \/ LookupLive(r)
    \/ DecideExpired(r) \/ DecideValid(r) \/ Consume(r) \/ Insert(r)
    \/ LookupLogout(r) \/ Scan(r) \/ Revoke(r)

\* What the invariant says of a single slot.
LEMMA SlotFacts ==
    ASSUME SlotsInv, NEW r \in Requests
    PROVE  /\ job[r] \in Job /\ job \in [Requests -> Job] /\ pc \in [Requests -> PCs]
           /\ LookedUp(r) /\ Supplied(r) /\ WriteSet(r)
           /\ Outcome(r) /\ RowsOfLineage(r) /\ Handed(r)
BY DEF SlotsInv, IInv, TypeOK

\* The slots beside the one that moves.
LEMMA OthersAlike ==
    ASSUME SlotsInv, NEW r \in Requests, NEW j, NEW l,
           job' = [job EXCEPT ![r] = j], pc' = [pc EXCEPT ![r] = l]
    PROVE  /\ job'[r] = j /\ pc'[r] = l
           /\ \A q \in Requests \ {r} : Alike(q) /\ job'[q] = job[q] /\ pc'[q] = pc[q]
<1>1. job \in [Requests -> Job] /\ pc \in [Requests -> PCs]
    BY SlotFacts
<1>. QED BY <1>1 DEF Alike

\* With LocalWork a step that moves r from job[r] to j and to l has its
\* conditions to show for r only.
LEMMA LocalWork ==
    ASSUME SlotsInv, IInv', NEW r \in Requests, NEW j, NEW l,
           job' = [job EXCEPT ![r] = j], pc' = [pc EXCEPT ![r] = l],
           UNCHANGED <<DB, held>>, Outcome(r)', RowsOfLineage(r)', Handed(r)'
    PROVE  SlotsInv'
<1>1. \A q \in Requests \ {r} : Alike(q) /\ job'[q] = job[q]
    BY OthersAlike
<1>2. row' = row /\ consumed' = consumed /\ revoked' = revoked /\ held' = held
    BY DEF DB
<1>3. \A t \in Tokens : Stored(t) => Stored(t)' /\ row'[t] = row[t]
    BY <1>2 DEF Stored
<1>4. \A q \in Requests \ {r} : Outcome(q)' /\ RowsOfLineage(q)' /\ Handed(q)'
    BY <1>1, <1>2, <1>3, OtherSlots
<1>5. MarkedAreStored'
    BY <1>2 DEF SlotsInv, MarkedAreStored, Stored
<1>. QED BY <1>4, <1>5 DEF SlotsInv
\* The lookups that do not begin an exchange, and the expiry check.
LEMMA DecideWorks ==
    ASSUME SlotsInv, IInv', NEW r \in Requests,
           \/ LookupUnknown(r) \/ LookupDead(r) \/ DecideExpired(r) \/ DecideValid(r)
           \/ LookupLogout(r)
    PROVE  SlotsInv' /\ Works(r)
<1>1. PICK j \in Job, l \in PCs :
        /\ job' = [job EXCEPT ![r] = j] /\ pc' = [pc EXCEPT ![r] = l]
        /\ j = job[r] \/ (j = [job[r] EXCEPT !.status = "unauthorized"] /\ l \in {"reply", "scan"})
        /\ pc[r] \in {"refresh", "decide", "logout"} /\ l \in {"reply", "scan", "consume"}
        /\ l = "reply" => \/ j.status = "unauthorized"
                          \/ LookupLogout(r) /\ ~Known(r)
        /\ l = "consume" => pc[r] = "decide"
        /\ l = "scan" => Known(r) /\ (Dead(job[r].tok) \/ (pc[r] = "logout" /\ j = job[r]))
    <2>1. job[r] \in Job /\ [job[r] EXCEPT !.status = "unauthorized"] \in Job
          /\ [job[r] EXCEPT !.status = "unauthorized"].status = "unauthorized"
          /\ job = [job EXCEPT ![r] = job[r]]
        BY SlotFacts DEF Job
    <2>. DEFINE u == [job[r] EXCEPT !.status = "unauthorized"]
    <2>2. CASE LookupUnknown(r)
        BY <2>1, <2>2 DEF LookupUnknown, Goto, PCs
    <2>3. CASE LookupDead(r)
        BY <2>1, <2>3 DEF LookupDead, Goto, PCs
    <2>4. CASE DecideExpired(r)
        BY <2>1, <2>4 DEF DecideExpired, Goto, PCs
    <2>5. CASE DecideValid(r)
        BY <2>1, <2>5 DEF DecideValid, Goto, PCs
    <2>6. CASE LookupLogout(r)
        <3>. DEFINE l == IF Known(r) THEN "scan" ELSE "reply"
        <3>1. pc' = [pc EXCEPT ![r] = l] /\ job' = job /\ pc[r] = "logout"
            BY <2>6 DEF LookupLogout, Goto
        <3>2. l \in PCs /\ l \in {"reply", "scan"} /\ (l = "scan" <=> Known(r))
            BY DEF PCs
        <3>. HIDE DEF l
        <3>. QED BY <2>1, <2>6, <3>1, <3>2
    <2>. QED BY <2>2, <2>3, <2>4, <2>5, <2>6
<1>2. UNCHANGED <<DB, now, held, sealed>>
    BY DEF LookupUnknown, LookupDead, DecideExpired, DecideValid, LookupLogout
<1>3. /\ j.tok = job[r].tok /\ j.new = job[r].new /\ j.ins = job[r].ins
      /\ j.marks = job[r].marks /\ j.kills = job[r].kills /\ j.todo = job[r].todo
      /\ j.want = job[r].want /\ j.burn = job[r].burn
      /\ j.status = job[r].status \/ (j.status = "unauthorized" /\ l \in {"reply", "scan"})
    BY <1>1, SlotFacts DEF Job
<1>4. job[r].ins = NoRow /\ job[r].burn = "none" /\ Running(r)
    BY <1>1, SlotFacts DEF WriteSet, Running
<1>5. /\ job'[r] = j /\ pc'[r] = l
      /\ \A q \in Requests \ {r} : Alike(q) /\ job'[q] = job[q] /\ pc'[q] = pc[q]
    BY <1>1, OthersAlike
<1>6. row' = row /\ held' = held
    BY <1>2 DEF DB
<1>7. Outcome(r)'
    BY <1>1, <1>3, <1>4, <1>5, SlotFacts DEF Outcome
<1>8. RowsOfLineage(r)'
    BY <1>1, <1>3, <1>4, <1>5, SlotFacts DEF RowsOfLineage
<1>9. Handed(r)'
    BY <1>1, <1>3, <1>4, <1>5, <1>6, SlotFacts DEF Handed
<1>10. SlotsInv'
    BY <1>1, <1>2, <1>7, <1>8, <1>9, LocalWork
<1>11. Works(r)
    BY <1>1, <1>2, <1>3, <1>4, <1>5 DEF Works, Locks
<1>. QED BY <1>10, <1>11

\* Beginning an exchange changes nothing but the histories of the revocations
\* that it overlaps.
LEMMA LookupLiveWorks ==
    ASSUME SlotsInv, IInv', NEW r \in Requests, LookupLive(r)
    PROVE  SlotsInv' /\ Works(r)
<1>1. pc[r] = "refresh" /\ job[r].ins = NoRow /\ job[r].burn = "none" /\ Known(r)
    BY SlotFacts DEF LookupLive, WriteSet
<1>2. row' = row /\ consumed' = consumed /\ revoked' = revoked /\ held' = held
      /\ UNCHANGED <<DB, held, sealed>>
    BY DEF LookupLive, DB
<1>3. pc'[r] = "decide" /\ job'[r] = job[r]
    BY <1>1, SlotFacts DEF LookupLive, Goto
<1>4. ASSUME NEW q \in Requests \ {r}
      PROVE  /\ Alike(q) /\ (job[q].burn # "clean" => job'[q] = job[q])
             /\ job'[q].burn # job[q].burn => Session(q) = Session(r)
    <2>1. pc'[q] = pc[q] /\ job[q] \in Job
        BY SlotFacts DEF LookupLive, Goto
    <2>2. job'[q] = IF job[q].burn = "clean" /\ Session(q) = Session(r)
                    THEN [job[q] EXCEPT !.burn = "raced"] ELSE job[q]
        BY DEF LookupLive
    <2>. QED BY <2>1, <2>2 DEF Alike, Job
<1>5. \A q \in Requests \ {r} : pc[q] = "idle" => job'[q] = job[q]
    BY <1>4, SlotFacts DEF Outcome, Idle
<1>6. \A q \in Requests \ {r} : Outcome(q)' /\ RowsOfLineage(q)' /\ Handed(q)'
    <2>1. \A t \in Tokens : Stored(t) => Stored(t)' /\ row'[t] = row[t]
        BY <1>2 DEF Stored
    <2>. QED BY <1>2, <1>4, <1>5, <2>1, OtherSlots
<1>7. Outcome(r)' /\ RowsOfLineage(r)' /\ Handed(r)'
    BY <1>1, <1>2, <1>3, SlotFacts DEF Outcome, RowsOfLineage, Handed
<1>8. MarkedAreStored'
    BY <1>2 DEF SlotsInv, MarkedAreStored, Stored
<1>9. SlotsInv'
    BY <1>6, <1>7, <1>8 DEF SlotsInv
<1>10. Works(r)
    BY <1>1, <1>2, <1>3, <1>4, <1>5 DEF Works, Running, Locks
<1>. QED BY <1>9, <1>10

\* rotate takes the lock of its own token.
LEMMA ConsumeWorks ==
    ASSUME SlotsInv, IInv', NEW r \in Requests, Consume(r)
    PROVE  SlotsInv' /\ Works(r)
<1>. DEFINE j == [job[r] EXCEPT !.marks = @ \cup {job[r].tok}]
<1>1. pc[r] = "consume" /\ job[r].ins = NoRow /\ job[r].burn = "none" /\ Known(r)
    BY SlotFacts DEF Consume, WriteSet, LookedUp
<1>2. /\ j.tok = job[r].tok /\ j.new = job[r].new /\ j.ins = job[r].ins
      /\ j.marks = job[r].marks \cup {job[r].tok} /\ j.kills = job[r].kills
      /\ j.todo = job[r].todo /\ j.status = job[r].status /\ j.burn = job[r].burn
    BY SlotFacts DEF Job
<1>3. job' = [job EXCEPT ![r] = j] /\ pc' = [pc EXCEPT ![r] = "insert"]
      /\ UNCHANGED <<DB, now, held, sealed>>
    BY DEF Consume, Goto
<1>. HIDE DEF j
<1>4. /\ job'[r] = j /\ pc'[r] = "insert"
      /\ \A q \in Requests \ {r} : Alike(q) /\ job'[q] = job[q] /\ pc'[q] = pc[q]
    BY <1>3, OthersAlike
<1>5. row' = row /\ held' = held
    BY <1>3 DEF DB
<1>6. Outcome(r)' /\ RowsOfLineage(r)' /\ Handed(r)'
    BY <1>1, <1>2, <1>4, <1>5, SlotFacts DEF Outcome, RowsOfLineage, Handed
<1>7. SlotsInv'
    BY <1>3, <1>6, LocalWork
<1>8. Stored(job[r].tok) /\ row[job[r].tok].session = Session(r)
    BY <1>1 DEF Known, Session
<1>9. Works(r)
    BY <1>1, <1>2, <1>3, <1>4, <1>8 DEF Works, Running, Locks
<1>. QED BY <1>7, <1>9

\* issue mints for a request that has not been refused.
LEMMA InsertWorks ==
    ASSUME SlotsInv, IInv', NEW r \in Requests, Insert(r)
    PROVE  SlotsInv' /\ Works(r)
<1>1. PICK m \in Members : job' = [job EXCEPT ![r].ins = NewRow(r, m)]
    BY DEF Insert
<1>. DEFINE x == NewRow(r, m)
            j == [job[r] EXCEPT !.ins = x]
<1>2. job' = [job EXCEPT ![r] = j] /\ pc' = [pc EXCEPT ![r] = "reply"] /\ pc[r] = "insert"
      /\ UNCHANGED <<DB, now, held, sealed>>
    BY <1>1 DEF Insert, Goto
<1>. HIDE DEF x
<1>3. /\ j.tok = job[r].tok /\ j.new = job[r].new /\ j.ins = x
      /\ j.marks = job[r].marks /\ j.kills = job[r].kills
      /\ j.todo = job[r].todo /\ j.status = job[r].status /\ j.burn = job[r].burn
    BY SlotFacts DEF Job
<1>. HIDE DEF j
<1>4. /\ job'[r] = j /\ pc'[r] = "reply"
      /\ \A q \in Requests \ {r} : Alike(q) /\ job'[q] = job[q] /\ pc'[q] = pc[q]
    BY <1>2, OthersAlike
<1>5. row' = row /\ held' = held /\ job[r].ins = NoRow /\ job[r].burn = "none"
    BY <1>2, SlotFacts DEF DB, WriteSet
<1>6. x # NoRow
    <2>1. job[r].new \in Tokens /\ (job[r].tok # NoToken => Known(r))
        BY <1>2, SlotFacts DEF Supplied, LookedUp, Spending
    <2>2. NewRow(r, m) \in Row
        <3>1. now + RefreshTTL \in Nat
            BY ConstantsOK DEF SlotsInv, IInv, TypeOK
        <3>2. CASE job[r].tok = NoToken
            BY <2>1, <3>1, <3>2 DEF NewRow, Row, TokenOrNone
        <3>3. CASE job[r].tok # NoToken
            <4>1. job[r].tok \in Tokens /\ row[job[r].tok] \in Row
                BY <2>1, <3>3 DEF Known, Stored, SlotsInv, IInv, TypeOK, Job, TokenOrNone
            <4>. QED BY <3>1, <3>3, <4>1 DEF NewRow, Row, TokenOrNone, Session
        <3>. QED BY <3>2, <3>3
    <2>. QED BY <2>2, ConstantsOK DEF x
<1>7. Outcome(r)'
    BY <1>2, <1>3, <1>4, SlotFacts DEF Outcome
<1>8. RowsOfLineage(r)'
    BY <1>2, <1>3, <1>4, <1>5, SlotFacts DEF RowsOfLineage
<1>9. Handed(r)'
    BY <1>2, <1>3, <1>4, <1>5, SlotFacts DEF Handed
<1>10. SlotsInv'
    BY <1>2, <1>7, <1>8, <1>9, LocalWork
<1>11. Works(r)
    BY <1>2, <1>3, <1>4, <1>5, <1>6 DEF Works, Running, Locks
<1>. QED BY <1>10, <1>11

\* revoke_session goes through the rows of one lineage.
LEMMA LoopWorks ==
    ASSUME SlotsInv, IInv', NEW r \in Requests, Scan(r) \/ Revoke(r)
    PROVE  SlotsInv' /\ Works(r)
<1>1. PICK rest \in SUBSET Tokens, i \in Job :
        /\ NextRow(r, rest, i) /\ UNCHANGED <<DB, now, held, sealed>>
        /\ pc[r] \in {"scan", "revoke"}
        /\ i.tok = job[r].tok /\ i.new = job[r].new /\ i.ins = job[r].ins
        /\ i.marks = job[r].marks /\ i.status = job[r].status /\ i.burn # "none"
        /\ i.burn = "raced" => \/ job[r].burn = "raced"
                               \/ \E q \in Requests : Exchanging(q) /\ Session(q) = Session(r)
        /\ \A t \in i.kills : t \in job[r].kills
                              \/ (Stored(t) /\ row[t].session = Session(r))
        /\ \A t \in i.kills \cup rest : Stored(t) /\ row[t].session = Session(r)
    <2>1. CASE Scan(r)
        <3>. DEFINE overlapped == \E q \in Requests : Exchanging(q) /\ Session(q) = Session(r)
                    b == IF overlapped THEN "raced" ELSE "clean"
                    i == [job[r] EXCEPT !.burn = b]
                    rest == LineageRows(Session(r))
        <3>1. NextRow(r, rest, i) /\ UNCHANGED <<DB, now, held, sealed>> /\ pc[r] = "scan"
            BY <2>1 DEF Scan
        <3>2. b \in {"raced", "clean"} /\ (b = "raced" => overlapped)
            OBVIOUS
        <3>3. rest \in SUBSET Tokens /\ \A t \in rest : Stored(t) /\ row[t].session = Session(r)
            BY DEF LineageRows
        <3>. HIDE DEF b, rest
        <3>4. /\ i \in Job /\ i.tok = job[r].tok /\ i.new = job[r].new /\ i.ins = job[r].ins
              /\ i.marks = job[r].marks /\ i.status = job[r].status /\ i.kills = job[r].kills
              /\ i.burn = b
            BY <3>2, SlotFacts DEF Job
        <3>5. job[r].kills = {}
            BY <3>1, SlotFacts DEF WriteSet, RowsOfLineage
        <3>. HIDE DEF i
        <3>. QED BY <3>1, <3>2, <3>3, <3>4, <3>5
    <2>2. CASE Revoke(r)
        <3>. DEFINE i == [job[r] EXCEPT !.kills = @ \cup {job[r].want}]
        <3>1. NextRow(r, job[r].todo, i) /\ UNCHANGED <<DB, now, held, sealed>> /\ pc[r] = "revoke"
            BY <2>2 DEF Revoke
        <3>2. job[r].want \in Tokens /\ job[r].burn # "none"
            BY <3>1, SlotFacts DEF LookedUp
        <3>3. /\ i \in Job /\ i.tok = job[r].tok /\ i.new = job[r].new /\ i.ins = job[r].ins
              /\ i.marks = job[r].marks /\ i.status = job[r].status
              /\ i.kills = job[r].kills \cup {job[r].want} /\ i.burn = job[r].burn
              /\ job[r].todo \in SUBSET Tokens
            BY <3>2, SlotFacts DEF Job
        <3>. HIDE DEF i
        <3>4. \A t \in i.kills \cup job[r].todo : Stored(t) /\ row[t].session = Session(r)
            BY <3>1, <3>3, SlotFacts DEF RowsOfLineage
        <3>. QED BY <3>1, <3>2, <3>3, <3>4
    <2>. QED BY <2>1, <2>2
<1>2. PICK j \in Job, l \in {"reply", "revoke"} :
        /\ job' = [job EXCEPT ![r] = j] /\ pc' = [pc EXCEPT ![r] = l]
        /\ j.tok = i.tok /\ j.new = i.new /\ j.ins = i.ins /\ j.marks = i.marks
        /\ j.status = i.status /\ j.burn = i.burn /\ j.kills = i.kills
        /\ j.todo \subseteq rest /\ (l = "revoke" => j.want \in rest)
    <2>1. CASE rest = {} /\ job' = [job EXCEPT ![r] = [i EXCEPT !.todo = {}, !.want = NoToken]]
               /\ Goto(r, "reply")
        <3>. DEFINE j == [i EXCEPT !.todo = {}, !.want = NoToken]
        <3>1. /\ j \in Job /\ j.tok = i.tok /\ j.new = i.new /\ j.ins = i.ins /\ j.marks = i.marks
              /\ j.status = i.status /\ j.burn = i.burn /\ j.kills = i.kills /\ j.todo = {}
            BY DEF Job, TokenOrNone
        <3>2. job' = [job EXCEPT ![r] = j]
            BY <2>1
        <3>. HIDE DEF j
        <3>. QED BY <2>1, <3>1, <3>2 DEF Goto
    <2>2. ASSUME NEW t \in rest, Goto(r, "revoke"),
                 job' = [job EXCEPT ![r] = [i EXCEPT !.todo = rest \ {t}, !.want = t]]
          PROVE  \E j \in Job, l \in {"reply", "revoke"} :
                    /\ job' = [job EXCEPT ![r] = j] /\ pc' = [pc EXCEPT ![r] = l]
                    /\ j.tok = i.tok /\ j.new = i.new /\ j.ins = i.ins /\ j.marks = i.marks
                    /\ j.status = i.status /\ j.burn = i.burn /\ j.kills = i.kills
                    /\ j.todo \subseteq rest /\ (l = "revoke" => j.want \in rest)
        <3>. DEFINE j == [i EXCEPT !.todo = rest \ {t}, !.want = t]
        <3>1. /\ j \in Job /\ j.tok = i.tok /\ j.new = i.new /\ j.ins = i.ins /\ j.marks = i.marks
              /\ j.status = i.status /\ j.burn = i.burn /\ j.kills = i.kills
              /\ j.todo = rest \ {t} /\ j.want = t
            BY DEF Job, TokenOrNone
        <3>2. job' = [job EXCEPT ![r] = j]
            BY <2>2
        <3>. HIDE DEF j
        <3>. QED BY <2>2, <3>1, <3>2 DEF Goto
    <2>. QED BY <1>1, <2>1, <2>2 DEF NextRow
<1>3. /\ job'[r] = j /\ pc'[r] = l
      /\ \A q \in Requests \ {r} : Alike(q) /\ job'[q] = job[q] /\ pc'[q] = pc[q]
    BY <1>2, OthersAlike
<1>4. row' = row /\ held' = held
    BY <1>1 DEF DB
<1>5. Known(r) /\ job[r].ins = NoRow /\ job[r].tok # NoToken
    BY <1>1, SlotFacts DEF LookedUp, Known, WriteSet
<1>6. Outcome(r)'
    BY <1>1, <1>2, <1>3, <1>5, SlotFacts DEF Outcome
<1>7. RowsOfLineage(r)'
    BY <1>1, <1>2, <1>3, <1>4 DEF RowsOfLineage, Stored, Session
<1>8. Handed(r)'
    BY <1>1, <1>2, <1>3, <1>4, <1>5, SlotFacts DEF Handed
<1>9. SlotsInv'
    BY <1>1, <1>2, <1>6, <1>7, <1>8, LocalWork
<1>10. Works(r)
    BY <1>1, <1>2, <1>3, <1>5 DEF Works, Running, Locks
<1>. QED BY <1>9, <1>10

\* So every step between arrival and answer works as Works says.
LEMMA WorkSlots ==
    ASSUME SlotsInv, IInv', NEW r \in Requests, WorkStep(r)
    PROVE  SlotsInv' /\ Works(r)
BY DecideWorks, LookupLiveWorks, ConsumeWorks, InsertWorks, LoopWorks DEF WorkStep
\* The answer takes the new token to the client.
LEMMA ReplySlots ==
    ASSUME SlotsInv, IInv', NEW r \in Requests, Reply(r)
    PROVE  SlotsInv'
<1>1. /\ row' = row /\ consumed' = consumed /\ revoked' = revoked /\ job' = job
      /\ pc[r] = "reply" /\ pc'[r] = "close"
      /\ \A q \in Requests \ {r} : pc'[q] = pc[q] /\ Alike(q)
      /\ held' = IF job[r].ins # NoRow THEN held \cup {job[r].new} ELSE held
    BY SlotFacts DEF Reply, Goto, DB, Alike
<1>2. job[r].ins # NoRow => job[r].new \in Tokens
    BY SlotFacts DEF Supplied
<1>3. \A q \in Requests \ {r} : Outcome(q)' /\ RowsOfLineage(q)' /\ Handed(q)'
    <2>1. \A t \in Tokens : Stored(t) => Stored(t)' /\ row'[t] = row[t]
        BY <1>1 DEF Stored
    <2>. QED BY <1>1, <1>2, <2>1, OtherSlots
<1>4. Outcome(r)' /\ RowsOfLineage(r)'
    BY <1>1, SlotFacts DEF Outcome, RowsOfLineage, Stored, Session
<1>5. Handed(r)'
    BY <1>1, <1>2, SlotFacts DEF Handed
<1>6. MarkedAreStored'
    BY <1>1 DEF SlotsInv, MarkedAreStored, Stored
<1>. QED BY <1>3, <1>4, <1>5, <1>6 DEF SlotsInv

\* What the commit does to the tables.
Commits(r) ==
    /\ pc[r] = "close" /\ pc'[r] = "idle" /\ job'[r] = Idle /\ held' = held
    /\ \A q \in Requests \ {r} : pc'[q] = pc[q] /\ job'[q] = job[q] /\ Alike(q)
    /\ \A t \in Tokens : Stored(t)' <=> Stored(t) \/ Pending(r, t)
    /\ \A t \in Tokens : Stored(t) => row'[t] = row[t]
    /\ \A t \in Tokens : Pending(r, t) => ~Stored(t) /\ row'[t] = job[r].ins
    /\ consumed' \cup revoked' = consumed \cup revoked \cup Locks(r)
    /\ sealed' = IF job[r].burn = "clean" THEN sealed \cup {Session(r)} ELSE sealed

\* The commit empties the slot, and its writes are rows.
LEMMA CloseSlots ==
    ASSUME SlotsInv, IInv', NEW r \in Requests, Close(r)
    PROVE  SlotsInv' /\ Commits(r)
<1>. DEFINE n == job[r].new
            x == job[r].ins
<1>1. /\ row' = IF x # NoRow THEN [row EXCEPT ![n] = x] ELSE row
      /\ consumed' = consumed \cup job[r].marks /\ revoked' = revoked \cup job[r].kills
      /\ sealed' = IF job[r].burn = "clean" THEN sealed \cup {Session(r)} ELSE sealed
      /\ held' = held /\ pc[r] = "close"
      /\ job' = [job EXCEPT ![r] = Idle] /\ pc' = [pc EXCEPT ![r] = "idle"]
    BY DEF Close, Goto
<1>2. /\ job'[r] = Idle /\ pc'[r] = "idle"
      /\ \A q \in Requests \ {r} : Alike(q) /\ job'[q] = job[q] /\ pc'[q] = pc[q]
    BY <1>1, OthersAlike
<1>3. x # NoRow => n \in Tokens /\ ~Stored(n)
    BY SlotFacts, ConstantsOK DEF Supplied, SlotsInv, IInv, Fresh
<1>4. row \in [Tokens -> Row \cup {NoRow}]
    BY DEF SlotsInv, IInv, TypeOK
<1>5. x # NoRow => row'[n] = x
    BY <1>1, <1>3, <1>4
<1>6. \A t \in Tokens : x = NoRow \/ t # n => row'[t] = row[t]
    BY <1>1, <1>4
<1>. HIDE DEF n, x
<1>7. \A t \in Tokens : Stored(t)' <=> Stored(t) \/ (x # NoRow /\ t = n)
    BY <1>5, <1>6 DEF Stored
<1>8. \A t \in Tokens : Stored(t) => Stored(t)' /\ row'[t] = row[t]
    BY <1>3, <1>6, <1>7
<1>9. Commits(r)
    <2>1. \A t \in Tokens : Pending(r, t) <=> x # NoRow /\ t = n
        BY DEF Pending, x, n
    <2>2. consumed' \cup revoked' = consumed \cup revoked \cup Locks(r)
        BY <1>1 DEF Locks
    <2>3. \A t \in Tokens : Pending(r, t) => ~Stored(t) /\ row'[t] = job[r].ins
        BY <1>3, <1>5, <2>1 DEF x
    <2>. QED BY <1>1, <1>2, <1>7, <1>8, <2>1, <2>2, <2>3 DEF Commits
<1>10. \A q \in Requests \ {r} : Outcome(q)' /\ RowsOfLineage(q)' /\ Handed(q)'
    BY <1>1, <1>2, <1>8, OtherSlots
<1>11. Outcome(r)' /\ RowsOfLineage(r)' /\ Handed(r)'
    <2>1. NoToken \notin held
        BY ConstantsOK DEF SlotsInv, IInv, TypeOK
    <2>. QED BY <1>1, <1>2, <2>1 DEF Outcome, RowsOfLineage, Handed, Idle
<1>12. MarkedAreStored'
    <2>1. \A t \in Locks(r) : t \in Tokens /\ Stored(t)
        <3>1. job[r].marks \subseteq {job[r].tok} /\ (job[r].marks # {} => Known(r))
            BY SlotFacts DEF WriteSet, LookedUp
        <3>. QED BY <3>1, SlotFacts DEF Locks, Known, RowsOfLineage, Job
    <2>2. consumed \subseteq Tokens /\ revoked \subseteq Tokens
        BY DEF SlotsInv, IInv, TypeOK
    <2>. QED BY <1>9, <2>1, <2>2 DEF SlotsInv, MarkedAreStored, Commits
<1>. QED BY <1>9, <1>10, <1>11, <1>12 DEF SlotsInv

\* An abandoned transaction empties the slot.
LEMMA RollbackSlots ==
    ASSUME SlotsInv, IInv', NEW r \in Requests, Rollback(r)
    PROVE  SlotsInv'
<1>1. /\ job' = [job EXCEPT ![r] = Idle] /\ pc' = [pc EXCEPT ![r] = "idle"]
      /\ UNCHANGED <<DB, held>> /\ held' = held
    BY DEF Rollback, Goto
<1>2. job'[r] = Idle /\ pc'[r] = "idle"
    BY <1>1, OthersAlike
<1>3. Outcome(r)' /\ RowsOfLineage(r)' /\ Handed(r)'
    <2>1. NoToken \notin held
        BY ConstantsOK DEF SlotsInv, IInv, TypeOK
    <2>. QED BY <1>1, <1>2, <2>1 DEF Outcome, RowsOfLineage, Handed, Idle
<1>. QED BY <1>1, <1>3, LocalWork

\* What the arrival of a request makes of its slot.
Arrives(r, t) ==
    /\ UNCHANGED <<DB, held, sealed>> /\ pc[r] = "idle"
    /\ pc'[r] \in {"insert", "refresh", "logout"} /\ (pc'[r] = "insert" => t = NoToken)
    /\ job'[r].tok = t /\ job'[r].ins = NoRow /\ job'[r].marks = {} /\ job'[r].kills = {}
    /\ job'[r].status = "ok" /\ job'[r].burn = "none"
    /\ \A q \in Requests \ {r} : pc'[q] = pc[q] /\ job'[q] = job[q]

\* A request arrives with the token t of its client, or with none, and n is
\* set aside for it.
LEMMA ArriveWith ==
    ASSUME SlotsInv, IInv', NEW r \in Requests, NEW j, NEW l,
           NEW t \in held \cup {NoToken}, NEW n, n = NoToken \/ Unused(n),
           j.tok = t, j.new = n, j.ins = NoRow, j.marks = {}, j.kills = {}, j.todo = {},
           j.status = "ok", j.burn = "none",
           l \in {"insert", "refresh", "logout"}, l = "insert" => t = NoToken,
           job' = [job EXCEPT ![r] = j], pc' = [pc EXCEPT ![r] = l],
           pc[r] = "idle", UNCHANGED <<DB, held, sealed>>
    PROVE  SlotsInv' /\ Arrives(r, t)
<1>1. /\ job'[r] = j /\ pc'[r] = l
      /\ \A q \in Requests \ {r} : job'[q] = job[q] /\ pc'[q] = pc[q]
    <2>1. job \in [Requests -> Job] /\ pc \in [Requests -> PCs]
        BY SlotFacts
    <2>. QED BY <2>1
<1>2. n \notin held /\ held' = held
    BY ConstantsOK DEF SlotsInv, IInv, TypeOK, Unused
<1>3. Outcome(r)' /\ RowsOfLineage(r)' /\ Handed(r)'
    BY <1>1, <1>2 DEF Outcome, RowsOfLineage, Handed
<1>4. UNCHANGED <<DB, held>>
    BY DEF DB
<1>5. SlotsInv'
    BY <1>3, <1>4, LocalWork
<1>6. Arrives(r, t)
    BY <1>1, <1>2 DEF Arrives
<1>. QED BY <1>5, <1>6

\* The three requests arrive so.
LEMMA LoginSlots ==
    ASSUME SlotsInv, IInv', NEW r \in Requests, Login(r)
    PROVE  SlotsInv' /\ Arrives(r, NoToken)
<1>1. PICK n \in Tokens : Unused(n) /\ job' = [job EXCEPT ![r] = [Idle EXCEPT !.new = n]]
    BY DEF Login
<1>. DEFINE j == [Idle EXCEPT !.new = n]
<1>2. /\ j.tok = NoToken /\ j.new = n /\ j.ins = NoRow /\ j.marks = {} /\ j.kills = {}
      /\ j.todo = {} /\ j.status = "ok" /\ j.burn = "none"
    BY DEF Idle
<1>3. Unused(n) /\ job' = [job EXCEPT ![r] = j]
    BY <1>1
<1>4. pc' = [pc EXCEPT ![r] = "insert"] /\ pc[r] = "idle" /\ UNCHANGED <<DB, held, sealed>>
    BY DEF Login, Goto
<1>. HIDE DEF j
<1>. QED BY <1>2, <1>3, <1>4, ArriveWith

LEMMA RefreshSlots ==
    ASSUME SlotsInv, IInv', NEW r \in Requests, Refresh(r)
    PROVE  SlotsInv' /\ Arrives(r, job'[r].tok)
<1>1. PICK t \in held \cup {NoToken}, n \in TokenOrNone :
        /\ IF t # NoToken /\ ~Dead(t) THEN n \in Tokens /\ Unused(n) ELSE n = NoToken
        /\ job' = [job EXCEPT ![r] = [Idle EXCEPT !.tok = t, !.new = n]]
    BY DEF Refresh
<1>. DEFINE j == [Idle EXCEPT !.tok = t, !.new = n]
<1>2. /\ j.tok = t /\ j.new = n /\ j.ins = NoRow /\ j.marks = {} /\ j.kills = {}
      /\ j.todo = {} /\ j.status = "ok" /\ j.burn = "none"
    BY DEF Idle
<1>3. (n = NoToken \/ Unused(n)) /\ job' = [job EXCEPT ![r] = j]
    BY <1>1
<1>4. pc' = [pc EXCEPT ![r] = "refresh"] /\ pc[r] = "idle" /\ UNCHANGED <<DB, held, sealed>>
    BY DEF Refresh, Goto
<1>. HIDE DEF j
<1>5. SlotsInv' /\ Arrives(r, t)
    BY <1>2, <1>3, <1>4, ArriveWith
<1>. QED BY <1>5 DEF Arrives

LEMMA LogoutSlots ==
    ASSUME SlotsInv, IInv', NEW r \in Requests, Logout(r)
    PROVE  SlotsInv' /\ Arrives(r, job'[r].tok)
<1>1. PICK t \in held \cup {NoToken} : job' = [job EXCEPT ![r] = [Idle EXCEPT !.tok = t]]
    BY DEF Logout
<1>. DEFINE j == [Idle EXCEPT !.tok = t]
<1>2. /\ j.tok = t /\ j.new = NoToken /\ j.ins = NoRow /\ j.marks = {} /\ j.kills = {}
      /\ j.todo = {} /\ j.status = "ok" /\ j.burn = "none"
    BY DEF Idle
<1>3. job' = [job EXCEPT ![r] = j]
    BY <1>1
<1>4. pc' = [pc EXCEPT ![r] = "logout"] /\ pc[r] = "idle" /\ UNCHANGED <<DB, held, sealed>>
    BY DEF Logout, Goto
<1>. HIDE DEF j
<1>5. SlotsInv' /\ Arrives(r, t)
    BY <1>2, <1>3, <1>4, ArriveWith
<1>. QED BY <1>5 DEF Arrives

\* Time passes.
LEMMA TickSlots ==
    ASSUME SlotsInv, IInv', UNCHANGED <<row, consumed, revoked, held, pc, job>>
    PROVE  SlotsInv'
<1>1. \A r \in Requests : Outcome(r)' /\ RowsOfLineage(r)' /\ Handed(r)'
    BY SlotFacts DEF Outcome, RowsOfLineage, Handed, Stored, Session
<1>2. MarkedAreStored'
    BY DEF SlotsInv, MarkedAreStored, Stored
<1>. QED BY <1>1, <1>2 DEF SlotsInv

\* The handler works, answers, commits or is abandoned.
LEMMA HandleCases ==
    ASSUME NEW r \in Requests, Handle(r) \/ Fail(r)
    PROVE  WorkStep(r) \/ Reply(r) \/ Close(r) \/ Rollback(r)
BY DEF Handle, WorkStep, DeadlockVictim, Fail
-----------------------------------------------------------------------------
(* What the requests beneath a browser keep of themselves.                 *)

\* A step of the browser is one of the service.
LEMMA BrowserStep == [BNext]_bvars => [Next]_vars
<1>. SUFFICES ASSUME [BNext]_bvars PROVE [Next]_vars
    OBVIOUS
<1>1. CASE Tick
    BY <1>1 DEF Next
<1>2. ASSUME NEW r \in Requests, SendLogin(r) \/ SendRefresh(r) \/ SendLogout(r) PROVE Next
    BY <1>2 DEF SendLogin, SendRefresh, SendLogout, Arrive, Next
<1>3. ASSUME NEW r \in Requests, Serve(r) PROVE Next
    BY <1>3 DEF Serve, Next
<1>4. ASSUME NEW r \in Requests, Deliver(r) \/ Lose(r) PROVE UNCHANGED vars
    BY <1>4 DEF Deliver, Lose
<1>5. CASE UNCHANGED bvars
    BY <1>5 DEF bvars
<1>. QED BY <1>1, <1>2, <1>3, <1>4, <1>5 DEF BNext

\* SlotsInv is inductive.
LEMMA SlotsNext == SlotsInv /\ [Next]_vars => SlotsInv'
<1>. SUFFICES ASSUME SlotsInv, [Next]_vars PROVE SlotsInv'
    OBVIOUS
<1>1. IInv'
    BY NextIInv DEF SlotsInv
<1>2. CASE Tick
    BY <1>1, <1>2, TickSlots DEF Tick, DB
<1>3. ASSUME NEW r \in Requests, Arrive(r) PROVE SlotsInv'
    BY <1>1, <1>3, LoginSlots, RefreshSlots, LogoutSlots DEF Arrive
<1>4. ASSUME NEW r \in Requests, Handle(r) \/ Fail(r) PROVE SlotsInv'
    BY <1>1, <1>4, HandleCases, WorkSlots, ReplySlots, CloseSlots, RollbackSlots
<1>5. CASE UNCHANGED vars
    BY <1>1, <1>5, TickSlots DEF vars
<1>. QED BY <1>2, <1>3, <1>4, <1>5 DEF Next

\* Nothing is held or under way at first.
LEMMA SlotsInit == Init => SlotsInv
<1>. SUFFICES ASSUME Init PROVE SlotsInv
    OBVIOUS
<1>1. \A r \in Requests : Outcome(r) /\ RowsOfLineage(r) /\ Handed(r)
    BY ConstantsOK DEF Init, Outcome, RowsOfLineage, Handed, Idle
<1>2. MarkedAreStored
    BY DEF Init, MarkedAreStored
<1>. QED BY <1>1, <1>2, InitIInv DEF SlotsInv

-----------------------------------------------------------------------------
(* Sessions, locks and the wire.                                           *)

\* A token keeps its session while its row, or the row it is to get, stays.
LEMMA SessionKept ==
    ASSUME SlotsInv, SlotsInv', NEW t \in Tokens,
           Stored(t)' <=> Stored(t), Stored(t) => row'[t] = row[t],
           \A q \in Requests : Pending(q, t)' <=> Pending(q, t),
           \A q \in Requests : Pending(q, t) => job'[q].ins = job[q].ins
    PROVE  SessionOf(t)' = SessionOf(t)
<1>1. SessionsAreRows /\ SessionsAreRows'
    BY SessionsLemma, SessionsNext DEF SlotsInv
<1>2. CASE Stored(t)
    BY <1>1, <1>2 DEF SessionsAreRows
<1>3. CASE ~Stored(t) /\ \E q \in Requests : Pending(q, t)
    <2>1. PICK q \in Requests : Pending(q, t)
        BY <1>3
    <2>. QED BY <1>1, <1>3, <2>1 DEF SessionsAreRows
<1>4. CASE ~Stored(t) /\ \A q \in Requests : ~Pending(q, t)
    BY <1>1, <1>4 DEF SessionsAreRows
<1>. QED BY <1>2, <1>3, <1>4

\* Sessions are named by tokens.
LEMMA SessionTyped ==
    ASSUME SlotsInv, NEW t \in Tokens
    PROVE  SessionOf(t) \in Tokens /\ Lineage(t) = {SessionOf(t)}
<1>1. SessionsAreRows
    BY SessionsLemma DEF SlotsInv
<1>2. Stored(t) => row[t].session \in Tokens
    BY DEF SlotsInv, IInv, TypeOK, Row, Stored
<1>3. \A q \in Requests : Pending(q, t) => job[q].ins.session \in Tokens
    BY SlotFacts DEF Job, Row, Pending
<1>4. SessionOf(t) \in Tokens
    BY <1>1, <1>2, <1>3 DEF SessionsAreRows
<1>. QED BY <1>4, ConstantsOK DEF Lineage

\* Locked rows exist.
LEMMA LocksStored ==
    ASSUME SlotsInv, NEW r \in Requests, NEW t \in Locks(r)
    PROVE  t \in Tokens /\ Stored(t)
<1>1. job[r].marks \subseteq {job[r].tok} /\ (job[r].marks # {} => Known(r))
    BY SlotFacts DEF WriteSet, LookedUp
<1>. QED BY <1>1, SlotFacts DEF Locks, Known, RowsOfLineage, Job, TokenOrNone

\* What r has minted and is to commit: a fresh token of the session it is
\* exchanging, or of a new one.
LEMMA PendingToken ==
    ASSUME SlotsInv, NEW r \in Requests, job[r].ins # NoRow
    PROVE  /\ job[r].new \in Tokens /\ ~Stored(job[r].new)
           /\ \A q \in Requests \ {r} : job[q].new # job[r].new
           /\ SessionOf(job[r].new) = job[r].ins.session
           /\ job[r].tok = NoToken => SessionOf(job[r].new) = job[r].new
           /\ job[r].tok # NoToken => /\ Known(r) /\ job[r].tok \in Tokens
                                      /\ SessionOf(job[r].new) = SessionOf(job[r].tok)
<1>1. job[r].new \in Tokens
    BY SlotFacts DEF Supplied
<1>2. ~Stored(job[r].new) /\ \A q \in Requests \ {r} : job[q].new # job[r].new
    BY <1>1, ConstantsOK DEF SlotsInv, IInv, Fresh
<1>3. SessionOf(job[r].new) = job[r].ins.session
    BY <1>1, <1>2, SessionsLemma DEF SlotsInv, SessionsAreRows, Pending
<1>4. job[r].tok # NoToken => /\ Known(r) /\ job[r].tok \in Tokens
                              /\ job[r].ins.session = SessionOf(job[r].tok)
    <2>1. job[r].tok # NoToken => Known(r) /\ job[r].ins.session = Session(r)
        BY SlotFacts DEF WriteSet, LookedUp, Spending
    <2>. QED BY <2>1, SessionOfRequest DEF SlotsInv
<1>5. job[r].tok = NoToken => job[r].ins.session = job[r].new
    BY SlotFacts DEF WriteSet
<1>. QED BY <1>1, <1>2, <1>3, <1>4, <1>5

\* Nothing has happened yet to a token nobody has stored.
LEMMA PendingClean ==
    ASSUME SlotsInv, NEW t \in Tokens, ~Stored(t)
    PROVE  Clean(t)
<1>1. ~Dead(t)
    BY DEF SlotsInv, MarkedAreStored, Dead
<1>. QED BY <1>1, LocksStored DEF Clean

\* What the invariant says of a single slot and its wire.
LEMMA WireFacts ==
    ASSUME BrowserInv, NEW r \in Requests
    PROVE  /\ SlotsInv /\ wire \in [Requests -> Wire] /\ wire[r] \in Wire
           /\ OnTheWire(r) /\ Served(r) /\ Answered(r) /\ Newest(r)
           /\ wire[r].tok \in held \cup {NoToken} /\ wire[r].cookie \in held \cup {NoToken}
           /\ NoToken \notin held /\ held \subseteq Tokens
BY ConstantsOK DEF BrowserInv, WiresInv, BrowserTypeOK, TypeOK, Traced

\* A request that works on a session without an accident is open on the wire
\* with the token it works on.
LEMMA WorkIsOpen ==
    ASSUME BrowserInv, NEW r \in Requests, Running(r), job[r].tok # NoToken, Fine(job[r].tok)
    PROVE  wire[r].state = "open" /\ wire[r].tok = job[r].tok /\ job[r].tok \in held
           /\ Carries(r, job[r].tok)
<1>1. job[r].tok \in held
    BY WireFacts, SlotFacts DEF Handed
<1>2. wire[r].state = "open"
    BY <1>1, WireFacts DEF OnTheWire, Wire
<1>. QED BY <1>1, <1>2, WireFacts DEF OnTheWire, Carries

\* Being linked is symmetric and, among tokens without an accident, an
\* equivalence.
LEMMA LinkedLaws ==
    ASSUME NEW t, NEW u
    PROVE  /\ Linked(t, u) <=> Linked(u, t)
           /\ Fine(t) <=> Linked(t, t)
           /\ Linked(t, u) => Fine(t) /\ Fine(u) /\ SessionOf(t) = SessionOf(u)
BY DEF Linked, Fine

\* What is out with one request is out with no other.
LEMMA OneCarrier ==
    ASSUME BrowserInv, NEW p \in Requests, NEW q \in Requests, NEW t \in held, NEW u \in held,
           Carries(p, t), Carries(q, u), Linked(t, u)
    PROVE  p = q
BY DEF BrowserInv, WiresInv, OnePlace

\* What is in the jar and out with a request is what it was sent with.
LEMMA JarAndCarrier ==
    ASSUME BrowserInv, NEW r \in Requests, NEW t \in held, NEW u \in held,
           jar = t, Carries(r, u), Linked(t, u)
    PROVE  t = wire[r].tok
BY DEF BrowserInv, WiresInv, OnePlace

-----------------------------------------------------------------------------
(* The handler works: it may lock more rows of its session, or overlap a   *)
(* revocation of it.                                                       *)

BrowserWorks(r) ==
    /\ Works(r) /\ UNCHANGED <<jar, wire, out, excused>>
    /\ early \subseteq early'
    /\ LookupLogout(r) /\ ~Known(r) => Lineage(job[r].tok) \subseteq early'

\* What it leaves alone.
LEMMA WorkKeeps ==
    ASSUME SlotsInv, SlotsInv', NEW r \in Requests, BrowserWorks(r)
    PROVE  /\ jar' = jar /\ wire' = wire /\ out' = out /\ excused' = excused /\ held' = held
           /\ sealed' = sealed /\ row' = row
           /\ \A t \in Tokens : (Stored(t)' <=> Stored(t)) /\ (Dead(t)' <=> Dead(t))
           /\ \A q \in Requests : Session(q)' = Session(q) /\ job'[q].tok = job[q].tok
                                  /\ job'[q].new = job[q].new /\ (Running(q)' <=> Running(q))
           /\ \A q \in Requests \ {r} : Locks(q)' = Locks(q) /\ Alike(q)
           /\ \A q \in Requests, t \in held : Pending(q, t)' <=> Pending(q, t)
           /\ \A t \in held : SessionOf(t)' = SessionOf(t) /\ (Fine(t)' <=> Fine(t))
           /\ \A t, u \in held : Linked(t, u)' <=> Linked(t, u)
           /\ \A q \in Requests, t \in held : Carries(q, t)' <=> Carries(q, t)
<1>1. /\ jar' = jar /\ wire' = wire /\ out' = out /\ excused' = excused /\ held' = held
      /\ sealed' = sealed /\ row' = row /\ consumed' = consumed /\ revoked' = revoked
      /\ Running(r) /\ pc'[r] \notin {"idle", "close"}
      /\ \A q \in Requests \ {r} : Alike(q)
      /\ job'[r].tok = job[r].tok /\ job'[r].new = job[r].new
    BY DEF BrowserWorks, Works, DB
<1>2. \A t \in Tokens : (Stored(t)' <=> Stored(t)) /\ (Dead(t)' <=> Dead(t))
    BY <1>1 DEF Stored, Dead
<1>3. \A q \in Requests : job'[q].tok = job[q].tok /\ job'[q].new = job[q].new
    BY <1>1 DEF Alike
<1>4. \A q \in Requests : Session(q)' = Session(q) /\ (Running(q)' <=> Running(q))
    BY <1>1, <1>3 DEF Session, Running, Alike
<1>5. \A q \in Requests \ {r} : Locks(q)' = Locks(q)
    BY <1>1 DEF Alike, Locks
<1>6. \A t \in held : ~Pending(r, t) /\ ~Pending(r, t)'
    BY <1>1, SlotFacts DEF Handed, Pending, Running
<1>7. \A q \in Requests \ {r}, t \in held :
        (Pending(q, t)' <=> Pending(q, t)) /\ job'[q].ins = job[q].ins
    BY <1>1 DEF Alike, Pending
<1>8. \A t \in held : SessionOf(t)' = SessionOf(t)
    <2>. SUFFICES ASSUME NEW t \in held PROVE SessionOf(t)' = SessionOf(t)
        OBVIOUS
    <2>1. t \in Tokens
        BY DEF SlotsInv, IInv, TypeOK
    <2>2. Stored(t) => row'[t] = row[t]
        BY <1>1
    <2>3. \A q \in Requests : (Pending(q, t)' <=> Pending(q, t))
        BY <1>6, <1>7
    <2>4. \A q \in Requests : Pending(q, t) => job'[q].ins = job[q].ins
        BY <1>6, <1>7
    <2>. QED BY <1>2, <2>1, <2>2, <2>3, <2>4, SessionKept
<1>9. \A t \in held : Fine(t)' <=> Fine(t)
    BY <1>1, <1>8 DEF Fine
<1>10. \A t, u \in held : Linked(t, u)' <=> Linked(t, u)
    BY <1>8, <1>9 DEF Linked
<1>11. \A q \in Requests, t \in held : Carries(q, t)' <=> Carries(q, t)
    BY <1>1 DEF Carries
<1>. QED BY <1>1, <1>2, <1>3, <1>4, <1>5, <1>6, <1>7, <1>8, <1>9, <1>10, <1>11

\* A row the step locks, or a revocation it overlaps, is of the session the
\* request is on the wire with, unless an accident has happened to that.
LEMMA WorkTouches ==
    ASSUME BrowserInv, NEW r \in Requests, BrowserWorks(r), Known(r),
           NEW t \in held, Fine(t), SessionOf(t) = Session(r)
    PROVE  \E u \in held : wire[r].state = "open" /\ u = wire[r].tok /\ Carries(r, u) /\ Linked(t, u)
<1>1. SlotsInv /\ Running(r)
    BY DEF BrowserInv, BrowserWorks, Works
<1>2. job[r].tok # NoToken /\ SessionOf(job[r].tok) = Session(r)
    BY <1>1, SessionOfRequest DEF SlotsInv, Known
<1>3. Fine(job[r].tok) /\ Linked(t, job[r].tok)
    BY <1>2 DEF Fine, Linked
<1>. QED BY <1>1, <1>2, <1>3, WorkIsOpen

\* A token whose session the request is not on the wire with stays clean.
LEMMA WorkClean ==
    ASSUME BrowserInv, SlotsInv', NEW r \in Requests, BrowserWorks(r), NEW t \in held, Fine(t),
           \A u \in held : Carries(r, u) => ~Linked(t, u)
    PROVE  /\ Clean(t) => Clean(t)'
           /\ \A q \in Requests : CleanBut(q, t) => CleanBut(q, t)'
           /\ \A q \in Requests : job'[q].burn # job[q].burn /\ q # r => Session(q) # SessionOf(t)
           /\ Over(t) => Over(t)'
<1>1. SlotsInv /\ t \in Tokens
    BY WireFacts, SlotFacts DEF BrowserInv, SlotsInv, IInv, TypeOK
<1>2. ~(Known(r) /\ SessionOf(t) = Session(r))
    BY WorkTouches
<1>3. \A q \in Requests : t \in Locks(q)' => t \in Locks(q)
    <2>1. t \in Locks(r)' => t \in Locks(r) \/ (Known(r) /\ Stored(t) /\ row[t].session = Session(r))
        BY <1>1 DEF BrowserWorks, Works, Locks
    <2>2. Stored(t) => row[t].session = SessionOf(t)
        BY <1>1, SessionsLemma DEF SessionsAreRows, SlotsInv
    <2>3. \A q \in Requests \ {r} : Locks(q)' = Locks(q)
        BY <1>1, WorkKeeps
    <2>. QED BY <1>2, <2>1, <2>2, <2>3
<1>4. Dead(t)' <=> Dead(t)
    BY <1>1, WorkKeeps
<1>5. Clean(t) => Clean(t)'
    BY <1>3, <1>4 DEF Clean
<1>6. \A q \in Requests : CleanBut(q, t) => CleanBut(q, t)'
    BY <1>3, <1>4 DEF CleanBut
<1>7. \A q \in Requests : job'[q].burn # job[q].burn /\ q # r => Session(q) # SessionOf(t)
    BY <1>2 DEF BrowserWorks, Works
<1>8. Over(t) => Over(t)'
    <2>1. SessionOf(t)' = SessionOf(t) /\ sealed' = sealed
        BY <1>1, WorkKeeps
    <2>2. ASSUME NEW q \in Requests, pc[q] = "close", job[q].burn = "clean",
                 Session(q) = SessionOf(t)
          PROVE  pc'[q] = "close" /\ job'[q].burn = "clean" /\ Session(q)' = SessionOf(t)'
        <3>1. q # r
            BY <2>2 DEF BrowserWorks, Works, Running
        <3>2. Alike(q) /\ Session(q)' = Session(q)
            BY <1>1, <3>1, WorkKeeps
        <3>. QED BY <1>7, <2>1, <2>2, <3>1, <3>2 DEF Alike
    <2>. QED BY <2>1, <2>2 DEF Over
<1>. QED BY <1>5, <1>6, <1>7, <1>8

\* While a logout works on a session without an accident nobody exchanges a
\* token of it.
LEMMA NotRaced ==
    ASSUME BrowserInv, NEW r \in Requests, NEW q \in Requests, q # r, Known(r), Running(r),
           Exchanging(q), Session(q) = Session(r)
    PROVE  ~Fine(job[r].tok)
<1>. SUFFICES ASSUME Fine(job[r].tok) PROVE FALSE
    OBVIOUS
<1>. DEFINE t == job[r].tok
            u == job[q].tok
<1>1. SlotsInv /\ NoToken \notin held
    BY WireFacts
<1>2. Known(q) /\ u # NoToken
    BY <1>1, SlotFacts DEF Exchanging, LookedUp, Spending
<1>3. SessionOf(u) = SessionOf(t) /\ t # NoToken /\ Stored(t)
    BY <1>1, <1>2, SessionOfRequest DEF SlotsInv, Known
<1>4. Fine(u) /\ Linked(u, t)
    BY <1>3 DEF Fine, Linked
<1>5. t \in held /\ Carries(r, t) /\ wire[r].tok = t
    BY <1>3, WorkIsOpen
<1>6. u \in held
    BY <1>1, <1>2, SlotFacts DEF Handed
<1>. HIDE DEF t, u
<1>7. CASE Running(q)
    <2>1. Carries(q, u)
        BY <1>2, <1>4, <1>7, WorkIsOpen DEF u
    <2>. QED BY <1>4, <1>5, <1>6, <2>1, OneCarrier
<1>8. CASE ~Running(q)
    <2>1. pc[q] = "close" /\ job[q].ins # NoRow
        BY <1>1, <1>8, SlotFacts DEF Running, Exchanging, Outcome, Idle
    <2>. DEFINE n == job[q].new
    <2>2. n \in held /\ ~Stored(n) /\ SessionOf(n) = SessionOf(u)
        BY <1>1, <1>2, <2>1, PendingToken, SlotFacts DEF Handed, u
    <2>. HIDE DEF n
    <2>3. Linked(n, t)
        BY <1>4, <2>2 DEF Linked, Fine
    <2>4. CASE wire[q].state = "none"
        <3>1. wire[r].tok = n
            BY <1>5, <2>1, <2>2, <2>3, <2>4, WireFacts DEF Newest, n
        <3>. QED BY <1>3, <1>5, <2>2, <3>1
    <2>5. CASE wire[q].state = "answer"
        <3>1. wire[q] = Answer(q)
            BY <1>8, <2>1, <2>5, WireFacts DEF OnTheWire
        <3>2. wire[q].cookie = n
            BY <2>1, <3>1, WireFacts DEF Answer, Wire, n
        <3>3. Carries(q, n)
            BY <2>5, <3>2 DEF Carries
        <3>. QED BY <1>5, <2>2, <2>3, <3>3, OneCarrier
    <2>6. wire[q].state # "open"
        BY <1>8, WireFacts DEF OnTheWire
    <2>. QED BY <2>4, <2>5, <2>6, WireFacts DEF Wire
<1>. QED BY <1>7, <1>8
\* Work keeps the invariant, part by part.
LEMMA WorkServed ==
    ASSUME BrowserInv, SlotsInv', NEW r \in Requests, BrowserWorks(r)
    PROVE  Served(r)'
<1>. SUFFICES ASSUME wire'[r].state = "open", NEW t \in held', wire'[r].tok = t, Fine(t)'
              PROVE  /\ CleanBut(r, t)'
                     /\ pc'[r] = "scan" \/ job'[r].burn # "none" => job'[r].status = "ok"
                     /\ job'[r].burn # "raced"
                     /\ pc'[r] = "reply" /\ job'[r].ins = NoRow /\ job'[r].status = "ok"
                        /\ job'[r].burn = "none"
                        => SessionOf(t)' \in early'
    BY DEF Served
<1>1. SlotsInv
    BY WireFacts
<1>2. /\ t \in held /\ wire[r].state = "open" /\ wire[r].tok = t /\ Fine(t)
      /\ SessionOf(t)' = SessionOf(t) /\ (Dead(t)' <=> Dead(t)) /\ t \in Tokens /\ t # NoToken
    BY <1>1, WorkKeeps, WireFacts
<1>3. job[r].tok = t
    BY <1>2, WireFacts DEF OnTheWire
<1>4. /\ CleanBut(r, t) /\ (pc[r] = "scan" \/ job[r].burn # "none" => job[r].status = "ok")
      /\ job[r].burn # "raced"
    BY <1>2, WireFacts DEF Served
<1>5. CleanBut(r, t)'
    <2>1. \A q \in Requests \ {r} : Locks(q)' = Locks(q)
        BY <1>1, WorkKeeps
    <2>. QED BY <1>2, <1>4, <2>1 DEF CleanBut
<1>6. pc'[r] = "scan" \/ job'[r].burn # "none" => job'[r].status = "ok"
    <2>1. pc'[r] = "scan" => job'[r].status = "ok"
        BY <1>1, <1>3, <1>4, SlotFacts DEF BrowserWorks, Works, Outcome, CleanBut
    <2>2. job'[r].burn # "none" => job'[r].status = job[r].status /\ pc[r] \in {"scan", "revoke"}
        BY DEF BrowserWorks, Works
    <2>3. pc[r] = "revoke" => job[r].burn # "none"
        BY <1>1, SlotFacts DEF LookedUp
    <2>. QED BY <1>4, <2>1, <2>2, <2>3
<1>7. job'[r].burn # "raced"
    <2>. SUFFICES ASSUME job'[r].burn = "raced" PROVE FALSE
        OBVIOUS
    <2>1. /\ pc[r] \in {"scan", "revoke"} /\ Running(r)
          /\ job[r].burn = "raced" \/ \E q \in Requests : Exchanging(q) /\ Session(q) = Session(r)
        BY DEF BrowserWorks, Works
    <2>2. PICK q \in Requests : Exchanging(q) /\ Session(q) = Session(r)
        BY <1>4, <2>1
    <2>3. Known(r)
        BY <1>1, <2>1, SlotFacts DEF LookedUp
    <2>4. ~Exchanging(r)
        BY <1>1, <2>1, SlotFacts DEF Exchanging, WriteSet
    <2>. QED BY <1>2, <1>3, <2>1, <2>2, <2>3, <2>4, NotRaced
<1>8. pc'[r] = "reply" /\ job'[r].ins = NoRow /\ job'[r].status = "ok" /\ job'[r].burn = "none"
      => SessionOf(t)' \in early'
    <2>1. Lineage(t) = {SessionOf(t)}
        BY <1>1, <1>2, SessionTyped
    <2>. QED BY <1>2, <1>3, <2>1 DEF BrowserWorks, Works
<1>. QED BY <1>5, <1>6, <1>7, <1>8

LEMMA WorkOthers ==
    ASSUME BrowserInv, SlotsInv', NEW r \in Requests, BrowserWorks(r), NEW q \in Requests \ {r}
    PROVE  Served(q)' /\ Answered(q)'
<1>1. SlotsInv /\ wire' = wire /\ held' = held /\ early \subseteq early'
    BY WireFacts, WorkKeeps DEF BrowserWorks
<1>2. ASSUME NEW t \in held, Fine(t), Carries(q, t)
      PROVE  \A u \in held : Carries(r, u) => ~Linked(t, u)
    BY <1>2, OneCarrier
<1>3. Served(q)'
    <2>. SUFFICES ASSUME wire'[q].state = "open", NEW t \in held', wire'[q].tok = t, Fine(t)'
                  PROVE  /\ CleanBut(q, t)'
                         /\ pc'[q] = "scan" \/ job'[q].burn # "none" => job'[q].status = "ok"
                         /\ job'[q].burn # "raced"
                         /\ pc'[q] = "reply" /\ job'[q].ins = NoRow /\ job'[q].status = "ok"
                            /\ job'[q].burn = "none" => SessionOf(t)' \in early'
        BY DEF Served
    <2>1. /\ t \in held /\ wire[q].state = "open" /\ wire[q].tok = t /\ Fine(t) /\ Carries(q, t)
          /\ SessionOf(t)' = SessionOf(t) /\ t # NoToken
        BY <1>1, WorkKeeps, WireFacts DEF Carries
    <2>2. /\ CleanBut(q, t) /\ (pc[q] = "scan" \/ job[q].burn # "none" => job[q].status = "ok")
          /\ job[q].burn # "raced"
          /\ pc[q] = "reply" /\ job[q].ins = NoRow /\ job[q].status = "ok" /\ job[q].burn = "none"
             => SessionOf(t) \in early
        BY <2>1, WireFacts DEF Served
    <2>3. Alike(q)
        BY <1>1, WorkKeeps
    <2>4. job[q].burn # "none" => Session(q) = SessionOf(t)
        <3>1. job[q].burn # "none" => Known(q)
            BY <1>1, SlotFacts DEF LookedUp
        <3>2. job[q].tok = t
            BY <2>1, WireFacts DEF OnTheWire
        <3>. QED BY <1>1, <3>1, <3>2, SessionOfRequest DEF SlotsInv
    <2>5. /\ CleanBut(q, t)'
          /\ job'[q].burn # job[q].burn => Session(q) # SessionOf(t)
        BY <1>2, <2>1, <2>2, WorkClean
    <2>6. job'[q].burn = job[q].burn
        BY <2>3, <2>4, <2>5 DEF Alike
    <2>. QED BY <1>1, <2>1, <2>2, <2>3, <2>5, <2>6 DEF Alike
<1>4. Answered(q)'
    <2>. SUFFICES ASSUME wire'[q].state = "answer", NEW t \in held', Fine(t)'
                  PROVE  /\ wire'[q].cookie = t => Clean(t)'
                         /\ wire'[q].tok = t /\ ~wire'[q].sets => Clean(t)'
                         /\ wire'[q].tok = t /\ wire'[q].sets /\ wire'[q].cookie = NoToken
                            => SessionOf(t)' \in early' \/ Over(t)'
        BY DEF Answered
    <2>1. /\ t \in held /\ wire[q].state = "answer" /\ Fine(t) /\ SessionOf(t)' = SessionOf(t)
          /\ wire[q].cookie = t => Clean(t)
          /\ wire[q].tok = t /\ ~wire[q].sets => Clean(t)
          /\ wire[q].tok = t /\ wire[q].sets /\ wire[q].cookie = NoToken
             => SessionOf(t) \in early \/ Over(t)
        BY <1>1, WorkKeeps, WireFacts DEF Answered
    <2>2. wire[q].cookie = t \/ wire[q].tok = t
          => (Clean(t) => Clean(t)') /\ (Over(t) => Over(t)')
        <3>1. wire[q].cookie = t \/ wire[q].tok = t => Carries(q, t)
            BY <2>1 DEF Carries
        <3>. QED BY <1>2, <2>1, <3>1, WorkClean
    <2>. QED BY <1>1, <2>1, <2>2
<1>. QED BY <1>3, <1>4

LEMMA WorkWires ==
    ASSUME BrowserInv, SlotsInv', NEW r \in Requests, BrowserWorks(r)
    PROVE  WiresInv'
<1>1. /\ SlotsInv /\ wire' = wire /\ held' = held /\ jar' = jar /\ out' = out
      /\ early \subseteq early' /\ Running(r) /\ Running(r)'
    BY WireFacts, WorkKeeps DEF BrowserWorks, Works
<1>2. wire[r].state # "answer"
    BY <1>1, WireFacts DEF OnTheWire
<1>3. \A q \in Requests : OnTheWire(q)'
    <2>. SUFFICES ASSUME NEW q \in Requests PROVE OnTheWire(q)'
        OBVIOUS
    <2>1. OnTheWire(q)
        BY WireFacts
    <2>2. /\ job'[q].tok = job[q].tok /\ (Running(q)' <=> Running(q))
          /\ \A t \in held : Fine(t)' <=> Fine(t)
          /\ \A t \in Tokens : Stored(t)' <=> Stored(t)
        BY <1>1, WorkKeeps
    <2>3. ASSUME wire[q].state = "answer" PROVE pc'[q] = pc[q] /\ Answer(q)' = Answer(q)
        <3>1. Alike(q)
            BY <1>1, <1>2, <2>3, WorkKeeps
        <3>. QED BY <1>1, <3>1 DEF Alike, Answer
    <2>4. wire[q].tok # NoToken => wire[q].tok \in Tokens
        BY WireFacts
    <2>. QED BY <1>1, <2>1, <2>2, <2>3, <2>4 DEF OnTheWire
<1>4. \A q \in Requests : Served(q)' /\ Answered(q)'
    <2>1. Served(r)'
        BY WorkServed
    <2>2. Answered(r)'
        BY <1>1, <1>2 DEF Answered
    <2>. QED BY <2>1, <2>2, WorkOthers
<1>5. \A q \in Requests : Newest(q)'
    <2>. SUFFICES ASSUME NEW q \in Requests, wire'[q].state = "none", pc'[q] = "close",
                         job'[q].ins # NoRow,
                         NEW t \in held', NEW u \in held', job'[q].new = t, Linked(t, u)'
                  PROVE  /\ jar' = u => u = t
                         /\ \A p \in Requests : Carries(p, u)' => wire'[p].tok = t
        BY DEF Newest
    <2>1. q # r
        BY <1>1 DEF Running
    <2>2. pc[q] = "close" /\ job[q].ins # NoRow /\ job[q].new = t
        BY <1>1, <2>1, WorkKeeps DEF Alike
    <2>3. Linked(t, u) /\ \A p \in Requests : Carries(p, u)' <=> Carries(p, u)
        BY <1>1, WorkKeeps
    <2>. QED BY <1>1, <2>2, <2>3, WireFacts DEF Newest
<1>6. Traced'
    <2>1. \A t \in held : /\ Stored(t)' <=> Stored(t)
                          /\ Fine(t)' <=> Fine(t)
                          /\ \A q \in Requests : Pending(q, t)' <=> Pending(q, t)
        BY <1>1, WorkKeeps, WireFacts
    <2>. QED BY <1>1, <2>1 DEF BrowserInv, WiresInv, Traced
<1>7. OnePlace'
    <2>1. /\ \A q \in Requests, t \in held : Carries(q, t)' <=> Carries(q, t)
          /\ \A t, u \in held : Linked(t, u)' <=> Linked(t, u)
        BY <1>1, WorkKeeps
    <2>. QED BY <1>1, <2>1 DEF BrowserInv, WiresInv, OnePlace
<1>8. JarClean'
    <2>. SUFFICES ASSUME NEW t \in held', jar' = t, Fine(t)', \A q \in Requests : ~Carries(q, t)'
                  PROVE  Clean(t)'
        BY DEF JarClean
    <2>1. t \in held /\ jar = t /\ Fine(t) /\ \A q \in Requests : ~Carries(q, t)
        BY <1>1, WorkKeeps
    <2>2. Clean(t)
        BY <2>1 DEF BrowserInv, WiresInv, JarClean
    <2>3. ASSUME NEW u \in held, Carries(r, u), Linked(t, u) PROVE FALSE
        <3>1. t = wire[r].tok
            BY <2>1, <2>3, JarAndCarrier
        <3>. QED BY <2>1, <2>3, <3>1 DEF Carries
    <2>. QED BY <2>1, <2>2, <2>3, WorkClean
<1>9. SignedOut'
    <2>. SUFFICES ASSUME NEW t \in out', Fine(t)'
                  PROVE  SessionOf(t)' \in early' \/ (Over(t)' /\ Gone(t)')
        BY DEF SignedOut
    <2>1. t \in out /\ t \in held
        BY <1>1 DEF BrowserInv, BrowserTypeOK
    <2>2. Fine(t) /\ SessionOf(t)' = SessionOf(t)
        BY <1>1, <2>1, WorkKeeps
    <2>3. SessionOf(t) \in early \/ (Over(t) /\ Gone(t))
        BY <2>1, <2>2 DEF BrowserInv, WiresInv, SignedOut
    <2>4. Gone(t) /\ Over(t) => Over(t)'
        BY <2>1, <2>2, WorkClean DEF Gone
    <2>5. /\ \A q \in Requests, u \in held : Carries(q, u)' <=> Carries(q, u)
          /\ \A u \in held : Linked(t, u)' <=> Linked(t, u)
        BY <1>1, <2>1, WorkKeeps
    <2>6. Gone(t) => Gone(t)'
        BY <1>1, <2>5 DEF Gone
    <2>. QED BY <1>1, <2>2, <2>3, <2>4, <2>6
<1>. QED BY <1>3, <1>4, <1>5, <1>6, <1>7, <1>8, <1>9 DEF WiresInv

-----------------------------------------------------------------------------
(* The answer leaves: a new token, if there is one, is on the wire now.    *)

BrowserReplies(r) ==
    /\ Reply(r) /\ UNCHANGED <<jar, out, excused>> /\ early' = early
    /\ wire' = IF wire[r].state = "open" THEN [wire EXCEPT ![r] = Answer(r)] ELSE wire

\* A minted token shares its session with the token it is exchanged for only.
LEMMA NewLinks ==
    ASSUME SlotsInv, NEW r \in Requests, job[r].ins # NoRow, pc[r] = "reply",
           NEW u \in held, SessionOf(u) = SessionOf(job[r].new)
    PROVE  job[r].tok # NoToken /\ job[r].tok \in held /\ SessionOf(job[r].tok) = SessionOf(u)
<1>. DEFINE n == job[r].new
<1>1. n \in Tokens /\ ~Stored(n) /\ n \notin held /\ u \in Tokens
    BY PendingToken, SlotFacts DEF Handed, SlotsInv, IInv, TypeOK
<1>2. ASSUME job[r].tok = NoToken PROVE FALSE
    <2>1. SessionOf(u) = n
        BY <1>2, PendingToken
    <2>2. SessionsAreRows /\ LineageIdentity
        BY SessionsLemma DEF SlotsInv, IInv
    <2>3. CASE Stored(u)
        BY <1>1, <2>1, <2>2, <2>3 DEF SessionsAreRows, LineageIdentity
    <2>4. ASSUME NEW q \in Requests, ~Stored(u), Pending(q, u) PROVE FALSE
        <3>1. job[q].ins # NoRow /\ job[q].new = u /\ u # n
            BY <1>1, <2>4 DEF Pending
        <3>2. Known(q) /\ SessionOf(job[q].tok) = n /\ job[q].tok \in Tokens
            BY <2>1, <3>1, PendingToken
        <3>. QED BY <1>1, <2>2, <3>2 DEF SessionsAreRows, LineageIdentity, Known
    <2>5. u # n
        BY <1>1
    <2>. QED BY <1>1, <2>1, <2>2, <2>3, <2>4, <2>5 DEF SessionsAreRows
<1>3. job[r].tok # NoToken
    BY <1>2
<1>4. SessionOf(job[r].tok) = SessionOf(u) /\ job[r].tok \in held
    BY <1>3, PendingToken, SlotFacts DEF Handed
<1>. QED BY <1>3, <1>4

\* If it has that in common with one the browser has, the exchange is on the
\* wire and the browser has no other.
LEMMA NewInPlace ==
    ASSUME BrowserInv, NEW r \in Requests, job[r].ins # NoRow, pc[r] = "reply",
           NEW u \in held, Fine(u), SessionOf(u) = SessionOf(job[r].new)
    PROVE  /\ wire[r].state = "open" /\ wire[r].tok \in held /\ Carries(r, wire[r].tok)
           /\ Linked(wire[r].tok, u) /\ Linked(u, wire[r].tok)
           /\ \A q \in Requests \ {r} : ~Carries(q, u)
           /\ jar = u => u = wire[r].tok
<1>. DEFINE t == job[r].tok
<1>1. t # NoToken /\ t \in held /\ SessionOf(t) = SessionOf(u)
    BY NewLinks, WireFacts
<1>2. Fine(t) /\ Linked(t, u) /\ Linked(u, t)
    BY <1>1 DEF Fine, Linked
<1>3. wire[r].state = "open" /\ wire[r].tok = t /\ Carries(r, t)
    BY <1>1, <1>2, WorkIsOpen DEF Running
<1>. HIDE DEF t
<1>4. \A q \in Requests \ {r} : ~Carries(q, u)
    BY <1>1, <1>2, <1>3, OneCarrier
<1>5. jar = u => u = wire[r].tok
    BY <1>1, <1>2, <1>3, JarAndCarrier
<1>. QED BY <1>1, <1>2, <1>3, <1>4, <1>5

\* What it leaves alone, and where it takes the new token.
LEMMA ReplyKeeps ==
    ASSUME BrowserInv, SlotsInv', NEW r \in Requests, BrowserReplies(r)
    PROVE  /\ jar' = jar /\ out' = out /\ early' = early /\ job' = job
           /\ pc[r] = "reply" /\ pc'[r] = "close"
           /\ \A q \in Requests \ {r} : pc'[q] = pc[q] /\ wire'[q] = wire[q]
           /\ \A q \in Requests : wire'[q].tok = wire[q].tok
           /\ held' = IF job[r].ins # NoRow THEN held \cup {job[r].new} ELSE held
           /\ job[r].ins # NoRow => job[r].new \notin held /\ job[r].new # NoToken
           /\ wire[r].state = "none" => wire'[r] = wire[r]
           /\ wire[r].state # "none" =>
                /\ wire[r].state = "open" /\ wire'[r] = Answer(r) /\ wire'[r].state = "answer"
                /\ wire'[r].tok = wire[r].tok /\ wire'[r].sets = (job[r].status = "ok")
                /\ wire'[r].cookie = IF job[r].ins # NoRow THEN job[r].new ELSE NoToken
           /\ \A t \in Tokens : /\ (Stored(t)' <=> Stored(t)) /\ (Clean(t)' <=> Clean(t))
                                /\ SessionOf(t)' = SessionOf(t) /\ (Fine(t)' <=> Fine(t))
                                /\ Over(t) => Over(t)'
                                /\ \A q \in Requests : /\ Pending(q, t)' <=> Pending(q, t)
                                                       /\ CleanBut(q, t)' <=> CleanBut(q, t)
           /\ \A t, u \in Tokens : Linked(t, u)' <=> Linked(t, u)
<1>1. /\ job' = job /\ pc[r] = "reply" /\ row' = row /\ consumed' = consumed /\ revoked' = revoked
      /\ sealed' = sealed /\ jar' = jar /\ out' = out /\ early' = early /\ excused' = excused
      /\ pc' = [pc EXCEPT ![r] = "close"]
      /\ held' = IF job[r].ins # NoRow THEN held \cup {job[r].new} ELSE held
    BY DEF BrowserReplies, Reply, Goto, DB
<1>2. SlotsInv /\ wire \in [Requests -> Wire] /\ wire[r] \in Wire
    BY WireFacts
<1>3. pc'[r] = "close" /\ \A q \in Requests \ {r} : pc'[q] = pc[q]
    BY <1>1, <1>2, SlotFacts
<1>4. job[r].ins # NoRow => job[r].new \notin held /\ job[r].new # NoToken
    BY <1>1, <1>2, PendingToken, ConstantsOK, SlotFacts DEF Handed
<1>5. wire[r].state # "answer"
    BY <1>1, WireFacts DEF OnTheWire, Running
<1>6. \A q \in Requests \ {r} : wire'[q] = wire[q]
    BY <1>2 DEF BrowserReplies
<1>7. wire[r].state = "none" => wire'[r] = wire[r]
    BY DEF BrowserReplies
<1>8. ASSUME wire[r].state = "open"
      PROVE  /\ wire'[r] = Answer(r) /\ wire'[r].state = "answer"
             /\ wire'[r].tok = wire[r].tok /\ wire'[r].sets = (job[r].status = "ok")
             /\ wire'[r].cookie = IF job[r].ins # NoRow THEN job[r].new ELSE NoToken
    <2>1. wire'[r] = Answer(r)
        BY <1>2, <1>8 DEF BrowserReplies
    <2>. QED BY <1>2, <2>1 DEF Answer, Wire
<1>9. wire[r].state \in {"none", "open"}
    BY <1>2, <1>5 DEF Wire
<1>10. \A q \in Requests : wire'[q].tok = wire[q].tok
    BY <1>6, <1>7, <1>8, <1>9
<1>11. ASSUME NEW t \in Tokens
       PROVE  /\ (Stored(t)' <=> Stored(t)) /\ (Clean(t)' <=> Clean(t))
              /\ SessionOf(t)' = SessionOf(t) /\ (Fine(t)' <=> Fine(t))
              /\ Over(t) => Over(t)'
              /\ \A q \in Requests : /\ Pending(q, t)' <=> Pending(q, t)
                                     /\ CleanBut(q, t)' <=> CleanBut(q, t)
    <2>1. (Stored(t)' <=> Stored(t)) /\ (Dead(t)' <=> Dead(t))
        BY <1>1 DEF Stored, Dead
    <2>2. \A q \in Requests : (Pending(q, t)' <=> Pending(q, t)) /\ Locks(q)' = Locks(q)
                              /\ Session(q)' = Session(q)
        BY <1>1 DEF Pending, Locks, Session
    <2>3. SessionOf(t)' = SessionOf(t)
        BY <1>1 DEF SessionOf, Stored
    <2>4. Fine(t)' <=> Fine(t)
        BY <1>1, <2>3 DEF Fine
    <2>5. Over(t) => Over(t)'
        BY <1>1, <1>3, <2>2, <2>3 DEF Over
    <2>6. Clean(t)' <=> Clean(t)
        BY <2>1, <2>2 DEF Clean
    <2>7. \A q \in Requests : CleanBut(q, t)' <=> CleanBut(q, t)
        BY <2>1, <2>2 DEF CleanBut
    <2>. QED BY <2>1, <2>2, <2>3, <2>4, <2>5, <2>6, <2>7
<1>12. \A t, u \in Tokens : Linked(t, u)' <=> Linked(t, u)
    BY <1>11 DEF Linked
<1>. QED BY <1>1, <1>3, <1>4, <1>6, <1>7, <1>8, <1>9, <1>10, <1>11, <1>12
\* Where the tokens are after that.
LEMMA ReplyCarries ==
    ASSUME BrowserInv, SlotsInv', NEW r \in Requests, BrowserReplies(r)
    PROVE  /\ \A q \in Requests, t \in held : Carries(q, t)' <=> Carries(q, t)
           /\ \A q \in Requests, t \in held' : t \notin held /\ Carries(q, t)'
                => q = r /\ wire[r].state = "open" /\ t = wire'[r].cookie
           /\ \A t \in held' : t \notin held => t = job[r].new /\ job[r].ins # NoRow /\ jar # t
           /\ held \subseteq held' /\ held' \subseteq Tokens
<1>1. /\ \A q \in Requests \ {r} : wire'[q] = wire[q]
      /\ wire[r].state = "none" => wire'[r] = wire[r]
      /\ wire[r].state # "none" =>
           /\ wire[r].state = "open" /\ wire'[r].state = "answer" /\ wire'[r].tok = wire[r].tok
           /\ wire'[r].cookie = IF job[r].ins # NoRow THEN job[r].new ELSE NoToken
      /\ held' = IF job[r].ins # NoRow THEN held \cup {job[r].new} ELSE held
      /\ job[r].ins # NoRow => job[r].new \notin held
    BY ReplyKeeps
<1>2. \A q \in Requests : {wire[q].tok, wire[q].cookie} \subseteq held \cup {NoToken}
    BY WireFacts
<1>3. wire[r].state = "open" => wire[r].cookie = NoToken
    BY WireFacts DEF OnTheWire
<1>4. NoToken \notin held /\ held' \subseteq Tokens /\ NoToken \notin held'
    BY WireFacts, ConstantsOK DEF SlotsInv, IInv, TypeOK
<1>5. \A q \in Requests \ {r}, t \in held' : Carries(q, t)' <=> Carries(q, t)
    BY <1>1 DEF Carries
<1>6. \A t \in held : Carries(r, t)' <=> Carries(r, t)
    BY <1>1, <1>3, <1>4 DEF Carries
<1>7. held \subseteq held'
    BY <1>1
<1>8. \A q \in Requests, t \in held' : t \notin held => ~Carries(q, t)
    BY <1>2, <1>4 DEF Carries
<1>9. ASSUME NEW t \in held', t \notin held, Carries(r, t)'
      PROVE  wire[r].state = "open" /\ t = wire'[r].cookie
    BY <1>1, <1>2, <1>4, <1>9 DEF Carries
<1>10. \A t \in held' : t \notin held => t = job[r].new /\ job[r].ins # NoRow /\ jar # t
    BY <1>1, <1>4 DEF BrowserInv, BrowserTypeOK
<1>11. \A q \in Requests, t \in held : Carries(q, t)' <=> Carries(q, t)
    BY <1>5, <1>6, <1>7
<1>. QED BY <1>4, <1>5, <1>7, <1>8, <1>9, <1>10, <1>11

\* The answer keeps the invariant, part by part.
LEMMA ReplyAnswered ==
    ASSUME BrowserInv, SlotsInv', NEW r \in Requests, BrowserReplies(r), NEW q \in Requests
    PROVE  OnTheWire(q)' /\ Served(q)' /\ Answered(q)'
<1>. DEFINE n == job[r].new
<1>1. /\ \A p \in Requests \ {r} : wire'[p] = wire[p] /\ pc'[p] = pc[p]
      /\ pc[r] = "reply" /\ pc'[r] = "close" /\ job' = job /\ early' = early
      /\ wire[r].state = "none" => wire'[r] = wire[r]
      /\ wire[r].state # "none" =>
           /\ wire[r].state = "open" /\ wire'[r] = Answer(r) /\ wire'[r].state = "answer"
           /\ wire'[r].tok = wire[r].tok /\ wire'[r].sets = (job[r].status = "ok")
           /\ wire'[r].cookie = IF job[r].ins # NoRow THEN n ELSE NoToken
    BY ReplyKeeps
<1>2. \A t \in Tokens : /\ (Stored(t)' <=> Stored(t)) /\ (Clean(t)' <=> Clean(t))
                        /\ SessionOf(t)' = SessionOf(t) /\ (Fine(t)' <=> Fine(t))
                        /\ Over(t) => Over(t)'
                        /\ \A p \in Requests : CleanBut(p, t)' <=> CleanBut(p, t)
    BY ReplyKeeps
<1>3. SlotsInv /\ held \subseteq Tokens /\ NoToken \notin held /\ held' \subseteq Tokens
      /\ held \subseteq held'
    BY WireFacts, ReplyCarries
<1>4. wire[q].tok \in held \cup {NoToken} /\ wire[q].cookie \in held \cup {NoToken}
    BY WireFacts
<1>5. NoToken \notin held'
    BY <1>3, ConstantsOK
<1>6. CASE q # r
    <2>1. OnTheWire(q) /\ Served(q) /\ Answered(q) /\ wire'[q] = wire[q] /\ pc'[q] = pc[q]
        BY <1>1, <1>6, WireFacts
    <2>2. Running(q)' <=> Running(q)
        BY <2>1 DEF Running
    <2>3. Answer(q)' = Answer(q)
        BY <1>1, <2>1 DEF Answer
    <2>4. OnTheWire(q)'
        <3>1. job[q].tok \in held \cup {NoToken}
            BY <1>3, SlotFacts DEF Handed
        <3>. QED BY <1>1, <1>2, <1>3, <1>4, <1>5, <2>1, <2>2, <2>3, <3>1 DEF OnTheWire
    <2>5. Served(q)'
        BY <1>1, <1>2, <1>3, <1>4, <1>5, <2>1 DEF Served
    <2>6. Answered(q)'
        <3>. SUFFICES ASSUME wire'[q].state = "answer", NEW t \in held', Fine(t)'
                      PROVE  /\ wire'[q].cookie = t => Clean(t)'
                             /\ wire'[q].tok = t /\ ~wire'[q].sets => Clean(t)'
                             /\ wire'[q].tok = t /\ wire'[q].sets /\ wire'[q].cookie = NoToken
                                => SessionOf(t)' \in early' \/ Over(t)'
            BY DEF Answered
        <3>1. t \in Tokens /\ Fine(t) /\ t # NoToken
            BY <1>2, <1>3, <1>5
        <3>2. wire[q].cookie = t \/ wire[q].tok = t => t \in held
            BY <1>4, <3>1
        <3>. QED BY <1>1, <1>2, <2>1, <3>1, <3>2 DEF Answered
    <2>. QED BY <2>4, <2>5, <2>6
<1>7. CASE q = r
    <2>1. OnTheWire(r) /\ Served(r) /\ ~Running(r)'
        BY <1>1, WireFacts DEF Running
    <2>2. wire[r].state = "open" => job[r].tok = wire[r].tok
        BY <2>1 DEF OnTheWire
    <2>3. job[r].ins # NoRow => job[r].status = "ok" /\ (job[r].tok # NoToken => Stored(job[r].tok))
        BY <1>3, PendingToken, SlotFacts DEF Outcome, Known
    <2>4. Served(r)'
        BY <1>1 DEF Served
    <2>5. OnTheWire(r)'
        <3>1. CASE wire[r].state = "none"
            BY <1>1, <2>1, <3>1 DEF OnTheWire
        <3>2. CASE wire[r].state # "none"
            <4>1. wire'[r] = Answer(r)'
                BY <1>1, <3>2, WireFacts DEF Answer, Wire
            <4>2. wire'[r].cookie # NoToken
                  => wire'[r].sets /\ (wire'[r].tok # NoToken => Stored(wire'[r].tok))
                BY <1>1, <2>2, <2>3, <3>2
            <4>3. wire'[r].tok # NoToken => wire'[r].tok \in Tokens
                BY <1>1, <1>3, <1>4, <1>7, <3>2
            <4>4. wire'[r].cookie # NoToken
                  => wire'[r].sets /\ (wire'[r].tok # NoToken => row'[wire'[r].tok] # NoRow)
                <5>1. \A t \in Tokens : Stored(t) => row'[t] # NoRow
                    BY <1>2 DEF Stored
                <5>. QED BY <4>2, <4>3, <5>1
            <4>. QED BY <1>1, <2>1, <3>2, <4>1, <4>4 DEF OnTheWire, Stored
        <3>. QED BY <3>1, <3>2
    <2>6. Answered(r)'
        <3>. SUFFICES ASSUME wire'[r].state = "answer", NEW t \in held', Fine(t)'
                      PROVE  /\ wire'[r].cookie = t => Clean(t)'
                             /\ wire'[r].tok = t /\ ~wire'[r].sets => Clean(t)'
                             /\ wire'[r].tok = t /\ wire'[r].sets /\ wire'[r].cookie = NoToken
                                => SessionOf(t)' \in early' \/ Over(t)'
            BY DEF Answered
        <3>1. wire[r].state = "open"
            BY <1>1
        <3>2. t \in Tokens /\ Fine(t) /\ t # NoToken
            BY <1>2, <1>3, <1>5
        <3>3. ASSUME wire'[r].cookie = t PROVE Clean(t)'
            <4>1. job[r].ins # NoRow /\ t = n
                BY <1>1, <3>1, <3>2, <3>3
            <4>2. ~Stored(t)
                BY <1>3, <4>1, PendingToken
            <4>. QED BY <1>2, <1>3, <3>2, <4>2, PendingClean
        <3>4. ASSUME wire'[r].tok = t
              PROVE  /\ t \in held /\ job[r].tok = t /\ CleanBut(r, t) /\ job[r].burn # "raced"
                     /\ job[r].burn # "none" => job[r].status = "ok"
                     /\ job[r].ins = NoRow /\ job[r].status = "ok" /\ job[r].burn = "none"
                        => SessionOf(t) \in early
            <4>1. t \in held /\ wire[r].tok = t
                BY <1>1, <1>4, <1>7, <3>1, <3>2, <3>4
            <4>. QED BY <1>1, <2>1, <2>2, <3>1, <3>2, <4>1 DEF Served
        <3>5. ASSUME wire'[r].tok = t, ~wire'[r].sets PROVE Clean(t)'
            <4>1. job[r].status # "ok"
                BY <1>1, <3>1, <3>5
            <4>2. job[r].ins = NoRow /\ job[r].burn = "none"
                BY <2>3, <3>4, <3>5, <4>1
            <4>3. Locks(r) = {}
                BY <1>1, <1>3, <4>2, SlotFacts DEF WriteSet, Spending, RowsOfLineage, Locks
            <4>4. Clean(t)
                BY <3>4, <3>5, <4>3 DEF CleanBut, Clean
            <4>. QED BY <1>2, <3>2, <4>4
        <3>6. ASSUME wire'[r].tok = t, wire'[r].sets, wire'[r].cookie = NoToken
              PROVE  SessionOf(t)' \in early' \/ Over(t)'
            <4>1. job[r].status = "ok"
                BY <1>1, <3>1, <3>6
            <4>2. job[r].ins = NoRow
                BY <1>1, <1>3, <3>1, <3>6, PendingToken, ConstantsOK
            <4>3. CASE job[r].burn = "none"
                BY <1>1, <1>2, <3>2, <3>4, <3>6, <4>1, <4>2, <4>3
            <4>4. CASE job[r].burn # "none"
                <5>1. job[r].burn = "clean"
                    BY <1>3, <3>4, <3>6, <4>4, SlotFacts DEF Job
                <5>2. Known(r) /\ Session(r) = SessionOf(t)
                    BY <1>3, <3>4, <3>6, <4>4, SlotFacts, SessionOfRequest DEF LookedUp, SlotsInv
                <5>3. Session(r)' = Session(r)
                    BY <1>1 DEF BrowserReplies, Reply, DB, Session
                <5>4. SessionOf(t)' = SessionOf(t)
                    BY <1>2, <3>2
                <5>. QED BY <1>1, <5>1, <5>2, <5>3, <5>4 DEF Over
            <4>. QED BY <4>3, <4>4
        <3>. QED BY <3>3, <3>5, <3>6
    <2>. QED BY <1>7, <2>4, <2>5, <2>6
<1>. QED BY <1>6, <1>7

LEMMA ReplyWires ==
    ASSUME BrowserInv, SlotsInv', NEW r \in Requests, BrowserReplies(r)
    PROVE  WiresInv'
<1>. DEFINE n == job[r].new
<1>1. /\ \A q \in Requests, t \in held : Carries(q, t)' <=> Carries(q, t)
      /\ \A q \in Requests, t \in held' : t \notin held /\ Carries(q, t)'
           => q = r /\ wire[r].state = "open" /\ t = wire'[r].cookie
      /\ \A t \in held' : t \notin held => t = n /\ job[r].ins # NoRow /\ jar # t
      /\ held \subseteq held' /\ held' \subseteq Tokens
    BY ReplyCarries
<1>2. /\ \A t \in Tokens : /\ (Stored(t)' <=> Stored(t)) /\ (Clean(t)' <=> Clean(t))
                           /\ SessionOf(t)' = SessionOf(t) /\ (Fine(t)' <=> Fine(t))
                           /\ Over(t) => Over(t)'
                           /\ \A q \in Requests : Pending(q, t)' <=> Pending(q, t)
      /\ \A t, u \in Tokens : Linked(t, u)' <=> Linked(t, u)
    BY ReplyKeeps
<1>3. /\ jar' = jar /\ out' = out /\ early' = early /\ job' = job
      /\ pc[r] = "reply" /\ pc'[r] = "close"
      /\ \A q \in Requests : wire'[q].tok = wire[q].tok
      /\ \A q \in Requests \ {r} : wire'[q] = wire[q] /\ pc'[q] = pc[q]
      /\ wire[r].state # "none" => wire'[r].state = "answer"
    BY ReplyKeeps
<1>4. ASSUME NEW t \in held', t \notin held, NEW u \in held, Linked(t, u) \/ Linked(u, t)
      PROVE  /\ wire[r].state = "open" /\ wire[r].tok \in held /\ Carries(r, wire[r].tok)
             /\ Linked(wire[r].tok, u) /\ Linked(u, wire[r].tok)
             /\ \A q \in Requests \ {r} : ~Carries(q, u)
             /\ jar = u => u = wire[r].tok
    <2>1. t = n /\ job[r].ins # NoRow
        BY <1>1, <1>4
    <2>2. Fine(u) /\ SessionOf(u) = SessionOf(n)
        BY <1>4, <2>1, LinkedLaws
    <2>. QED BY <1>3, <2>1, <2>2, NewInPlace
<1>5. \A q \in Requests : OnTheWire(q)' /\ Served(q)' /\ Answered(q)'
    BY ReplyAnswered
<1>6. ASSUME NEW q \in Requests PROVE Newest(q)'
    <2>. SUFFICES ASSUME wire'[q].state = "none", pc'[q] = "close", job'[q].ins # NoRow,
                         NEW t \in held', NEW u \in held', job'[q].new = t, Linked(t, u)'
                  PROVE  /\ jar' = u => u = t
                         /\ \A p \in Requests : Carries(p, u)' => wire'[p].tok = t
        BY DEF Newest
    <2>1. Linked(t, u)
        BY <1>1, <1>2
    <2>2. CASE q = r
        <3>1. wire[r].state = "none"
            BY <1>3, <2>2, WireFacts DEF Wire
        <3>2. t = n /\ t \notin held
            BY <1>3, <2>2, WireFacts, SlotFacts DEF Handed
        <3>3. u \notin held
            BY <1>4, <2>1, <3>1, <3>2
        <3>. QED BY <1>1, <1>3, <3>1, <3>3
    <2>3. CASE q # r
        <3>1. wire[q].state = "none" /\ pc[q] = "close" /\ job[q].ins # NoRow /\ job[q].new = t
            BY <1>3, <2>3
        <3>2. t \in held
            BY <3>1, WireFacts, SlotFacts DEF Handed
        <3>3. \A v \in held : Linked(t, v) =>
                (jar = v => v = t) /\ \A p \in Requests : Carries(p, v) => wire[p].tok = t
            BY <3>1, <3>2, WireFacts DEF Newest
        <3>4. CASE u \in held
            BY <1>1, <1>3, <2>1, <3>3, <3>4
        <3>5. CASE u \notin held
            <4>1. wire[r].tok \in held /\ Carries(r, wire[r].tok) /\ Linked(t, wire[r].tok)
                BY <1>4, <2>1, <3>2, <3>5
            <4>2. wire'[r].tok = t
                BY <1>3, <3>3, <4>1
            <4>. QED BY <1>1, <1>3, <3>5, <4>2
        <3>. QED BY <3>4, <3>5
    <2>. QED BY <2>2, <2>3
<1>7. Traced'
    <2>1. \A q \in Requests : {wire'[q].tok, wire'[q].cookie} \subseteq held' \cup {NoToken}
        BY <1>1, ReplyKeeps, WireFacts
    <2>2. \A t \in held' : Stored(t)' \/ ~Fine(t)' \/ \E q \in Requests : Pending(q, t)'
        <3>1. \A t \in held : Stored(t) \/ ~Fine(t) \/ \E q \in Requests : Pending(q, t)
            BY DEF BrowserInv, WiresInv, Traced
        <3>2. \A t \in held' : t \notin held => Pending(r, t)
            BY <1>1 DEF Pending
        <3>. QED BY <1>1, <1>2, <3>1, <3>2
    <2>. QED BY <2>1, <2>2 DEF Traced
<1>8. OnePlace'
    <2>1. ASSUME NEW p \in Requests, NEW q \in Requests, NEW t \in held', NEW u \in held',
                 p # q, Carries(p, t)', Carries(q, u)', Linked(t, u)'
          PROVE  FALSE
        <3>1. Linked(t, u) /\ Linked(u, t)
            BY <1>1, <1>2, <2>1, LinkedLaws
        <3>2. CASE t \in held /\ u \in held
            BY <1>1, <2>1, <3>1, <3>2, OneCarrier
        <3>3. CASE t \notin held /\ u \in held
            BY <1>1, <1>4, <2>1, <3>1, <3>3
        <3>4. CASE u \notin held /\ t \in held
            BY <1>1, <1>4, <2>1, <3>1, <3>4
        <3>5. CASE t \notin held /\ u \notin held
            BY <1>1, <2>1, <3>5
        <3>. QED BY <3>2, <3>3, <3>4, <3>5
    <2>2. ASSUME NEW q \in Requests, NEW t \in held', NEW u \in held',
                 jar' = t, Carries(q, u)', Linked(t, u)'
          PROVE  t = wire'[q].tok
        <3>1. Linked(t, u) /\ Linked(u, t) /\ t \in held /\ jar = t
            BY <1>1, <1>2, <1>3, <2>2, LinkedLaws
        <3>2. CASE u \in held
            BY <1>1, <1>3, <2>2, <3>1, <3>2, JarAndCarrier
        <3>3. CASE u \notin held
            BY <1>1, <1>3, <1>4, <2>2, <3>1, <3>3
        <3>. QED BY <3>2, <3>3
    <2>. QED BY <2>1, <2>2 DEF OnePlace
<1>9. JarClean'
    <2>. SUFFICES ASSUME NEW t \in held', jar' = t, Fine(t)', \A q \in Requests : ~Carries(q, t)'
                  PROVE  Clean(t)'
        BY DEF JarClean
    <2>1. t \in held /\ t \in Tokens /\ jar = t /\ Fine(t) /\ \A q \in Requests : ~Carries(q, t)
        BY <1>1, <1>2, <1>3
    <2>. QED BY <1>2, <2>1 DEF BrowserInv, WiresInv, JarClean
<1>10. SignedOut'
    <2>. SUFFICES ASSUME NEW t \in out', Fine(t)'
                  PROVE  SessionOf(t)' \in early' \/ (Over(t)' /\ Gone(t)')
        BY DEF SignedOut
    <2>1. t \in out /\ t \in held /\ t \in Tokens
        BY <1>1, <1>3 DEF BrowserInv, BrowserTypeOK
    <2>2. SessionOf(t) \in early \/ (Over(t) /\ Gone(t))
        BY <1>2, <2>1 DEF BrowserInv, WiresInv, SignedOut
    <2>3. ASSUME Gone(t), NEW u \in held', Linked(t, u)'
          PROVE  jar' # u /\ \A q \in Requests : ~Carries(q, u)'
        <3>1. Linked(t, u)
            BY <1>1, <1>2, <2>1, <2>3
        <3>2. CASE u \in held
            BY <1>1, <1>3, <2>3, <3>1, <3>2 DEF Gone
        <3>3. CASE u \notin held
            BY <1>4, <2>1, <2>3, <3>1, <3>3 DEF Gone
        <3>. QED BY <3>2, <3>3
    <2>4. Gone(t) => Gone(t)'
        BY <2>3 DEF Gone
    <2>. QED BY <1>2, <1>3, <2>1, <2>2, <2>4
<1>. QED BY <1>5, <1>6, <1>7, <1>8, <1>9, <1>10 DEF WiresInv

-----------------------------------------------------------------------------
(* The transaction ends.                                                   *)

\* What a step keeps of the tokens clients hold, those apart that an accident
\* happens to.
Keeps ==
    /\ held \subseteq held'
    /\ \A t \in held : Fine(t)' => Fine(t) /\ SessionOf(t)' = SessionOf(t)

\* So does it keep what links them.
LEMMA KeepsLinks ==
    ASSUME Keeps, NEW t \in held, NEW u \in held, Linked(t, u)'
    PROVE  Linked(t, u) /\ Linked(u, t) /\ Fine(t)' /\ Fine(u)'
<1>1. Fine(t)' /\ SessionOf(t)' = SessionOf(u)'
    BY DEF Linked
<1>2. Fine(u)'
    BY <1>1 DEF Fine
<1>. QED BY <1>1, <1>2 DEF Keeps, Linked

\* Commit.
BrowserCloses(r) == Close(r) /\ UNCHANGED <<jar, wire, out, excused>> /\ early' = early

LEMMA CloseKeeps ==
    ASSUME BrowserInv, SlotsInv', NEW r \in Requests, BrowserCloses(r)
    PROVE  /\ Commits(r) /\ Keeps /\ held' = held
           /\ \A t \in Tokens : /\ SessionOf(t)' = SessionOf(t)
                                /\ Stored(t)' <=> Stored(t) \/ Pending(r, t)
                                /\ Clean(t) => Clean(t)'
                                /\ Over(t) => Over(t)'
                                /\ \A q \in Requests \ {r} : CleanBut(q, t) => CleanBut(q, t)'
                                /\ \A q \in Requests \ {r} : Pending(q, t)' <=> Pending(q, t)
<1>1. SlotsInv /\ IInv' /\ excused' = excused
    BY WireFacts DEF BrowserCloses, SlotsInv
<1>2. Commits(r)
    BY <1>1, CloseSlots DEF BrowserCloses
<1>3. /\ held' = held /\ job'[r].ins = NoRow /\ Locks(r)' = {}
      /\ \A q \in Requests \ {r} : job'[q] = job[q] /\ pc'[q] = pc[q]
      /\ \A t \in Tokens : Stored(t)' <=> Stored(t) \/ Pending(r, t)
    BY <1>2 DEF Commits, Idle, Locks
<1>4. \A q \in Requests \ {r}, t \in Tokens : Pending(q, t)' <=> Pending(q, t)
    BY <1>3 DEF Pending
<1>5. \A q \in Requests \ {r} : Locks(q)' = Locks(q)
    BY <1>3 DEF Locks
<1>6. \A t \in Tokens : Dead(t)' <=> Dead(t) \/ t \in Locks(r)
    BY <1>2 DEF Commits, Dead
<1>7. \A t \in Tokens : Clean(t) => Clean(t)'
    BY <1>3, <1>5, <1>6 DEF Clean
<1>8. \A t \in Tokens : \A q \in Requests \ {r} : CleanBut(q, t) => CleanBut(q, t)'
    BY <1>3, <1>5, <1>6 DEF CleanBut
<1>9. ASSUME NEW t \in Tokens PROVE SessionOf(t)' = SessionOf(t)
    <2>1. SessionsAreRows /\ SessionsAreRows'
        BY <1>1, SessionsLemma, SessionsNext DEF SlotsInv
    <2>2. CASE Stored(t)
        <3>1. Stored(t)' /\ row'[t] = row[t]
            BY <1>2, <2>2 DEF Commits
        <3>. QED BY <2>1, <2>2, <3>1 DEF SessionsAreRows
    <2>3. CASE ~Stored(t) /\ Pending(r, t)
        <3>1. Stored(t)' /\ row'[t] = job[r].ins
            BY <1>2, <2>3 DEF Commits
        <3>. QED BY <2>1, <2>3, <3>1 DEF SessionsAreRows
    <2>4. ASSUME ~Stored(t), ~Pending(r, t), NEW q \in Requests \ {r}, Pending(q, t)
          PROVE  SessionOf(t)' = SessionOf(t)
        <3>1. ~Stored(t)' /\ Pending(q, t)' /\ job'[q].ins = job[q].ins
            BY <1>3, <1>4, <2>4
        <3>. QED BY <2>1, <2>4, <3>1 DEF SessionsAreRows
    <2>5. CASE ~Stored(t) /\ \A q \in Requests : ~Pending(q, t)
        <3>1. ~Stored(t)' /\ \A q \in Requests : ~Pending(q, t)'
            BY <1>3, <1>4, <2>5 DEF Pending
        <3>. QED BY <2>1, <2>5, <3>1 DEF SessionsAreRows
    <2>. QED BY <2>2, <2>3, <2>4, <2>5
<1>10. ASSUME NEW t \in Tokens, Over(t) PROVE Over(t)'
    <2>1. SessionOf(t)' = SessionOf(t)
        BY <1>9
    <2>2. sealed' = IF job[r].burn = "clean" THEN sealed \cup {Session(r)} ELSE sealed
        BY <1>2 DEF Commits
    <2>3. CASE SessionOf(t) \in sealed
        BY <2>1, <2>2, <2>3 DEF Over
    <2>4. ASSUME NEW q \in Requests, pc[q] = "close", job[q].burn = "clean",
                 Session(q) = SessionOf(t)
          PROVE  Over(t)'
        <3>1. CASE q = r
            BY <2>1, <2>2, <2>4, <3>1 DEF Over
        <3>2. CASE q # r
            <4>1. Known(q) /\ job[q].tok \in Tokens
                BY <1>1, <2>4, SlotFacts, SessionOfRequest DEF LookedUp, SlotsInv
            <4>2. Session(q)' = Session(q)
                BY <1>2, <1>3, <3>2, <4>1 DEF Commits, Session, Known
            <4>. QED BY <1>3, <2>1, <2>4, <3>2, <4>2 DEF Over
        <3>. QED BY <3>1, <3>2
    <2>. QED BY <1>10, <2>3, <2>4 DEF Over
<1>11. Keeps
    <2>1. held \subseteq Tokens
        BY WireFacts
    <2>. QED BY <1>1, <1>3, <1>9, <2>1 DEF Keeps, Fine
<1>. QED BY <1>2, <1>3, <1>4, <1>7, <1>8, <1>9, <1>10, <1>11

\* The end of the transaction keeps the invariant of a slot that has answered.
LEMMA CloseWires ==
    ASSUME BrowserInv, SlotsInv', NEW r \in Requests, BrowserCloses(r)
    PROVE  WiresInv'
<1>1. /\ jar' = jar /\ wire' = wire /\ out' = out /\ early' = early /\ held' = held
      /\ pc[r] = "close" /\ pc'[r] = "idle" /\ job'[r] = Idle
      /\ \A q \in Requests \ {r} : job'[q] = job[q] /\ pc'[q] = pc[q]
    BY CloseKeeps DEF BrowserCloses, Commits
<1>2. /\ Keeps
      /\ \A t \in Tokens : /\ SessionOf(t)' = SessionOf(t)
                           /\ Stored(t)' <=> Stored(t) \/ Pending(r, t)
                           /\ Clean(t) => Clean(t)'
                           /\ Over(t) => Over(t)'
                           /\ \A q \in Requests \ {r} : CleanBut(q, t) => CleanBut(q, t)'
                           /\ \A q \in Requests \ {r} : Pending(q, t)' <=> Pending(q, t)
    BY CloseKeeps
<1>3. held \subseteq Tokens /\ NoToken \notin held /\ SlotsInv
    BY WireFacts
<1>4. /\ \A q \in Requests, t \in held : Carries(q, t)' <=> Carries(q, t)
      /\ \A t, u \in held : Linked(t, u)' => Linked(t, u)
      /\ \A t \in held : Fine(t)' => Fine(t)
    BY <1>1, <1>2, KeepsLinks DEF Carries, Keeps
<1>5. ASSUME NEW q \in Requests PROVE OnTheWire(q)'
    <2>1. OnTheWire(q)
        BY WireFacts
    <2>2. wire[q].tok # NoToken => (Stored(wire[q].tok) => row'[wire[q].tok] # NoRow)
        <3>1. \A t \in Tokens : Stored(t) => row'[t] # NoRow
            BY <1>2 DEF Stored
        <3>. QED BY <1>3, <3>1, WireFacts
    <2>3. CASE q = r
        <3>1. ~Running(r) /\ ~Running(r)' /\ pc'[r] # "close"
            BY <1>1 DEF Running
        <3>. QED BY <1>1, <2>1, <2>2, <2>3, <3>1 DEF OnTheWire, Stored
    <2>4. CASE q # r
        <3>1. (Running(q)' <=> Running(q)) /\ Answer(q)' = Answer(q)
            BY <1>1, <2>4 DEF Running, Answer
        <3>. QED BY <1>1, <1>4, <2>1, <2>2, <2>4, <3>1 DEF OnTheWire, Stored
    <2>. QED BY <2>3, <2>4
<1>6. ASSUME NEW q \in Requests PROVE Served(q)'
    <2>1. CASE q = r
        BY <1>1, <2>1, WireFacts DEF Served, OnTheWire, Running
    <2>2. CASE q # r
        BY <1>1, <1>2, <1>3, <1>4, <2>2, WireFacts DEF Served
    <2>. QED BY <2>1, <2>2
<1>7. ASSUME NEW q \in Requests PROVE Answered(q)'
    <2>1. \A t \in held : Fine(t)' => /\ Fine(t) /\ SessionOf(t)' = SessionOf(t)
                                      /\ (Clean(t) => Clean(t)') /\ (Over(t) => Over(t)')
        BY <1>2, <1>3 DEF Keeps
    <2>. QED BY <1>1, <2>1, WireFacts DEF Answered
<1>8. ASSUME NEW q \in Requests PROVE Newest(q)'
    <2>1. CASE q = r
        BY <1>1, <2>1 DEF Newest
    <2>2. CASE q # r
        BY <1>1, <1>4, <2>2, WireFacts DEF Newest
    <2>. QED BY <2>1, <2>2
<1>9. Traced'
    <2>1. \A t \in held : Stored(t) \/ ~Fine(t) \/ \E q \in Requests : Pending(q, t)
        BY DEF BrowserInv, WiresInv, Traced
    <2>2. \A t \in held : Stored(t)' \/ ~Fine(t)' \/ \E q \in Requests : Pending(q, t)'
        BY <1>2, <1>3, <1>4, <2>1
    <2>. QED BY <1>1, <2>2 DEF BrowserInv, WiresInv, Traced
<1>10. OnePlace'
    BY <1>1, <1>4 DEF BrowserInv, WiresInv, OnePlace
<1>11. JarClean'
    BY <1>1, <1>2, <1>3, <1>4 DEF BrowserInv, WiresInv, JarClean
<1>12. SignedOut'
    <2>1. \A t \in held : Gone(t) => Gone(t)'
        BY <1>1, <1>4 DEF Gone
    <2>2. out \subseteq held
        BY DEF BrowserInv, BrowserTypeOK
    <2>3. \A t \in held : Fine(t)' => /\ Fine(t) /\ SessionOf(t)' = SessionOf(t)
                                      /\ (Over(t) => Over(t)')
        BY <1>2, <1>3 DEF Keeps
    <2>. QED BY <1>1, <2>1, <2>2, <2>3 DEF BrowserInv, WiresInv, SignedOut
<1>. QED BY <1>5, <1>6, <1>7, <1>8, <1>9, <1>10, <1>11, <1>12 DEF WiresInv
\* Rollback: after the answer it is an accident.
BrowserRollsBack(r) ==
    /\ Rollback(r) /\ UNCHANGED <<jar, out>> /\ early' = early
    /\ excused' = IF pc[r] = "close" THEN excused \cup Uncommitted(r) ELSE excused
    /\ wire' = IF wire[r].state = "open" THEN [wire EXCEPT ![r].state = "answer"] ELSE wire

LEMMA RollbackKeeps ==
    ASSUME BrowserInv, SlotsInv', NEW r \in Requests, BrowserRollsBack(r)
    PROVE  /\ Keeps /\ held' = held /\ jar' = jar /\ out' = out /\ early' = early
           /\ job'[r] = Idle /\ pc'[r] = "idle"
           /\ \A q \in Requests \ {r} : job'[q] = job[q] /\ pc'[q] = pc[q] /\ wire'[q] = wire[q]
           /\ \A q \in Requests : /\ wire'[q].tok = wire[q].tok /\ wire'[q].cookie = wire[q].cookie
                                  /\ wire'[q].sets = wire[q].sets
                                  /\ wire'[q].state = "none" <=> wire[q].state = "none"
           /\ wire[r].state # "open" => wire'[r] = wire[r]
           /\ wire[r].state = "open" => wire'[r].state = "answer"
           /\ \A t \in Tokens : /\ Stored(t)' <=> Stored(t)
                                /\ Clean(t) => Clean(t)'
                                /\ CleanBut(r, t) => Clean(t)'
                                /\ \A q \in Requests : CleanBut(q, t) => CleanBut(q, t)'
                                /\ \A q \in Requests \ {r} : Pending(q, t)' <=> Pending(q, t)
           /\ \A t \in held : Fine(t)' => ~Pending(r, t) /\ (Over(t) => Over(t)')
<1>1. /\ job' = [job EXCEPT ![r] = Idle] /\ pc' = [pc EXCEPT ![r] = "idle"]
      /\ row' = row /\ consumed' = consumed /\ revoked' = revoked
      /\ held' = held /\ sealed' = sealed
      /\ jar' = jar /\ out' = out /\ early' = early
    BY DEF BrowserRollsBack, Rollback, Goto, DB
<1>2. /\ SlotsInv /\ wire \in [Requests -> Wire] /\ wire[r] \in Wire /\ held \subseteq Tokens
      /\ NoToken \notin held
    BY WireFacts
<1>3. /\ job'[r] = Idle /\ pc'[r] = "idle"
      /\ \A q \in Requests \ {r} : job'[q] = job[q] /\ pc'[q] = pc[q]
    BY <1>1, <1>2, SlotFacts
<1>4. \A q \in Requests \ {r} : wire'[q] = wire[q]
    BY <1>2 DEF BrowserRollsBack
<1>5. wire[r].state # "open" => wire'[r] = wire[r]
    BY DEF BrowserRollsBack
<1>6. ASSUME wire[r].state = "open"
      PROVE  /\ wire'[r].state = "answer" /\ wire'[r].tok = wire[r].tok
             /\ wire'[r].cookie = wire[r].cookie /\ wire'[r].sets = wire[r].sets
    BY <1>2, <1>6 DEF BrowserRollsBack, Wire
<1>7. \A q \in Requests : /\ wire'[q].tok = wire[q].tok /\ wire'[q].cookie = wire[q].cookie
                          /\ wire'[q].sets = wire[q].sets
                          /\ wire'[q].state = "none" <=> wire[q].state = "none"
    BY <1>4, <1>5, <1>6
<1>8. \A t \in Tokens : (Stored(t)' <=> Stored(t)) /\ (Dead(t)' <=> Dead(t))
    BY <1>1 DEF Stored, Dead
<1>9. Locks(r)' = {} /\ \A q \in Requests \ {r} : Locks(q)' = Locks(q)
    BY <1>3 DEF Locks, Idle
<1>10. \A t \in Tokens : /\ Clean(t) => Clean(t)'
                         /\ CleanBut(r, t) => Clean(t)'
                         /\ \A q \in Requests : CleanBut(q, t) => CleanBut(q, t)'
    BY <1>8, <1>9 DEF Clean, CleanBut
<1>11. \A q \in Requests \ {r}, t \in Tokens : Pending(q, t)' <=> Pending(q, t)
    BY <1>3 DEF Pending
<1>12. excused \subseteq excused' /\ (pc[r] = "close" => Uncommitted(r) \subseteq excused')
    BY DEF BrowserRollsBack
<1>13. ASSUME NEW t \in held, Pending(r, t) PROVE ~Fine(t)'
    <2>1. pc[r] = "close" /\ job[r].ins # NoRow /\ job[r].new = t /\ ~Stored(t)
          /\ \A q \in Requests \ {r} : ~Pending(q, t)
        <3>1. job[r].ins # NoRow /\ job[r].new = t
            BY <1>13 DEF Pending
        <3>. QED BY <1>2, <3>1, SlotFacts, PendingToken DEF Handed, Pending
    <2>2. t \in excused'
        BY <1>12, <2>1 DEF Uncommitted
    <2>3. ~Stored(t)' /\ \A q \in Requests : ~Pending(q, t)'
        BY <1>2, <1>3, <1>8, <1>11, <2>1 DEF Pending, Idle
    <2>4. SessionOf(t)' = t
        BY <1>2, <2>3, SessionsNext DEF SlotsInv, SessionsAreRows
    <2>. QED BY <2>2, <2>4 DEF Fine
<1>14. ASSUME NEW t \in held, ~Pending(r, t) PROVE SessionOf(t)' = SessionOf(t)
    <2>1. \A q \in Requests : /\ Pending(q, t)' <=> Pending(q, t)
                              /\ Pending(q, t) => job'[q].ins = job[q].ins
        BY <1>2, <1>3, <1>11, <1>14 DEF Pending, Idle
    <2>2. Stored(t) => row'[t] = row[t]
        BY <1>1
    <2>. QED BY <1>2, <1>8, <2>1, <2>2, SessionKept
<1>15. Keeps
    <2>1. \A t \in held : Fine(t)' => SessionOf(t)' = SessionOf(t)
        BY <1>13, <1>14
    <2>. QED BY <1>1, <1>12, <2>1 DEF Keeps, Fine
<1>16. ASSUME NEW t \in held, Fine(t)', Over(t) PROVE Over(t)'
    <2>1. SessionOf(t)' = SessionOf(t) /\ Fine(t)
        BY <1>15, <1>16 DEF Keeps
    <2>2. SessionOf(t) \in sealed => Over(t)'
        BY <1>1, <2>1 DEF Over
    <2>3. ASSUME NEW q \in Requests, pc[q] = "close", job[q].burn = "clean",
                 Session(q) = SessionOf(t)
          PROVE  Over(t)'
        <3>1. CASE q = r
            <4>1. Known(r)
                BY <1>2, <2>3, <3>1, SlotFacts DEF LookedUp
            <4>2. job[r].tok \in Tokens /\ Session(r) = SessionOf(job[r].tok)
                BY <1>2, <4>1, SessionOfRequest DEF SlotsInv
            <4>3. Lineage(job[r].tok) = {SessionOf(t)}
                BY <1>2, <2>3, <3>1, <4>2, SessionTyped
            <4>. QED BY <1>12, <1>16, <2>1, <2>3, <3>1, <4>3 DEF Uncommitted, Fine
        <3>2. CASE q # r
            <4>1. Session(q)' = Session(q) /\ job'[q] = job[q] /\ pc'[q] = pc[q]
                BY <1>1, <1>3, <3>2 DEF Session
            <4>. QED BY <2>1, <2>3, <4>1 DEF Over
        <3>. QED BY <3>1, <3>2
    <2>. QED BY <1>16, <2>2, <2>3 DEF Over
<1>. QED BY <1>1, <1>3, <1>4, <1>5, <1>6, <1>7, <1>8, <1>10, <1>11, <1>13, <1>15, <1>16

\* An abandoned request keeps the invariant.
LEMMA RollbackWires ==
    ASSUME BrowserInv, SlotsInv', NEW r \in Requests, BrowserRollsBack(r)
    PROVE  WiresInv'
<1>1. /\ Keeps /\ held' = held /\ jar' = jar /\ out' = out /\ early' = early
      /\ job'[r] = Idle /\ pc'[r] = "idle"
      /\ \A q \in Requests \ {r} : job'[q] = job[q] /\ pc'[q] = pc[q] /\ wire'[q] = wire[q]
      /\ \A q \in Requests : /\ wire'[q].tok = wire[q].tok /\ wire'[q].cookie = wire[q].cookie
                             /\ wire'[q].sets = wire[q].sets
                             /\ wire'[q].state = "none" <=> wire[q].state = "none"
      /\ wire[r].state # "open" => wire'[r] = wire[r]
      /\ wire[r].state = "open" => wire'[r].state = "answer"
    BY RollbackKeeps
<1>2. /\ \A t \in Tokens : /\ Stored(t)' <=> Stored(t)
                           /\ Clean(t) => Clean(t)'
                           /\ CleanBut(r, t) => Clean(t)'
                           /\ \A q \in Requests : CleanBut(q, t) => CleanBut(q, t)'
                           /\ \A q \in Requests \ {r} : Pending(q, t)' <=> Pending(q, t)
      /\ \A t \in held : Fine(t)' => ~Pending(r, t) /\ (Over(t) => Over(t)')
    BY RollbackKeeps
<1>3. held \subseteq Tokens /\ NoToken \notin held /\ SlotsInv
    BY WireFacts
<1>4. /\ \A q \in Requests, t \in held : Carries(q, t)' <=> Carries(q, t)
      /\ \A t, u \in held : Linked(t, u)' => Linked(t, u)
      /\ \A t \in held : Fine(t)' => Fine(t) /\ SessionOf(t)' = SessionOf(t)
    BY <1>1, KeepsLinks DEF Carries, Keeps
<1>5. wire'[r].state # "open" /\ ~Running(r)'
    <2>1. ~Running(r)'
        BY <1>1 DEF Running
    <2>. QED BY <1>1, <2>1
<1>6. ASSUME NEW q \in Requests PROVE OnTheWire(q)'
    <2>1. OnTheWire(q)
        BY WireFacts
    <2>2. wire[q].tok # NoToken => (Stored(wire[q].tok) => row'[wire[q].tok] # NoRow)
        <3>1. \A t \in Tokens : Stored(t) => row'[t] # NoRow
            BY <1>2 DEF Stored
        <3>. QED BY <1>3, <3>1, WireFacts
    <2>3. CASE q = r
        <3>1. pc'[r] # "close"
            BY <1>1
        <3>2. wire'[r].state = "none" => wire'[r] = Quiet
            BY <1>1, <2>1, <2>3 DEF OnTheWire
        <3>3. wire'[r].cookie # NoToken =>
                wire'[r].sets /\ (wire'[r].tok # NoToken => row'[wire'[r].tok] # NoRow)
            <4>1. wire[r].cookie # NoToken => wire[r].state = "answer"
                BY <2>1, <2>3, WireFacts DEF OnTheWire, Quiet, Wire
            <4>. QED BY <1>1, <2>1, <2>2, <2>3, <4>1 DEF OnTheWire
        <3>. QED BY <1>5, <2>3, <3>1, <3>2, <3>3 DEF OnTheWire, Stored
    <2>4. CASE q # r
        <3>1. (Running(q)' <=> Running(q)) /\ Answer(q)' = Answer(q)
            BY <1>1, <2>4 DEF Running, Answer
        <3>. QED BY <1>1, <1>4, <2>1, <2>2, <2>4, <3>1 DEF OnTheWire, Stored
    <2>. QED BY <2>3, <2>4
<1>7. ASSUME NEW q \in Requests PROVE Served(q)'
    <2>1. CASE q = r
        BY <1>5, <2>1 DEF Served
    <2>2. CASE q # r
        BY <1>1, <1>2, <1>3, <1>4, <2>2, WireFacts DEF Served
    <2>. QED BY <2>1, <2>2
<1>8. ASSUME NEW q \in Requests PROVE Answered(q)'
    <2>1. \A t \in held : Fine(t)' => /\ Fine(t) /\ SessionOf(t)' = SessionOf(t)
                                      /\ (Clean(t) => Clean(t)') /\ (Over(t) => Over(t)')
        BY <1>2, <1>3, <1>4
    <2>2. CASE wire[q].state = "answer"
        BY <1>1, <2>1, <2>2, WireFacts DEF Answered
    <2>3. CASE wire[q].state # "answer" /\ wire'[q].state = "answer"
        <3>1. q = r /\ wire[r].state = "open"
            BY <1>1, <2>3
        <3>2. wire[r].cookie = NoToken /\ ~wire[r].sets
            BY <3>1, WireFacts DEF OnTheWire
        <3>3. \A t \in held : wire[r].tok = t /\ Fine(t) => CleanBut(r, t)
            BY <3>1, WireFacts DEF Served
        <3>4. wire'[r].cookie = NoToken /\ ~wire'[r].sets /\ wire'[r].tok = wire[r].tok
            BY <1>1, <3>2
        <3>. QED BY <1>1, <1>2, <1>3, <2>1, <3>1, <3>3, <3>4 DEF Answered
    <2>. QED BY <2>2, <2>3 DEF Answered
<1>9. ASSUME NEW q \in Requests PROVE Newest(q)'
    <2>1. CASE q = r
        BY <1>1, <2>1 DEF Newest
    <2>2. CASE q # r
        BY <1>1, <1>4, <2>2, WireFacts DEF Newest
    <2>. QED BY <2>1, <2>2
<1>10. Traced'
    <2>1. \A t \in held : Stored(t) \/ ~Fine(t) \/ \E q \in Requests : Pending(q, t)
        BY DEF BrowserInv, WiresInv, Traced
    <2>2. \A t \in held : Stored(t)' \/ ~Fine(t)' \/ \E q \in Requests : Pending(q, t)'
        BY <1>2, <1>3, <1>4, <2>1
    <2>3. \A q \in Requests : {wire'[q].tok, wire'[q].cookie} \subseteq held' \cup {NoToken}
        BY <1>1, WireFacts
    <2>. QED BY <1>1, <2>2, <2>3 DEF Traced
<1>11. OnePlace'
    BY <1>1, <1>4 DEF BrowserInv, WiresInv, OnePlace
<1>12. JarClean'
    BY <1>1, <1>2, <1>3, <1>4 DEF BrowserInv, WiresInv, JarClean
<1>13. SignedOut'
    <2>1. \A t \in held : Gone(t) => Gone(t)'
        BY <1>1, <1>4 DEF Gone
    <2>2. out \subseteq held
        BY DEF BrowserInv, BrowserTypeOK
    <2>3. \A t \in held : Fine(t)' => /\ Fine(t) /\ SessionOf(t)' = SessionOf(t)
                                      /\ (Over(t) => Over(t)')
        BY <1>2, <1>4
    <2>. QED BY <1>1, <2>1, <2>2, <2>3 DEF BrowserInv, WiresInv, SignedOut
<1>. QED BY <1>6, <1>7, <1>8, <1>9, <1>10, <1>11, <1>12, <1>13 DEF WiresInv

-----------------------------------------------------------------------------
(* A request is sent: with the cookie of the jar, or a login without one.  *)

Sends(r, t) ==
    /\ Arrives(r, t) /\ Open(r, t) /\ (t = NoToken \/ t = jar)

\* An overlap with a request about the same session is an accident.
LEMMA SendKeeps ==
    ASSUME BrowserInv, SlotsInv', NEW r \in Requests, NEW t, Sends(r, t)
    PROVE  /\ Keeps /\ held' = held /\ jar' = jar /\ out' = out /\ early' = early
           /\ t \in held \cup {NoToken}
           /\ wire[r].state = "none" /\ wire'[r].state = "open"
           /\ wire'[r].tok = t /\ ~wire'[r].sets /\ wire'[r].cookie = NoToken
           /\ \A q \in Requests \ {r} : job'[q] = job[q] /\ pc'[q] = pc[q] /\ wire'[q] = wire[q]
           /\ \A u \in Tokens : /\ Stored(u)' <=> Stored(u)
                                /\ Clean(u) => Clean(u)'
                                /\ Clean(u) => CleanBut(r, u)'
                                /\ \A q \in Requests : CleanBut(q, u) => CleanBut(q, u)'
                                /\ \A q \in Requests : Pending(q, u)' <=> Pending(q, u)
                                /\ Over(u) => Over(u)'
           /\ \A q \in Requests : t \in held /\ Fine(t)' => ~Carries(q, t)
           /\ \A u \in held : u # t => \A q \in Requests : Carries(q, u)' <=> Carries(q, u)
           /\ \A u \in held : \A q \in Requests : Carries(q, u) => Carries(q, u)'
           /\ \A q \in Requests \ {r}, u \in held : Carries(q, u)' <=> Carries(q, u)
<1>1. /\ wire[r].state = "none" /\ jar' = jar /\ out' = out /\ early' = early
      /\ row' = row /\ consumed' = consumed /\ revoked' = revoked
      /\ held' = held /\ sealed' = sealed
      /\ pc[r] = "idle" /\ pc'[r] \in {"insert", "refresh", "logout"}
      /\ job'[r].ins = NoRow /\ job'[r].marks = {} /\ job'[r].kills = {}
      /\ \A q \in Requests \ {r} : pc'[q] = pc[q] /\ job'[q] = job[q]
    BY DEF Sends, Arrives, Open, DB
<1>2. /\ SlotsInv /\ wire \in [Requests -> Wire] /\ held \subseteq Tokens /\ NoToken \notin held
    BY WireFacts
<1>3. t \in held \cup {NoToken}
    BY DEF Sends, BrowserInv, BrowserTypeOK
<1>4. /\ wire'[r].state = "open" /\ wire'[r].tok = t /\ ~wire'[r].sets /\ wire'[r].cookie = NoToken
      /\ \A q \in Requests \ {r} : wire'[q] = wire[q]
    BY <1>2 DEF Sends, Open, Quiet
<1>5. job[r] = Idle
    BY <1>1, <1>2, SlotFacts DEF Outcome
<1>6. \A q \in Requests, u \in Tokens : Pending(q, u)' <=> Pending(q, u)
    BY <1>1, <1>5 DEF Pending, Idle
<1>7. \A u \in Tokens : (Stored(u)' <=> Stored(u)) /\ (Dead(u)' <=> Dead(u))
    BY <1>1 DEF Stored, Dead
<1>8. \A q \in Requests : Locks(q)' = Locks(q)
    BY <1>1, <1>5 DEF Locks, Idle
<1>9. \A u \in Tokens : /\ Clean(u) => Clean(u)'
                        /\ Clean(u) => CleanBut(r, u)'
                        /\ \A q \in Requests : CleanBut(q, u) => CleanBut(q, u)'
    BY <1>7, <1>8 DEF Clean, CleanBut
<1>10. ASSUME NEW u \in Tokens PROVE SessionOf(u)' = SessionOf(u)
    <2>1. Stored(u) => row'[u] = row[u]
        BY <1>1
    <2>2. \A q \in Requests : Pending(q, u) => job'[q].ins = job[q].ins
        BY <1>1, <1>5 DEF Pending, Idle
    <2>. QED BY <1>2, <1>6, <1>7, <2>1, <2>2, SessionKept
<1>11. excused \subseteq excused'
    BY DEF Sends, Open
<1>12. Keeps
    BY <1>1, <1>2, <1>10, <1>11 DEF Keeps, Fine
<1>13. ASSUME NEW u \in Tokens, Over(u) PROVE Over(u)'
    <2>1. SessionOf(u)' = SessionOf(u) /\ \A q \in Requests : pc[q] = "close" => q # r
        BY <1>1, <1>10
    <2>2. \A q \in Requests \ {r} : Session(q)' = Session(q)
        BY <1>1 DEF Session
    <2>. QED BY <1>1, <1>13, <2>1, <2>2 DEF Over
<1>14. ASSUME NEW q \in Requests, t \in held, Carries(q, t), Fine(t)' PROVE FALSE
    <2>1. jar = t /\ Fine(t) /\ Linked(t, t)
        BY <1>2, <1>12, <1>14, LinkedLaws DEF Sends, Keeps
    <2>2. t = wire[q].tok
        BY <1>14, <2>1, JarAndCarrier
    <2>3. Lineage(t) = {SessionOf(t)}
        BY <1>2, <1>14, SessionTyped
    <2>4. wire[q].state # "none" /\ SessionOf(t) \in Lineage(t) /\ SessionOf(t) \in Lineage(wire[q].tok)
        BY <1>14, <2>2, <2>3 DEF Carries
    <2>5. SessionOf(t) \in excused'
        BY <2>4 DEF Sends, Open
    <2>. QED BY <1>2, <1>10, <1>14, <2>5 DEF Fine
<1>15. \A q \in Requests \ {r}, u \in held : Carries(q, u)' <=> Carries(q, u)
    BY <1>4 DEF Carries
<1>16. \A u \in held : ~Carries(r, u) /\ (Carries(r, u)' => u = t)
    BY <1>1, <1>2, <1>4 DEF Carries
<1>17. /\ \A u \in held : u # t => \A q \in Requests : Carries(q, u)' <=> Carries(q, u)
       /\ \A u \in held : \A q \in Requests : Carries(q, u) => Carries(q, u)'
    BY <1>15, <1>16
<1>. QED BY <1>1, <1>3, <1>4, <1>6, <1>7, <1>9, <1>12, <1>13, <1>14, <1>15, <1>17

\* A request that is sent finds its token good.
LEMMA SendWires ==
    ASSUME BrowserInv, SlotsInv', NEW r \in Requests, NEW t, Sends(r, t)
    PROVE  WiresInv'
<1>1. /\ Keeps /\ held' = held /\ jar' = jar /\ out' = out /\ early' = early
      /\ t \in held \cup {NoToken}
      /\ wire[r].state = "none" /\ wire'[r].state = "open"
      /\ wire'[r].tok = t /\ ~wire'[r].sets /\ wire'[r].cookie = NoToken
      /\ \A q \in Requests \ {r} : job'[q] = job[q] /\ pc'[q] = pc[q] /\ wire'[q] = wire[q]
    BY SendKeeps
<1>2. \A u \in Tokens : /\ Stored(u)' <=> Stored(u)
                        /\ Clean(u) => Clean(u)'
                        /\ Clean(u) => CleanBut(r, u)'
                        /\ \A q \in Requests : CleanBut(q, u) => CleanBut(q, u)'
                        /\ \A q \in Requests : Pending(q, u)' <=> Pending(q, u)
                        /\ Over(u) => Over(u)'
    BY SendKeeps
<1>3. /\ \A q \in Requests : t \in held /\ Fine(t)' => ~Carries(q, t)
      /\ \A u \in held : u # t => \A q \in Requests : Carries(q, u)' <=> Carries(q, u)
      /\ \A u \in held : \A q \in Requests : Carries(q, u) => Carries(q, u)'
      /\ \A q \in Requests \ {r}, u \in held : Carries(q, u)' <=> Carries(q, u)
    BY SendKeeps
<1>4. /\ pc[r] = "idle" /\ pc'[r] \in {"insert", "refresh", "logout"} /\ job'[r].tok = t
      /\ job'[r].ins = NoRow /\ job'[r].status = "ok" /\ job'[r].burn = "none"
      /\ t = NoToken \/ t = jar
    BY DEF Sends, Arrives
<1>5. held \subseteq Tokens /\ NoToken \notin held /\ SlotsInv
    BY WireFacts
<1>6. /\ \A u, v \in held : Linked(u, v)' => Linked(u, v) /\ Fine(u)' /\ Fine(v)'
      /\ \A u \in held : Fine(u)' => Fine(u) /\ SessionOf(u)' = SessionOf(u)
    BY <1>1, KeepsLinks DEF Keeps
<1>7. \A u \in held, q \in Requests : Carries(q, u)' => Carries(q, u) \/ (q = r /\ u = t /\ jar = t)
    <2>1. \A u \in held : Carries(r, u)' => u = t
        BY <1>1, <1>5 DEF Carries
    <2>. QED BY <1>3, <1>4, <1>5, <2>1
<1>8. ASSUME NEW q \in Requests PROVE OnTheWire(q)'
    <2>1. OnTheWire(q)
        BY WireFacts
    <2>2. wire[q].tok # NoToken => (Stored(wire[q].tok) => row'[wire[q].tok] # NoRow)
        <3>1. \A u \in Tokens : Stored(u) => row'[u] # NoRow
            BY <1>2 DEF Stored
        <3>. QED BY <1>5, <3>1, WireFacts
    <2>3. CASE q = r
        BY <1>1, <1>4, <2>3 DEF OnTheWire, Running
    <2>4. CASE q # r
        <3>1. (Running(q)' <=> Running(q)) /\ Answer(q)' = Answer(q)
            BY <1>1, <2>4 DEF Running, Answer
        <3>. QED BY <1>1, <1>6, <2>1, <2>2, <2>4, <3>1 DEF OnTheWire, Stored
    <2>. QED BY <2>3, <2>4
<1>9. ASSUME NEW q \in Requests PROVE Served(q)'
    <2>1. CASE q = r
        <3>1. ASSUME t \in held, Fine(t)' PROVE CleanBut(r, t)'
            <4>1. \A p \in Requests : ~Carries(p, t)
                BY <1>3, <3>1
            <4>2. jar = t /\ Fine(t)
                BY <1>4, <1>5, <1>6, <3>1
            <4>3. Clean(t)
                BY <3>1, <4>1, <4>2 DEF BrowserInv, WiresInv, JarClean
            <4>. QED BY <1>2, <1>5, <3>1, <4>3
        <3>. QED BY <1>1, <1>4, <2>1, <3>1 DEF Served
    <2>2. CASE q # r
        BY <1>1, <1>2, <1>5, <1>6, <2>2, WireFacts DEF Served
    <2>. QED BY <2>1, <2>2
<1>10. ASSUME NEW q \in Requests PROVE Answered(q)'
    <2>1. \A u \in held : Fine(u)' => /\ Fine(u) /\ SessionOf(u)' = SessionOf(u)
                                      /\ (Clean(u) => Clean(u)') /\ (Over(u) => Over(u)')
        BY <1>2, <1>5, <1>6
    <2>2. CASE q = r
        BY <1>1, <2>2 DEF Answered
    <2>3. CASE q # r
        BY <1>1, <2>1, <2>3, WireFacts DEF Answered
    <2>. QED BY <2>2, <2>3
<1>11. ASSUME NEW q \in Requests PROVE Newest(q)'
    <2>1. CASE q = r
        BY <1>1, <2>1 DEF Newest
    <2>2. CASE q # r
        <3>. SUFFICES ASSUME wire'[q].state = "none", pc'[q] = "close", job'[q].ins # NoRow,
                             NEW n \in held', NEW u \in held', job'[q].new = n, Linked(n, u)'
                      PROVE  /\ jar' = u => u = n
                             /\ \A p \in Requests : Carries(p, u)' => wire'[p].tok = n
            BY DEF Newest
        <3>1. Linked(n, u) /\ n \in held /\ u \in held
            BY <1>1, <1>6
        <3>2. (jar = u => u = n) /\ \A p \in Requests : Carries(p, u) => wire[p].tok = n
            BY <1>1, <2>2, <3>1, WireFacts DEF Newest
        <3>3. \A p \in Requests : Carries(p, u) => p # r
            BY <1>1 DEF Carries
        <3>. QED BY <1>1, <1>7, <3>1, <3>2, <3>3
    <2>. QED BY <2>1, <2>2
<1>12. Traced'
    <2>1. \A u \in held : Stored(u) \/ ~Fine(u) \/ \E q \in Requests : Pending(q, u)
        BY DEF BrowserInv, WiresInv, Traced
    <2>2. \A u \in held : Stored(u)' \/ ~Fine(u)' \/ \E q \in Requests : Pending(q, u)'
        BY <1>2, <1>5, <1>6, <2>1
    <2>3. \A q \in Requests : {wire'[q].tok, wire'[q].cookie} \subseteq held' \cup {NoToken}
        BY <1>1, WireFacts
    <2>. QED BY <1>1, <2>2, <2>3 DEF Traced
<1>13. OnePlace'
    <2>1. ASSUME NEW u \in held, NEW v \in held, Linked(u, v)', u = t, jar = t,
                 NEW q \in Requests, Carries(q, v)
          PROVE  FALSE
        <3>1. Linked(u, v) /\ Linked(v, u) /\ Fine(u)' /\ SessionOf(u)' = SessionOf(u)
            BY <1>6, <2>1, LinkedLaws
        <3>2. t = wire[q].tok
            BY <2>1, <3>1, JarAndCarrier
        <3>3. Carries(q, t)
            BY <2>1, <3>2 DEF Carries
        <3>. QED BY <1>3, <2>1, <3>1, <3>3
    <2>2. ASSUME NEW p \in Requests, NEW q \in Requests, NEW u \in held, NEW v \in held,
                 p # q, Carries(p, u)', Carries(q, v)', Linked(u, v)'
          PROVE  FALSE
        <3>1. Linked(u, v) /\ Linked(v, u)'
            BY <1>6, <2>2, LinkedLaws DEF Linked, Fine
        <3>2. CASE Carries(p, u) /\ Carries(q, v)
            BY <2>2, <3>1, <3>2, OneCarrier
        <3>3. CASE ~Carries(p, u)
            <4>1. p = r /\ u = t /\ jar = t
                BY <1>7, <2>2, <3>3
            <4>2. Carries(q, v)
                BY <1>7, <2>2, <4>1
            <4>. QED BY <2>1, <2>2, <4>1, <4>2
        <3>4. CASE ~Carries(q, v)
            <4>1. q = r /\ v = t /\ jar = t
                BY <1>7, <2>2, <3>4
            <4>2. Carries(p, u)
                BY <1>7, <2>2, <4>1
            <4>. QED BY <2>1, <3>1, <4>1, <4>2
        <3>. QED BY <3>2, <3>3, <3>4
    <2>3. ASSUME NEW q \in Requests, NEW u \in held, NEW v \in held,
                 jar' = u, Carries(q, v)', Linked(u, v)'
          PROVE  u = wire'[q].tok
        <3>1. CASE Carries(q, v)
            <4>1. u = wire[q].tok /\ q # r
                BY <1>1, <1>6, <2>3, <3>1, JarAndCarrier DEF Carries
            <4>. QED BY <1>1, <4>1
        <3>2. CASE ~Carries(q, v)
            <4>1. q = r /\ u = t
                BY <1>1, <1>7, <2>3, <3>2
            <4>. QED BY <1>1, <4>1
        <3>. QED BY <3>1, <3>2
    <2>. QED BY <1>1, <2>2, <2>3 DEF OnePlace
<1>14. JarClean'
    BY <1>1, <1>2, <1>3, <1>5, <1>6 DEF BrowserInv, WiresInv, JarClean
<1>15. SignedOut'
    <2>1. \A u \in held : Gone(u) => Gone(u)'
        <3>. SUFFICES ASSUME NEW u \in held, Gone(u), NEW v \in held, Linked(u, v)'
                      PROVE  jar # v /\ \A q \in Requests : ~Carries(q, v)'
            BY <1>1 DEF Gone
        <3>1. Linked(u, v)
            BY <1>6
        <3>. QED BY <1>7, <3>1 DEF Gone
    <2>2. out \subseteq held
        BY DEF BrowserInv, BrowserTypeOK
    <2>3. \A u \in held : Fine(u)' => /\ Fine(u) /\ SessionOf(u)' = SessionOf(u)
                                      /\ (Over(u) => Over(u)')
        BY <1>2, <1>5, <1>6
    <2>. QED BY <1>1, <2>1, <2>2, <2>3 DEF BrowserInv, WiresInv, SignedOut
<1>. QED BY <1>8, <1>9, <1>10, <1>11, <1>12, <1>13, <1>14, <1>15 DEF WiresInv

-----------------------------------------------------------------------------
(* The wire of a request ends: its answer is delivered or lost.            *)

Still == UNCHANGED <<row, consumed, revoked, held, pc, job, sealed>>

\* The service is not concerned.
LEMMA StillKeeps ==
    ASSUME SlotsInv, Still, excused \subseteq excused'
    PROVE  /\ Keeps /\ held' = held /\ job' = job /\ pc' = pc
           /\ \A u \in Tokens : /\ SessionOf(u)' = SessionOf(u)
                                /\ Stored(u)' <=> Stored(u)
                                /\ Clean(u) => Clean(u)'
                                /\ \A q \in Requests : CleanBut(q, u) => CleanBut(q, u)'
                                /\ \A q \in Requests : Pending(q, u)' <=> Pending(q, u)
                                /\ Over(u) => Over(u)'
           /\ \A q \in Requests : Running(q)' <=> Running(q)
<1>1. /\ held' = held /\ job' = job /\ pc' = pc /\ row' = row /\ sealed' = sealed
      /\ consumed' = consumed /\ revoked' = revoked
    BY DEF Still
<1>2. held \subseteq Tokens
    BY DEF SlotsInv, IInv, TypeOK
<1>3. ASSUME NEW u \in Tokens
      PROVE  /\ SessionOf(u)' = SessionOf(u)
             /\ Stored(u)' <=> Stored(u)
             /\ Clean(u) => Clean(u)'
             /\ \A q \in Requests : CleanBut(q, u) => CleanBut(q, u)'
             /\ \A q \in Requests : Pending(q, u)' <=> Pending(q, u)
             /\ Over(u) => Over(u)'
    <2>1. SessionOf(u)' = SessionOf(u)
        BY <1>1 DEF SessionOf, Stored
    <2>2. (Stored(u)' <=> Stored(u)) /\ (Dead(u)' <=> Dead(u))
        BY <1>1 DEF Stored, Dead
    <2>3. \A q \in Requests : /\ Pending(q, u)' <=> Pending(q, u)
                              /\ Locks(q)' = Locks(q) /\ Session(q)' = Session(q)
        BY <1>1 DEF Pending, Locks, Session
    <2>4. Clean(u) => Clean(u)'
        BY <2>2, <2>3 DEF Clean
    <2>5. \A q \in Requests : CleanBut(q, u) => CleanBut(q, u)'
        BY <2>2, <2>3 DEF CleanBut
    <2>6. Over(u) => Over(u)'
        BY <1>1, <2>1, <2>3 DEF Over
    <2>. QED BY <2>1, <2>2, <2>3, <2>4, <2>5, <2>6
<1>4. Keeps
    BY <1>1, <1>2, <1>3 DEF Keeps, Fine
<1>5. \A q \in Requests : Running(q)' <=> Running(q)
    BY <1>1 DEF Running
<1>. QED BY <1>1, <1>3, <1>4, <1>5

Ends(r) ==
    /\ Still /\ excused \subseteq excused' /\ early' = early
    /\ wire[r].state # "none" /\ wire' = [wire EXCEPT ![r] = Quiet]

\* What the invariant says of the other requests stays.
LEMMA EndKeeps ==
    ASSUME BrowserInv, SlotsInv', NEW r \in Requests, Ends(r)
    PROVE  /\ Keeps /\ held' = held /\ job' = job /\ pc' = pc /\ wire'[r] = Quiet /\ early' = early
           /\ \A q \in Requests \ {r} : wire'[q] = wire[q]
           /\ \A q \in Requests, u \in held : Carries(q, u)' <=> q # r /\ Carries(q, u)
           /\ \A u, v \in held : Linked(u, v)' => Linked(u, v)
           /\ \A u \in held : Fine(u)' => /\ Fine(u) /\ SessionOf(u)' = SessionOf(u)
                                          /\ (Clean(u) => Clean(u)') /\ (Over(u) => Over(u)')
           /\ \A q \in Requests : Served(q)' /\ Answered(q)'
           /\ \A q \in Requests \ {r} : OnTheWire(q)'
           /\ Traced'
           /\ \A q, p \in Requests : \A u, v \in held :
                q # p /\ Carries(q, u)' /\ Carries(p, v)' => ~Linked(u, v)'
<1>1. /\ SlotsInv /\ wire \in [Requests -> Wire] /\ held \subseteq Tokens /\ NoToken \notin held
    BY WireFacts
<1>2. /\ Keeps /\ held' = held /\ job' = job /\ pc' = pc
      /\ \A u \in Tokens : /\ SessionOf(u)' = SessionOf(u)
                           /\ Stored(u)' <=> Stored(u)
                           /\ Clean(u) => Clean(u)'
                           /\ \A q \in Requests : CleanBut(q, u) => CleanBut(q, u)'
                           /\ \A q \in Requests : Pending(q, u)' <=> Pending(q, u)
                           /\ Over(u) => Over(u)'
      /\ \A q \in Requests : Running(q)' <=> Running(q)
    BY <1>1, StillKeeps DEF Ends
<1>3. wire'[r] = Quiet /\ (\A q \in Requests \ {r} : wire'[q] = wire[q]) /\ early' = early
    BY <1>1 DEF Ends
<1>4. wire'[r].state = "none" /\ wire'[r].tok = NoToken /\ wire'[r].cookie = NoToken
    BY <1>3 DEF Quiet
<1>5. \A q \in Requests, u \in held : Carries(q, u)' <=> q # r /\ Carries(q, u)
    BY <1>3, <1>4 DEF Carries
<1>6. \A u, v \in held : Linked(u, v)' => Linked(u, v)
    BY <1>2, KeepsLinks
<1>7. \A u \in held : Fine(u)' => /\ Fine(u) /\ SessionOf(u)' = SessionOf(u)
                                  /\ (Clean(u) => Clean(u)') /\ (Over(u) => Over(u)')
    BY <1>1, <1>2 DEF Keeps
<1>8. ASSUME NEW q \in Requests PROVE Served(q)'
    <2>1. CASE q = r
        BY <1>4, <2>1 DEF Served
    <2>2. CASE q # r
        BY <1>1, <1>2, <1>3, <1>7, <2>2, WireFacts DEF Served
    <2>. QED BY <2>1, <2>2
<1>9. ASSUME NEW q \in Requests PROVE Answered(q)'
    <2>1. CASE q = r
        BY <1>4, <2>1 DEF Answered
    <2>2. CASE q # r
        BY <1>2, <1>3, <1>7, <2>2, WireFacts DEF Answered
    <2>. QED BY <2>1, <2>2
<1>10. ASSUME NEW q \in Requests \ {r} PROVE OnTheWire(q)'
    <2>1. OnTheWire(q) /\ Answer(q)' = Answer(q)
        BY <1>2, <1>3, WireFacts DEF Answer
    <2>2. wire[q].tok # NoToken => (Stored(wire[q].tok) => row'[wire[q].tok] # NoRow)
        <3>1. \A u \in Tokens : Stored(u) => row'[u] # NoRow
            BY <1>2 DEF Stored
        <3>. QED BY <1>1, <3>1, WireFacts
    <2>. QED BY <1>2, <1>3, <1>7, <2>1, <2>2 DEF OnTheWire, Stored
<1>11. Traced'
    <2>1. \A u \in held : Stored(u) \/ ~Fine(u) \/ \E q \in Requests : Pending(q, u)
        BY DEF BrowserInv, WiresInv, Traced
    <2>2. \A u \in held : Stored(u)' \/ ~Fine(u)' \/ \E q \in Requests : Pending(q, u)'
        BY <1>1, <1>2, <1>7, <2>1
    <2>3. \A q \in Requests : {wire'[q].tok, wire'[q].cookie} \subseteq held' \cup {NoToken}
        BY <1>2, <1>3, <1>4, WireFacts
    <2>. QED BY <1>2, <2>2, <2>3 DEF Traced
<1>12. \A q, p \in Requests : \A u, v \in held :
           q # p /\ Carries(q, u)' /\ Carries(p, v)' => ~Linked(u, v)'
    BY <1>5, <1>6, OneCarrier
<1>. QED BY <1>2, <1>3, <1>5, <1>6, <1>7, <1>8, <1>9, <1>10, <1>11, <1>12

\* What an answer that was waiting says about the slot, if that still has the
\* new token to commit: the answer carries it.
LEMMA AnswerCarriesNew ==
    ASSUME BrowserInv, NEW r \in Requests, wire[r].state = "answer",
           pc[r] = "close", job[r].ins # NoRow
    PROVE  /\ wire[r].cookie = job[r].new /\ wire[r].sets
           /\ job[r].new \in held /\ Carries(r, job[r].new)
<1>1. wire[r] = Answer(r) /\ wire[r] \in Wire /\ SlotsInv
    BY WireFacts DEF OnTheWire
<1>2. job[r].status = "ok" /\ job[r].new \in held
    BY <1>1, SlotFacts DEF Outcome, Handed
<1>3. wire[r].cookie = job[r].new /\ wire[r].sets
    BY <1>1, <1>2 DEF Answer, Wire
<1>. QED BY <1>2, <1>3 DEF Carries

\* The cookie that is stored is good, and nothing else of its session is left.
LEMMA DeliverWires ==
    ASSUME BrowserInv, SlotsInv', NEW r \in Requests, Deliver(r)
    PROVE  WiresInv'
<1>1. Ends(r)
    BY DEF Deliver, Ends, Still, vars
<1>2. /\ held' = held /\ job' = job /\ pc' = pc /\ wire'[r] = Quiet /\ early' = early
      /\ \A q \in Requests \ {r} : wire'[q] = wire[q]
      /\ \A q \in Requests, u \in held : Carries(q, u)' <=> q # r /\ Carries(q, u)
      /\ \A u, v \in held : Linked(u, v)' => Linked(u, v)
      /\ \A u \in held : Fine(u)' => /\ Fine(u) /\ SessionOf(u)' = SessionOf(u)
                                     /\ (Clean(u) => Clean(u)') /\ (Over(u) => Over(u)')
      /\ \A q \in Requests : Served(q)' /\ Answered(q)'
      /\ \A q \in Requests \ {r} : OnTheWire(q)'
      /\ Traced'
      /\ \A q, p \in Requests : \A u, v \in held :
           q # p /\ Carries(q, u)' /\ Carries(p, v)' => ~Linked(u, v)'
    BY <1>1, EndKeeps
<1>3. /\ wire[r].state = "answer"
      /\ jar' = IF wire[r].sets THEN wire[r].cookie ELSE jar
      /\ out' = IF wire[r].sets /\ wire[r].cookie = NoToken /\ wire[r].tok # NoToken
                THEN out \cup {wire[r].tok} ELSE out
    BY DEF Deliver
<1>4. /\ held \subseteq Tokens /\ NoToken \notin held /\ SlotsInv
      /\ wire[r].tok \in held \cup {NoToken} /\ wire[r].cookie \in held \cup {NoToken}
      /\ OnTheWire(r) /\ Answered(r) /\ out \subseteq held
    BY WireFacts DEF BrowserInv, BrowserTypeOK
<1>5. \A u \in held : wire[r].cookie = u \/ wire[r].tok = u => Carries(r, u)
    BY <1>3 DEF Carries
<1>6. OnTheWire(r)'
    <2>1. ~Running(r)'
        BY <1>2, <1>3, <1>4 DEF OnTheWire, Running
    <2>2. wire'[r].state = "none"
        BY <1>2 DEF Quiet
    <2>. QED BY <1>2, <2>1, <2>2 DEF OnTheWire
<1>7. \A u \in held : jar' = u => \/ wire[r].sets /\ wire[r].cookie = u /\ Carries(r, u)
                                  \/ ~wire[r].sets /\ jar = u
    BY <1>3, <1>5
<1>8. ASSUME NEW q \in Requests PROVE Newest(q)'
    <2>. SUFFICES ASSUME wire'[q].state = "none", pc'[q] = "close", job'[q].ins # NoRow,
                         NEW n \in held', NEW u \in held', job'[q].new = n, Linked(n, u)'
                  PROVE  /\ jar' = u => u = n
                         /\ \A p \in Requests : Carries(p, u)' => wire'[p].tok = n
        BY DEF Newest
    <2>1. /\ n \in held /\ u \in held /\ Linked(n, u) /\ Linked(u, n)
          /\ pc[q] = "close" /\ job[q].ins # NoRow /\ job[q].new = n
        BY <1>2, LinkedLaws
    <2>2. CASE q = r
        <3>1. wire[r].cookie = n /\ wire[r].sets /\ Carries(r, n)
            BY <1>3, <2>1, <2>2, AnswerCarriesNew
        <3>2. jar' = n
            BY <1>3, <3>1
        <3>3. \A p \in Requests \ {r} : ~Carries(p, u)
            BY <2>1, <3>1, OneCarrier
        <3>. QED BY <1>2, <2>1, <3>2, <3>3
    <2>3. CASE q # r
        <3>1. (jar = u => u = n) /\ \A p \in Requests : Carries(p, u) => wire[p].tok = n
            BY <1>2, <2>1, <2>3, WireFacts DEF Newest
        <3>2. ASSUME wire[r].sets, wire[r].cookie = u, Carries(r, u) PROVE FALSE
            <4>1. wire[r].tok = n /\ wire[r].cookie # NoToken /\ n # NoToken
                BY <1>4, <2>1, <3>1, <3>2
            <4>2. Stored(n)
                BY <1>3, <1>4, <4>1 DEF OnTheWire
            <4>. QED BY <1>4, <2>1, <4>2, PendingToken
        <3>3. jar' = u => u = n
            BY <1>7, <2>1, <3>1, <3>2
        <3>. QED BY <1>2, <2>1, <3>1, <3>3
    <2>. QED BY <2>2, <2>3
<1>9. OnePlace'
    <2>1. ASSUME NEW q \in Requests, NEW u \in held, NEW v \in held,
                 jar' = u, Carries(q, v)', Linked(u, v)'
          PROVE  u = wire'[q].tok
        <3>1. q # r /\ Carries(q, v) /\ Linked(u, v) /\ wire'[q] = wire[q]
            BY <1>2, <2>1
        <3>2. ~(wire[r].sets /\ wire[r].cookie = u)
            BY <1>5, <2>1, <3>1, OneCarrier
        <3>3. jar = u
            BY <1>7, <2>1, <3>2
        <3>. QED BY <3>1, <3>3, JarAndCarrier
    <2>. QED BY <1>2, <2>1 DEF OnePlace
<1>10. JarClean'
    <2>. SUFFICES ASSUME NEW u \in held, jar' = u, Fine(u)', \A q \in Requests : ~Carries(q, u)'
                  PROVE  Clean(u)'
        BY <1>2 DEF JarClean
    <2>1. Fine(u) /\ (Clean(u) => Clean(u)') /\ Linked(u, u)
        BY <1>2, LinkedLaws
    <2>2. CASE wire[r].sets
        BY <1>3, <1>4, <1>7, <2>1, <2>2 DEF Answered
    <2>3. CASE ~wire[r].sets
        <3>1. jar = u
            BY <1>7, <2>3
        <3>2. CASE Carries(r, u)
            <4>1. u = wire[r].tok
                BY <2>1, <3>1, <3>2, JarAndCarrier
            <4>. QED BY <1>3, <1>4, <2>1, <2>3, <4>1 DEF Answered
        <3>3. CASE ~Carries(r, u)
            <4>1. \A q \in Requests : ~Carries(q, u)
                BY <1>2, <3>3
            <4>. QED BY <2>1, <3>1, <4>1 DEF BrowserInv, WiresInv, JarClean
        <3>. QED BY <3>2, <3>3
    <2>. QED BY <2>2, <2>3
<1>11. SignedOut'
    <2>. SUFFICES ASSUME NEW t \in out', Fine(t)'
                  PROVE  SessionOf(t)' \in early' \/ (Over(t)' /\ Gone(t)')
        BY DEF SignedOut
    <2>1. t \in held
        BY <1>3, <1>4
    <2>2. Fine(t) /\ SessionOf(t)' = SessionOf(t) /\ (Over(t) => Over(t)')
        BY <1>2, <2>1
    <2>3. CASE t \in out
        <3>1. SessionOf(t) \in early \/ (Over(t) /\ Gone(t))
            BY <2>2, <2>3 DEF BrowserInv, WiresInv, SignedOut
        <3>2. ASSUME Gone(t), NEW u \in held, Linked(t, u)'
              PROVE  jar' # u /\ \A q \in Requests : ~Carries(q, u)'
            <4>1. jar # u /\ \A q \in Requests : ~Carries(q, u)
                BY <1>2, <2>1, <3>2 DEF Gone
            <4>. QED BY <1>2, <1>7, <4>1
        <3>3. Gone(t) => Gone(t)'
            BY <1>2, <3>2 DEF Gone
        <3>. QED BY <1>2, <2>2, <3>1, <3>3
    <2>4. CASE t \notin out
        <3>1. wire[r].sets /\ wire[r].cookie = NoToken /\ wire[r].tok = t
            BY <1>3, <2>4
        <3>2. SessionOf(t) \in early \/ Over(t)
            BY <1>3, <1>4, <2>1, <2>2, <3>1 DEF Answered
        <3>3. ASSUME NEW u \in held, Linked(t, u)'
              PROVE  jar' # u /\ \A q \in Requests : ~Carries(q, u)'
            <4>1. jar' # u
                BY <1>3, <1>4, <3>1
            <4>2. \A q \in Requests \ {r} : ~Carries(q, u)
                BY <1>2, <1>5, <2>1, <3>1, <3>3, OneCarrier
            <4>. QED BY <1>2, <4>1, <4>2
        <3>4. Gone(t)'
            BY <1>2, <3>3 DEF Gone
        <3>. QED BY <1>2, <2>2, <3>2, <3>4
    <2>. QED BY <2>3, <2>4
<1>. QED BY <1>2, <1>6, <1>8, <1>9, <1>10, <1>11 DEF WiresInv

\* What is lost with an answer is excused.
LEMMA LoseWires ==
    ASSUME BrowserInv, SlotsInv', NEW r \in Requests, Lose(r)
    PROVE  WiresInv'
<1>1. Ends(r) /\ jar' = jar /\ out' = out /\ excused' = excused \cup Lineage(wire[r].tok)
    BY DEF Lose, Ends, Still, vars
<1>2. /\ held' = held /\ job' = job /\ pc' = pc /\ wire'[r] = Quiet /\ early' = early
      /\ \A q \in Requests \ {r} : wire'[q] = wire[q]
      /\ \A q \in Requests, u \in held : Carries(q, u)' <=> q # r /\ Carries(q, u)
      /\ \A u, v \in held : Linked(u, v)' => Linked(u, v)
      /\ \A u \in held : Fine(u)' => /\ Fine(u) /\ SessionOf(u)' = SessionOf(u)
                                     /\ (Clean(u) => Clean(u)') /\ (Over(u) => Over(u)')
      /\ \A q \in Requests : Served(q)' /\ Answered(q)'
      /\ \A q \in Requests \ {r} : OnTheWire(q)'
      /\ Traced'
      /\ \A q, p \in Requests : \A u, v \in held :
           q # p /\ Carries(q, u)' /\ Carries(p, v)' => ~Linked(u, v)'
    BY <1>1, EndKeeps
<1>3. /\ held \subseteq Tokens /\ NoToken \notin held /\ SlotsInv
      /\ OnTheWire(r) /\ wire[r].state \in {"open", "answer"} /\ out \subseteq held
    BY WireFacts DEF Lose, BrowserInv, BrowserTypeOK, Wire
<1>4. \A u \in held : wire[r].tok = u => ~Fine(u)'
    <2>. SUFFICES ASSUME NEW u \in held, wire[r].tok = u, Fine(u)' PROVE FALSE
        OBVIOUS
    <2>1. SessionOf(u)' = SessionOf(u) /\ Lineage(u) = {SessionOf(u)}
        BY <1>2, <1>3, SessionTyped
    <2>. QED BY <1>1, <2>1 DEF Fine
<1>5. OnTheWire(r)'
    <2>1. wire'[r].state = "none"
        BY <1>2 DEF Quiet
    <2>2. ASSUME Running(r)', NEW u \in held, job'[r].tok = u PROVE ~Fine(u)'
        <3>1. Running(r)
            BY <1>2, <2>2 DEF Running
        <3>2. wire[r].tok = job[r].tok
            BY <1>3, <3>1 DEF OnTheWire
        <3>. QED BY <1>2, <1>4, <2>2, <3>2
    <2>. QED BY <1>2, <2>1, <2>2 DEF OnTheWire
<1>6. ASSUME NEW q \in Requests PROVE Newest(q)'
    <2>. SUFFICES ASSUME wire'[q].state = "none", pc'[q] = "close", job'[q].ins # NoRow,
                         NEW n \in held', NEW u \in held', job'[q].new = n, Linked(n, u)'
                  PROVE  /\ jar' = u => u = n
                         /\ \A p \in Requests : Carries(p, u)' => wire'[p].tok = n
        BY DEF Newest
    <2>1. /\ n \in held /\ u \in held /\ Linked(n, u) /\ Linked(u, n) /\ Fine(u)'
          /\ pc[q] = "close" /\ job[q].ins # NoRow /\ job[q].new = n
        BY <1>2, LinkedLaws DEF Linked, Fine
    <2>2. CASE q = r
        <3>1. wire[r].state = "answer"
            BY <1>3, <2>1, <2>2 DEF OnTheWire, Running
        <3>2. Carries(r, n)
            BY <2>1, <2>2, <3>1, AnswerCarriesNew
        <3>3. \A p \in Requests \ {r} : ~Carries(p, u)
            BY <2>1, <3>2, OneCarrier
        <3>4. jar # u
            BY <1>4, <2>1, <3>2, JarAndCarrier
        <3>. QED BY <1>1, <1>2, <2>1, <3>3, <3>4
    <2>3. CASE q # r
        BY <1>1, <1>2, <2>1, <2>3, WireFacts DEF Newest
    <2>. QED BY <2>2, <2>3
<1>7. OnePlace'
    <2>1. ASSUME NEW q \in Requests, NEW u \in held, NEW v \in held,
                 jar' = u, Carries(q, v)', Linked(u, v)'
          PROVE  u = wire'[q].tok
        BY <1>1, <1>2, <2>1, JarAndCarrier
    <2>. QED BY <1>2, <2>1 DEF OnePlace
<1>8. JarClean'
    <2>. SUFFICES ASSUME NEW u \in held, jar' = u, Fine(u)', \A q \in Requests : ~Carries(q, u)'
                  PROVE  Clean(u)'
        BY <1>2 DEF JarClean
    <2>1. jar = u /\ Fine(u) /\ (Clean(u) => Clean(u)') /\ Linked(u, u)
        BY <1>1, <1>2, LinkedLaws
    <2>2. ~Carries(r, u)
        BY <1>4, <2>1, JarAndCarrier
    <2>3. \A q \in Requests : ~Carries(q, u)
        BY <1>2, <2>2
    <2>. QED BY <2>1, <2>3 DEF BrowserInv, WiresInv, JarClean
<1>9. SignedOut'
    <2>. SUFFICES ASSUME NEW t \in out, Fine(t)'
                  PROVE  SessionOf(t)' \in early' \/ (Over(t)' /\ Gone(t)')
        BY <1>1 DEF SignedOut
    <2>1. t \in held /\ Fine(t) /\ SessionOf(t)' = SessionOf(t) /\ (Over(t) => Over(t)')
        BY <1>2, <1>3
    <2>2. SessionOf(t) \in early \/ (Over(t) /\ Gone(t))
        BY <2>1 DEF BrowserInv, WiresInv, SignedOut
    <2>3. Gone(t) => Gone(t)'
        BY <1>1, <1>2, <2>1 DEF Gone
    <2>. QED BY <1>2, <2>1, <2>2, <2>3
<1>. QED BY <1>2, <1>5, <1>6, <1>7, <1>8, <1>9 DEF WiresInv

-----------------------------------------------------------------------------
(* Every step keeps the invariant.                                         *)

\* A step of the service is one of these four, on the wire too.
LEMMA ServeCases ==
    ASSUME BrowserInv, SlotsInv', NEW r \in Requests, Serve(r)
    PROVE  BrowserWorks(r) \/ BrowserReplies(r) \/ BrowserCloses(r) \/ BrowserRollsBack(r)
<1>1. /\ wire' = IF wire[r].state = "open"
                 THEN CASE pc'[r] = "close" -> [wire EXCEPT ![r] = Answer(r)]
                        [] pc'[r] = "idle"  -> [wire EXCEPT ![r].state = "answer"]
                        [] OTHER            -> wire
                 ELSE wire
      /\ early' = early \cup {s \in Lineage(job[r].tok) : LookupLogout(r) /\ ~Known(r)}
      /\ UNCHANGED <<jar, out>>
    BY DEF Serve
<1>2. SlotsInv /\ IInv' /\ pc \in [Requests -> PCs]
    BY WireFacts, SlotFacts DEF SlotsInv
<1>3. pc[r] # "logout" \/ pc'[r] = "idle" => early' = early
    <2>1. LookupLogout(r) => pc[r] = "logout" /\ pc'[r] # "idle"
        BY <1>2 DEF LookupLogout, Goto
    <2>. QED BY <1>1, <2>1
<1>4. ASSUME Rollback(r), excused' = IF pc[r] = "close" THEN excused \cup Uncommitted(r) ELSE excused
      PROVE  BrowserRollsBack(r)
    <2>1. pc'[r] = "idle"
        BY <1>2, <1>4 DEF Rollback, Goto
    <2>2. wire' = IF wire[r].state = "open" THEN [wire EXCEPT ![r].state = "answer"] ELSE wire
        BY <1>1, <2>1
    <2>. QED BY <1>1, <1>3, <1>4, <2>1, <2>2 DEF BrowserRollsBack
<1>5. CASE Handle(r) /\ excused' = excused
    <2>1. CASE WorkStep(r)
        <3>1. Works(r)
            BY <1>2, <2>1, WorkSlots
        <3>2. wire' = wire
            BY <1>1, <3>1 DEF Works
        <3>. QED BY <1>1, <1>5, <3>1, <3>2 DEF BrowserWorks
    <2>2. CASE Reply(r)
        <3>1. pc[r] = "reply" /\ pc'[r] = "close"
            BY <1>2, <2>2 DEF Reply, Goto
        <3>. QED BY <1>1, <1>3, <1>5, <2>2, <3>1 DEF BrowserReplies
    <2>3. CASE Close(r)
        <3>1. pc[r] = "close"
            BY <2>3 DEF Close
        <3>2. wire[r].state # "open"
            BY <3>1, WireFacts DEF OnTheWire, Running
        <3>. QED BY <1>1, <1>3, <1>5, <2>3, <3>1, <3>2 DEF BrowserCloses
    <2>4. CASE DeadlockVictim(r)
        <3>1. PICK q \in Requests : Wanted(r) \in Locks(q)
            BY <2>4 DEF DeadlockVictim, Deadlocked, WaitsFor
        <3>2. Wanted(r) \in Tokens
            BY <1>2, <3>1, LocksStored
        <3>3. pc[r] # "close"
            BY <3>2, ConstantsOK DEF Wanted
        <3>. QED BY <1>4, <1>5, <2>4, <3>3 DEF DeadlockVictim
    <2>. QED BY <1>5, <2>1, <2>2, <2>3, <2>4 DEF Handle, WorkStep
<1>6. CASE Fail(r) /\ excused' = IF pc[r] = "close" THEN excused \cup Uncommitted(r) ELSE excused
    BY <1>4, <1>6 DEF Fail
<1>. QED BY <1>5, <1>6 DEF Serve

\* Serving keeps the types of what the browser has.
LEMMA ServeTypes ==
    ASSUME BrowserInv, SlotsInv', NEW r \in Requests, Serve(r)
    PROVE  BrowserTypeOK'
<1>1. /\ SlotsInv /\ job[r] \in Job /\ wire \in [Requests -> Wire] /\ wire[r] \in Wire
      /\ held \subseteq Tokens /\ BrowserTypeOK
    BY WireFacts, SlotFacts DEF BrowserInv
<1>2. held \subseteq held'
    BY ServeCases, WorkKeeps, ReplyKeeps, CloseKeeps, RollbackKeeps, <1>1
<1>3. Lineage(job[r].tok) \subseteq Tokens
    BY <1>1, SessionTyped DEF Lineage, Job, TokenOrNone
<1>4. Uncommitted(r) \subseteq Tokens
    BY <1>1, <1>3, PendingToken DEF Uncommitted
<1>5. excused' \subseteq Tokens /\ early' \subseteq Tokens
    BY <1>1, <1>3, <1>4 DEF Serve, BrowserTypeOK
<1>6. wire' \in [Requests -> Wire]
    <2>1. Answer(r) \in Wire
        BY <1>1 DEF Answer, Wire, Job, TokenOrNone
    <2>2. [wire[r] EXCEPT !.state = "answer"] \in Wire
        BY <1>1 DEF Wire
    <2>3. wire' \in {wire, [wire EXCEPT ![r] = Answer(r)], [wire EXCEPT ![r].state = "answer"]}
        BY DEF Serve
    <2>. QED BY <1>1, <2>1, <2>2, <2>3
<1>7. jar' = jar /\ out' = out
    BY DEF Serve
<1>8. TypeOK'
    BY DEF SlotsInv, IInv
<1>. QED BY <1>1, <1>2, <1>5, <1>6, <1>7, <1>8 DEF BrowserTypeOK

\* A step of the handler or the end of its transaction.
LEMMA ServeInv ==
    ASSUME BrowserInv, SlotsInv', NEW r \in Requests, Serve(r)
    PROVE  BrowserInv'
<1>1. WiresInv'
    BY ServeCases, WorkWires, ReplyWires, CloseWires, RollbackWires
<1>. QED BY <1>1, ServeTypes DEF BrowserInv

\* A request of a tab.
LEMMA SendInv ==
    ASSUME BrowserInv, SlotsInv', NEW r \in Requests,
           SendLogin(r) \/ SendRefresh(r) \/ SendLogout(r)
    PROVE  BrowserInv'
<1>1. SlotsInv /\ IInv' /\ held \subseteq Tokens /\ wire \in [Requests -> Wire] /\ BrowserTypeOK
    BY WireFacts DEF SlotsInv, BrowserInv
<1>2. PICK t : Sends(r, t)
    <2>1. CASE SendLogin(r)
        BY <1>1, <2>1, LoginSlots DEF SendLogin, Sends
    <2>2. CASE SendRefresh(r)
        <3>1. PICK t : t = jar
            OBVIOUS
        <3>2. Arrives(r, t)
            BY <1>1, <2>2, <3>1, RefreshSlots DEF SendRefresh
        <3>. QED BY <2>2, <3>1, <3>2 DEF SendRefresh, Sends
    <2>3. CASE SendLogout(r)
        <3>1. PICK t : t = jar
            OBVIOUS
        <3>2. Arrives(r, t)
            BY <1>1, <2>3, <3>1, LogoutSlots DEF SendLogout
        <3>. QED BY <2>3, <3>1, <3>2 DEF SendLogout, Sends
    <2>. QED BY <2>1, <2>2, <2>3
<1>3. WiresInv' /\ held' = held /\ t \in held \cup {NoToken}
    BY <1>2, SendWires, SendKeeps
<1>4. wire' \in [Requests -> Wire]
    <2>1. [Quiet EXCEPT !.state = "open", !.tok = t] \in Wire
        BY <1>1, <1>3 DEF Quiet, Wire, TokenOrNone
    <2>2. wire' = [wire EXCEPT ![r] = [Quiet EXCEPT !.state = "open", !.tok = t]]
        BY <1>2 DEF Sends, Open
    <2>. QED BY <1>1, <2>1, <2>2
<1>5. excused' \subseteq Tokens
    <2>1. Lineage(t) \subseteq Tokens
        BY <1>1, <1>3, SessionTyped DEF Lineage
    <2>. QED BY <1>1, <1>2, <2>1 DEF Sends, Open, BrowserTypeOK
<1>6. UNCHANGED <<jar, out, early>>
    BY <1>2 DEF Sends, Open
<1>7. TypeOK'
    BY DEF SlotsInv, IInv
<1>8. BrowserTypeOK'
    BY <1>1, <1>3, <1>4, <1>5, <1>6, <1>7 DEF BrowserTypeOK
<1>. QED BY <1>3, <1>8 DEF BrowserInv

\* An answer that arrives or does not.
LEMMA EndInv ==
    ASSUME BrowserInv, SlotsInv', NEW r \in Requests, Deliver(r) \/ Lose(r)
    PROVE  BrowserInv'
<1>1. /\ held \subseteq Tokens /\ wire \in [Requests -> Wire] /\ BrowserTypeOK
      /\ wire[r].tok \in held \cup {NoToken} /\ wire[r].cookie \in held \cup {NoToken} /\ SlotsInv
    BY WireFacts DEF BrowserInv
<1>2. WiresInv'
    BY DeliverWires, LoseWires
<1>3. held' = held /\ early' = early /\ wire' = [wire EXCEPT ![r] = Quiet]
    BY DEF Deliver, Lose, vars
<1>4. wire' \in [Requests -> Wire]
    <2>1. Quiet \in Wire
        BY DEF Quiet, Wire, TokenOrNone
    <2>. QED BY <1>1, <1>3, <2>1
<1>5. Lineage(wire[r].tok) \subseteq Tokens
    BY <1>1, SessionTyped DEF Lineage
<1>6. jar' \in held \cup {NoToken} /\ out' \subseteq held /\ excused' \subseteq Tokens
    BY <1>1, <1>5 DEF Deliver, Lose, BrowserTypeOK
<1>7. TypeOK'
    BY DEF SlotsInv, IInv
<1>8. BrowserTypeOK'
    BY <1>1, <1>3, <1>4, <1>6, <1>7 DEF BrowserTypeOK
<1>. QED BY <1>2, <1>8 DEF BrowserInv

\* Nothing but the clock moves.
LEMMA StillInv ==
    ASSUME BrowserInv, SlotsInv', Still, UNCHANGED <<jar, wire, out, excused, early>>
    PROVE  BrowserInv'
<1>1. /\ jar' = jar /\ wire' = wire /\ out' = out /\ excused' = excused /\ early' = early
      /\ SlotsInv /\ row' = row
    BY DEF Still, BrowserInv
<1>2. /\ Keeps /\ held' = held /\ job' = job /\ pc' = pc
      /\ \A u \in Tokens : /\ SessionOf(u)' = SessionOf(u)
                           /\ Stored(u)' <=> Stored(u)
                           /\ Clean(u) => Clean(u)'
                           /\ \A q \in Requests : CleanBut(q, u) => CleanBut(q, u)'
                           /\ \A q \in Requests : Pending(q, u)' <=> Pending(q, u)
                           /\ Over(u) => Over(u)'
      /\ \A q \in Requests : Running(q)' <=> Running(q)
    BY <1>1, StillKeeps
<1>3. held \subseteq Tokens /\ NoToken \notin held /\ out \subseteq held
    BY <1>1, ConstantsOK DEF SlotsInv, IInv, TypeOK, BrowserInv, BrowserTypeOK
<1>4. /\ \A q \in Requests, t \in held : Carries(q, t)' <=> Carries(q, t)
      /\ \A t, u \in held : Linked(t, u)' => Linked(t, u)
      /\ \A u \in held : Fine(u)' => /\ Fine(u) /\ SessionOf(u)' = SessionOf(u)
                                     /\ (Clean(u) => Clean(u)') /\ (Over(u) => Over(u)')
    BY <1>1, <1>2, <1>3, KeepsLinks DEF Carries, Keeps
<1>5. ASSUME NEW q \in Requests PROVE OnTheWire(q)'
    <2>1. OnTheWire(q) /\ Answer(q)' = Answer(q)
        BY <1>1, <1>2, WireFacts DEF Answer
    <2>. QED BY <1>1, <1>2, <1>4, <2>1 DEF OnTheWire, Stored
<1>6. ASSUME NEW q \in Requests PROVE Served(q)'
    BY <1>1, <1>2, <1>3, <1>4, WireFacts DEF Served
<1>7. ASSUME NEW q \in Requests PROVE Answered(q)'
    BY <1>1, <1>2, <1>4, WireFacts DEF Answered
<1>8. ASSUME NEW q \in Requests PROVE Newest(q)'
    BY <1>1, <1>2, <1>4, WireFacts DEF Newest
<1>9. Traced'
    <2>1. \A u \in held : Stored(u) \/ ~Fine(u) \/ \E q \in Requests : Pending(q, u)
        BY DEF BrowserInv, WiresInv, Traced
    <2>2. \A u \in held : Stored(u)' \/ ~Fine(u)' \/ \E q \in Requests : Pending(q, u)'
        BY <1>2, <1>3, <1>4, <2>1
    <2>. QED BY <1>1, <1>2, <2>2 DEF BrowserInv, WiresInv, Traced
<1>10. OnePlace' /\ JarClean'
    BY <1>1, <1>2, <1>4 DEF BrowserInv, WiresInv, OnePlace, JarClean
<1>11. SignedOut'
    <2>1. \A u \in held : Gone(u) => Gone(u)'
        BY <1>1, <1>2, <1>4 DEF Gone
    <2>. QED BY <1>1, <1>3, <1>4, <2>1 DEF BrowserInv, WiresInv, SignedOut
<1>12. WiresInv'
    BY <1>5, <1>6, <1>7, <1>8, <1>9, <1>10, <1>11 DEF WiresInv
<1>13. BrowserTypeOK'
    <2>1. TypeOK'
        BY DEF SlotsInv, IInv
    <2>. QED BY <1>1, <1>2, <2>1 DEF BrowserInv, BrowserTypeOK
<1>. QED BY <1>12, <1>13 DEF BrowserInv

\* The invariant of the browser is inductive.
LEMMA BrowserNext == BrowserInv /\ [BNext]_bvars => BrowserInv'
<1>. SUFFICES ASSUME BrowserInv, [BNext]_bvars PROVE BrowserInv'
    OBVIOUS
<1>1. SlotsInv'
    BY BrowserStep, SlotsNext DEF BrowserInv
<1>2. CASE Tick /\ UNCHANGED <<jar, wire, out, excused, early>>
    BY <1>1, <1>2, StillInv DEF Tick, Still, DB
<1>3. ASSUME NEW r \in Requests,
             SendLogin(r) \/ SendRefresh(r) \/ SendLogout(r) \/ Serve(r) \/ Deliver(r) \/ Lose(r)
      PROVE  BrowserInv'
    BY <1>1, <1>3, SendInv, ServeInv, EndInv
<1>4. CASE UNCHANGED bvars
    BY <1>1, <1>4, StillInv DEF bvars, vars, Still
<1>. QED BY <1>2, <1>3, <1>4 DEF BNext

\* The browser starts with an empty jar and no request.
LEMMA BrowserFirst == BInit => BrowserInv
<1>. SUFFICES ASSUME BInit PROVE BrowserInv
    OBVIOUS
<1>1. SlotsInv /\ held = {} /\ out = {} /\ jar = NoToken
    BY SlotsInit DEF BInit, Init
<1>2. \A r \in Requests : wire[r] = Quiet /\ pc[r] = "idle"
    BY DEF BInit, Init
<1>3. \A r \in Requests : wire[r].state = "none" /\ wire[r].tok = NoToken /\ wire[r].cookie = NoToken
    <2>1. Quiet.state = "none" /\ Quiet.tok = NoToken /\ Quiet.cookie = NoToken
        BY DEF Quiet
    <2>. QED BY <1>2, <2>1
<1>4. BrowserTypeOK
    <2>1. Quiet \in Wire
        BY DEF Quiet, Wire, TokenOrNone
    <2>. QED BY <1>1, <2>1 DEF BInit, BrowserTypeOK, SlotsInv, IInv
<1>5. \A r \in Requests : OnTheWire(r) /\ Served(r) /\ Answered(r) /\ Newest(r)
    BY <1>1, <1>2, <1>3 DEF OnTheWire, Running, Served, Answered, Newest
<1>6. Traced /\ OnePlace /\ JarClean /\ SignedOut
    BY <1>1, <1>3 DEF Traced, OnePlace, JarClean, SignedOut
<1>. QED BY <1>1, <1>4, <1>5, <1>6 DEF BrowserInv, WiresInv

-----------------------------------------------------------------------------
(* The theorems about the browser.                                         *)

\* A browser drives the service as its specification allows, so what is proved
\* of RefreshTokens holds beneath the browser too.
THEOREM BrowserUsesService == BSpec => Spec
<1>1. BInit => Init
    BY DEF BInit
<1>. QED BY <1>1, BrowserStep, PTL DEF BSpec, Spec

\* The invariant holds throughout.
THEOREM BrowserInvariance == BSpec => []BrowserInv
BY BrowserFirst, BrowserNext, PTL DEF BSpec

\* Every variable keeps its type.
THEOREM BrowserTypeCorrect == BSpec => []BrowserTypeOK
<1>1. BrowserInv => BrowserTypeOK
    BY DEF BrowserInv
<1>. QED BY <1>1, BrowserInvariance, PTL

\* rotate takes the browser's own token for a stolen one only if an accident
\* has happened to the session: the token of a session without one is with the
\* request that presents it and nowhere else, and nobody has spent it.
THEOREM ReuseNeedsAnAccident == BSpec => ReuseHasACause
<1>1. ASSUME BrowserInv, NEW r \in Requests, LookupDead(r) PROVE Session(r) \in excused
    <2>1. /\ SlotsInv /\ Running(r) /\ Known(r) /\ Dead(job[r].tok)
        BY <1>1, WireFacts DEF LookupDead, Running
    <2>2. job[r].tok # NoToken /\ Session(r) = SessionOf(job[r].tok)
        BY <2>1, SessionOfRequest DEF SlotsInv, Known
    <2>3. ASSUME Fine(job[r].tok) PROVE FALSE
        <3>1. wire[r].state = "open" /\ wire[r].tok = job[r].tok /\ job[r].tok \in held
            BY <1>1, <2>1, <2>2, <2>3, WorkIsOpen
        <3>2. CleanBut(r, job[r].tok)
            BY <1>1, <2>3, <3>1, WireFacts DEF Served
        <3>. QED BY <2>1, <3>2 DEF CleanBut
    <2>. QED BY <2>2, <2>3 DEF Fine
<1>2. BrowserInv /\ [BNext]_bvars => [\A r \in Requests : LookupDead(r) => Session(r) \in excused]_bvars
    BY <1>1
<1>. QED BY <1>2, BrowserInvariance, PTL DEF BSpec, ReuseHasACause

\* At rest the jar holds a token the server would exchange, or one of a session
\* an accident has happened to.
THEOREM JarStaysGood == BSpec => []JarIsGood
<1>1. BrowserInv => JarIsGood
    <2>. SUFFICES ASSUME BrowserInv, Settled, jar # NoToken, Fine(jar) PROVE Live(jar)
        BY DEF JarIsGood, Fine
    <2>1. jar \in held /\ SlotsInv
        BY WireFacts DEF BrowserInv, BrowserTypeOK
    <2>2. \A r \in Requests : ~Carries(r, jar)
        BY DEF Settled, Carries
    <2>3. Clean(jar)
        BY <2>1, <2>2 DEF BrowserInv, WiresInv, JarClean
    <2>4. \A q \in Requests : ~Pending(q, jar)
        BY <2>1, SlotFacts DEF Settled, Outcome, Pending, Idle
    <2>5. Stored(jar)
        BY <2>1, <2>4 DEF BrowserInv, WiresInv, Traced
    <2>. QED BY <2>3, <2>5 DEF Clean, Live
<1>. QED BY <1>1, BrowserInvariance, PTL

\* A confirmed logout leaves no live token of its session, unless an accident
\* has happened to that or the logout came before the token's row.
THEOREM LogoutIsFinal == BSpec => []LogoutEndsSession
<1>1. BrowserInv => LogoutEndsSession
    <2>. SUFFICES ASSUME BrowserInv, Settled, NEW t \in out, SessionOf(t) \notin excused \cup early,
                         NEW u \in Tokens, Live(u)
                  PROVE  row[u].session # SessionOf(t)
        BY DEF LogoutEndsSession
    <2>1. Over(t)
        BY DEF BrowserInv, WiresInv, SignedOut, Fine
    <2>2. SessionOf(t) \in sealed
        BY <2>1 DEF Over, Settled
    <2>. QED BY <2>2 DEF BrowserInv, SlotsInv, IInv, SealedStaysDead, Live, Dead
<1>. QED BY <1>1, BrowserInvariance, PTL

-----------------------------------------------------------------------------
(* One-time use beneath the browser.                                       *)

\* A rotated row is of the session of the row it replaces.
ChildOfSession ==
    \A t \in Tokens : Stored(t) /\ row[t].parent # NoToken =>
        /\ row[t].parent \in Tokens /\ Stored(row[t].parent)
        /\ row[t].session = row[row[t].parent].session

\* A token is exchanged twice only in a session with an accident.
ForksExcused ==
    \A t, u \in Tokens :
        (/\ t # u /\ Stored(t) /\ Stored(u)
         /\ row[t].parent = row[u].parent /\ row[t].parent # NoToken)
        => row[t].session \in excused

\* Without one an exchange has its token to itself.
AloneOn(q) ==
    Exchanging(q) /\ Session(q) \notin excused =>
        /\ job[q].tok \notin consumed
        /\ \A p \in Requests \ {q} : Exchanging(p) => job[p].tok # job[q].tok

ForkInv ==
    /\ BrowserInv
    /\ ChildOfSession /\ ForksExcused
    /\ \A q \in Requests : AloneOn(q)

\* Rows are added by commits, and stay.
LEMMA RowsGrow ==
    ASSUME SlotsInv, SlotsInv', [Next]_vars, NEW t \in Tokens
    PROVE  /\ Stored(t) => Stored(t)' /\ row'[t] = row[t]
           /\ Stored(t)' /\ ~Stored(t) =>
                \E r \in Requests : Close(r) /\ Pending(r, t) /\ row'[t] = job[r].ins
<1>1. CASE row' = row
    BY <1>1 DEF Stored
<1>2. ASSUME NEW r \in Requests, Close(r)
      PROVE  /\ Stored(t) => Stored(t)' /\ row'[t] = row[t]
             /\ Stored(t)' /\ ~Stored(t) => Pending(r, t) /\ row'[t] = job[r].ins
    <2>1. Commits(r)
        BY <1>2, CloseSlots DEF SlotsInv
    <2>. QED BY <2>1 DEF Commits
<1>3. ASSUME NEW r \in Requests, WorkStep(r) \/ Reply(r) \/ Rollback(r) PROVE row' = row
    BY <1>3, WorkSlots DEF Works, Reply, Rollback, DB, SlotsInv
<1>4. ASSUME NEW r \in Requests, Arrive(r) PROVE row' = row
    BY <1>4 DEF Arrive, Login, Refresh, Logout, DB
<1>5. Tick \/ UNCHANGED vars => row' = row
    BY DEF Tick, vars, DB
<1>6. ASSUME NEW r \in Requests, Handle(r) \/ Fail(r)
      PROVE  row' = row \/ Close(r)
    BY <1>3, <1>6, HandleCases
<1>. QED BY <1>1, <1>2, <1>4, <1>5, <1>6 DEF Next

\* A token is spent by the commit of an exchange of it.
LEMMA SpentByExchange ==
    ASSUME SlotsInv, SlotsInv', [Next]_vars, NEW t, t \in consumed', t \notin consumed
    PROVE  \E r \in Requests : Close(r) /\ Exchanging(r) /\ job[r].tok = t
<1>1. ASSUME NEW r \in Requests, WorkStep(r) \/ Reply(r) \/ Rollback(r) PROVE consumed' = consumed
    BY <1>1, WorkSlots DEF Works, Reply, Rollback, DB, SlotsInv
<1>2. ASSUME NEW r \in Requests, Arrive(r) PROVE consumed' = consumed
    BY <1>2 DEF Arrive, Login, Refresh, Logout, DB
<1>3. Tick \/ UNCHANGED vars => consumed' = consumed
    BY DEF Tick, vars, DB
<1>4. PICK r \in Requests : Close(r)
    BY <1>1, <1>2, <1>3, HandleCases DEF Next
<1>5. t \in job[r].marks /\ pc[r] = "close"
    BY <1>4 DEF Close
<1>6. Spending(r) /\ job[r].tok = t
    BY <1>5, SlotFacts DEF WriteSet
<1>. QED BY <1>4, <1>5, <1>6 DEF Spending, Exchanging

\* An exchange begins when its token is found live, and stays with that token
\* and its session.
LEMMA ExchangeBegins ==
    ASSUME SlotsInv, SlotsInv', [Next]_vars, NEW q \in Requests, Exchanging(q)'
    PROVE  /\ job'[q].tok = job[q].tok /\ Known(q) /\ job[q].tok \in Tokens
           /\ Session(q)' = Session(q)
           /\ Exchanging(q) \/ LookupLive(q)
<1>1. /\ job'[q].tok = job[q].tok
      /\ Exchanging(q) \/ LookupLive(q)
    <2>1. ASSUME NEW r \in Requests, Arrive(r) PROVE r # q /\ pc'[q] = pc[q] /\ job'[q] = job[q]
        <3>1. \A j : job' = [job EXCEPT ![r] = j] => job'[r] = j /\ \A p \in Requests \ {r} : job'[p] = job[p]
            BY SlotFacts
        <3>2. \A l : pc' = [pc EXCEPT ![r] = l] => pc'[r] = l /\ \A p \in Requests \ {r} : pc'[p] = pc[p]
            BY SlotFacts
        <3>3. CASE Login(r)
            <4>1. PICK n \in Tokens : job' = [job EXCEPT ![r] = [Idle EXCEPT !.new = n]]
                BY <3>3 DEF Login
            <4>2. job'[r].tok = NoToken
                BY <3>1, <4>1 DEF Idle
            <4>. QED BY <3>1, <3>2, <3>3, <4>1, <4>2 DEF Login, Goto, Exchanging
        <3>4. CASE Refresh(r)
            <4>1. PICK t \in held \cup {NoToken}, n \in TokenOrNone :
                    job' = [job EXCEPT ![r] = [Idle EXCEPT !.tok = t, !.new = n]]
                BY <3>4 DEF Refresh
            <4>2. job'[r] = [Idle EXCEPT !.tok = t, !.new = n] /\ pc'[r] = "refresh"
                BY <3>1, <3>2, <3>4, <4>1 DEF Refresh, Goto
            <4>3. job'[r].ins = NoRow
                BY <4>2 DEF Idle
            <4>4. r # q
                BY <4>2, <4>3 DEF Exchanging
            <4>. QED BY <3>1, <3>2, <3>4, <4>1, <4>4 DEF Refresh, Goto
        <3>5. CASE Logout(r)
            <4>1. PICK t \in held \cup {NoToken} : job' = [job EXCEPT ![r] = [Idle EXCEPT !.tok = t]]
                BY <3>5 DEF Logout
            <4>2. job'[r] = [Idle EXCEPT !.tok = t] /\ pc'[r] = "logout"
                BY <3>1, <3>2, <3>5, <4>1 DEF Logout, Goto
            <4>3. job'[r].ins = NoRow
                BY <4>2 DEF Idle
            <4>4. r # q
                BY <4>2, <4>3 DEF Exchanging
            <4>. QED BY <3>1, <3>2, <3>5, <4>1, <4>4 DEF Logout, Goto
        <3>. QED BY <2>1, <3>3, <3>4, <3>5 DEF Arrive
    <2>2. ASSUME NEW r \in Requests, WorkStep(r)
          PROVE  job'[q].tok = job[q].tok /\ (Exchanging(q) \/ LookupLive(q))
        <3>1. Works(r)
            BY <2>2, WorkSlots DEF SlotsInv
        <3>2. CASE q # r
            <4>1. Alike(q)
                BY <3>1, <3>2 DEF Works
            <4>. QED BY <4>1 DEF Alike, Exchanging
        <3>3. CASE q = r
            <4>1. job'[r].tok = job[r].tok /\ job[r].ins = NoRow
                BY <3>1 DEF Works
            <4>2. CASE pc[r] \in {"decide", "consume", "insert"}
                BY <3>3, <4>1, <4>2 DEF Exchanging
            <4>3. CASE LookupUnknown(r) \/ LookupDead(r) \/ LookupLogout(r)
                <5>1. job'[r].ins = NoRow /\ pc'[r] \in {"reply", "scan"}
                    <6>1. job'[r].ins = NoRow
                        BY <4>1, <4>3, SlotFacts DEF LookupUnknown, LookupDead, LookupLogout, Job
                    <6>2. pc'[r] \in {"reply", "scan"}
                        BY <4>3, SlotFacts DEF LookupUnknown, LookupDead, LookupLogout, Goto
                    <6>. QED BY <6>1, <6>2
                <5>. QED BY <3>3, <5>1 DEF Exchanging
            <4>4. CASE Scan(r) \/ Revoke(r)
                <5>1. \A S, j : j.ins = NoRow /\ NextRow(r, S, j)
                        => job'[r].ins = NoRow /\ pc'[r] \in {"reply", "revoke"}
                    <6>. SUFFICES ASSUME NEW S, NEW j, j.ins = NoRow, NextRow(r, S, j)
                                  PROVE  job'[r].ins = NoRow /\ pc'[r] \in {"reply", "revoke"}
                        OBVIOUS
                    <6>1. CASE job' = [job EXCEPT ![r] = [j EXCEPT !.todo = {}, !.want = NoToken]]
                               /\ Goto(r, "reply")
                        BY <6>1, SlotFacts DEF Goto
                    <6>2. ASSUME NEW t \in S,
                                 job' = [job EXCEPT ![r] = [j EXCEPT !.todo = S \ {t}, !.want = t]],
                                 Goto(r, "revoke")
                          PROVE  job'[r].ins = NoRow /\ pc'[r] \in {"reply", "revoke"}
                        BY <6>2, SlotFacts DEF Goto
                    <6>. QED BY <6>1, <6>2 DEF NextRow
                <5>2. job'[r].ins = NoRow /\ pc'[r] \in {"reply", "revoke"}
                    BY <4>1, <4>4, <5>1, SlotFacts DEF Scan, Revoke, Job
                <5>. QED BY <3>3, <5>2 DEF Exchanging
            <4>5. pc[r] \in {"decide", "consume", "insert"} \/ LookupUnknown(r) \/ LookupDead(r)
                  \/ LookupLogout(r) \/ Scan(r) \/ Revoke(r) \/ LookupLive(r)
                BY <2>2 DEF WorkStep, DecideExpired, DecideValid, Consume, Insert
            <4>. QED BY <3>3, <4>1, <4>2, <4>3, <4>4, <4>5
        <3>. QED BY <3>2, <3>3
    <2>3. ASSUME NEW r \in Requests, Reply(r)
          PROVE  job'[q].tok = job[q].tok /\ Exchanging(q)
        <3>1. job' = job /\ (q # r => pc'[q] = pc[q]) /\ pc'[r] = "close"
            BY <2>3, SlotFacts DEF Reply, Goto
        <3>. QED BY <3>1 DEF Exchanging
    <2>4. ASSUME NEW r \in Requests, Close(r) \/ Rollback(r)
          PROVE  r # q /\ pc'[q] = pc[q] /\ job'[q] = job[q]
        <3>1. job'[r] = Idle /\ pc'[r] = "idle"
              /\ \A p \in Requests \ {r} : pc'[p] = pc[p] /\ job'[p] = job[p]
            BY <2>4, SlotFacts DEF Close, Rollback, Goto
        <3>. QED BY <3>1 DEF Exchanging, Idle
    <2>5. Tick \/ UNCHANGED vars => pc' = pc /\ job' = job
        BY DEF Tick, vars
    <2>6. \A r \in Requests : Handle(r) \/ Fail(r) =>
            WorkStep(r) \/ Reply(r) \/ Close(r) \/ Rollback(r)
        BY HandleCases
    <2>7. pc'[q] = pc[q] /\ job'[q] = job[q] => Exchanging(q)
        BY DEF Exchanging
    <2>. QED BY <2>1, <2>2, <2>3, <2>4, <2>5, <2>6, <2>7 DEF Next
<1>2. Known(q) /\ job[q].tok \in Tokens
    BY <1>1, SlotFacts DEF Exchanging, LookedUp, Spending, LookupLive, Known, Job, TokenOrNone
<1>3. Session(q)' = Session(q)
    BY <1>1, <1>2, RowsGrow DEF Session, Known
<1>. QED BY <1>1, <1>2, <1>3

\* What a committed exchange adds.
LEMMA RotatedRow ==
    ASSUME SlotsInv, NEW r \in Requests, NEW t \in Tokens, Close(r), Pending(r, t),
           job[r].ins.parent # NoToken
    PROVE  /\ Exchanging(r) /\ Known(r) /\ job[r].tok \in Tokens
           /\ job[r].ins.parent = job[r].tok /\ job[r].ins.session = Session(r)
<1>1. job[r].ins # NoRow /\ job[r].ins.parent = job[r].tok
    BY SlotFacts DEF Pending, WriteSet
<1>. QED BY <1>1, SlotFacts DEF WriteSet, Exchanging, LookedUp, Spending, Known, Job, TokenOrNone

\* Accidents are remembered.
LEMMA ExcusedGrows == [BNext]_bvars => excused \subseteq excused'
<1>1. ASSUME NEW r \in Requests, SendLogin(r) \/ SendRefresh(r) \/ SendLogout(r)
      PROVE  excused \subseteq excused'
    BY <1>1 DEF SendLogin, SendRefresh, SendLogout, Open
<1>2. ASSUME NEW r \in Requests, Serve(r) \/ Deliver(r) \/ Lose(r) PROVE excused \subseteq excused'
    BY <1>2 DEF Serve, Deliver, Lose
<1>. QED BY <1>1, <1>2 DEF BNext, bvars

\* Two requests that would exchange a token of one session have an excuse.
LEMMA NotBoth ==
    ASSUME BrowserInv, NEW p \in Requests, NEW q \in Requests, p # q,
           LookupLive(p), Exchanging(q), Known(q), job[p].tok = job[q].tok
    PROVE  Session(q) \in excused
<1>1. Session(p) = Session(q) /\ Known(p) /\ Running(p)
    BY DEF LookupLive, Session, Running
<1>2. ~Fine(job[p].tok)
    BY <1>1, NotRaced
<1>. QED BY <1>1, <1>2, SessionOfRequest DEF Fine, BrowserInv, SlotsInv

\* A lookup is a step of its own and spends nothing.
LEMMA OneLookup ==
    ASSUME SlotsInv, NEW q \in Requests, LookupLive(q)
    PROVE  consumed' = consumed /\ \A p \in Requests \ {q} : ~LookupLive(p)
<1>1. \A p \in Requests : LookupLive(p) => pc[p] = "refresh" /\ pc'[p] = "decide"
    BY SlotFacts DEF LookupLive, Goto
<1>2. \A p \in Requests \ {q} : pc'[p] = pc[p]
    BY SlotFacts DEF LookupLive, Goto
<1>. QED BY <1>1, <1>2 DEF LookupLive, DB

\* A step keeps an exchange alone with its token.
LEMMA AloneStep ==
    ASSUME ForkInv, SlotsInv', [BNext]_bvars, NEW q \in Requests,
           Exchanging(q)', Session(q)' \notin excused'
    PROVE  /\ job'[q].tok \notin consumed'
           /\ \A p \in Requests \ {q} : Exchanging(p)' => job'[p].tok # job'[q].tok
<1>1. BrowserInv /\ SlotsInv /\ [Next]_vars
    BY BrowserStep DEF ForkInv, BrowserInv
<1>2. \A p \in Requests : Exchanging(p)' =>
        /\ job'[p].tok = job[p].tok /\ Known(p) /\ (Exchanging(p) \/ LookupLive(p))
        /\ Session(p)' = Session(p)
    BY <1>1, ExchangeBegins
<1>3. Session(q) \notin excused /\ Known(q)
    BY <1>2, ExcusedGrows
<1>4. CASE Exchanging(q)
    <2>1. /\ job[q].tok \notin consumed
          /\ \A p \in Requests \ {q} : Exchanging(p) => job[p].tok # job[q].tok
        BY <1>3, <1>4 DEF ForkInv, AloneOn
    <2>2. ~Close(q)
        BY <1>1, SlotFacts DEF Close, Exchanging, Idle
    <2>3. job[q].tok \notin consumed'
        BY <1>1, <2>1, <2>2, SpentByExchange
    <2>4. \A p \in Requests \ {q} : LookupLive(p) => job[p].tok # job[q].tok
        BY <1>1, <1>3, <1>4, NotBoth
    <2>. QED BY <1>2, <2>1, <2>3, <2>4
<1>5. CASE LookupLive(q)
    <2>1. consumed' = consumed /\ \A p \in Requests \ {q} : ~LookupLive(p)
        BY <1>1, <1>5, OneLookup
    <2>2. job[q].tok \notin consumed
        BY <1>5 DEF LookupLive, Dead
    <2>3. ASSUME NEW p \in Requests \ {q}, Exchanging(p), Known(p), job[p].tok = job[q].tok
          PROVE  FALSE
        <3>1. Session(p) = Session(q)
            BY <2>3 DEF Session
        <3>. QED BY <1>1, <1>3, <1>5, <2>3, <3>1, NotBoth
    <2>. QED BY <1>2, <2>1, <2>2, <2>3
<1>. QED BY <1>2, <1>4, <1>5

\* The rows a step adds fork only the lineage of a session with an accident.
LEMMA ForkStep ==
    ASSUME ForkInv, SlotsInv', [BNext]_bvars
    PROVE  ChildOfSession' /\ ForksExcused'
<1>1. SlotsInv /\ [Next]_vars /\ excused \subseteq excused'
    BY BrowserStep, ExcusedGrows DEF ForkInv, BrowserInv
<1>2. ASSUME NEW t \in Tokens, Stored(t) PROVE Stored(t)' /\ row'[t] = row[t]
    BY <1>1, <1>2, RowsGrow
<1>3. ASSUME NEW t \in Tokens, Stored(t)', ~Stored(t), row'[t].parent # NoToken
      PROVE  \E r \in Requests :
               /\ Close(r) /\ Pending(r, t) /\ Exchanging(r) /\ Known(r) /\ job[r].tok \in Tokens
               /\ row'[t].parent = job[r].tok /\ row'[t].session = Session(r)
    <2>1. PICK r \in Requests : Close(r) /\ Pending(r, t) /\ row'[t] = job[r].ins
        BY <1>1, <1>3, RowsGrow
    <2>. QED BY <1>1, <1>3, <2>1, RotatedRow
<1>4. ChildOfSession'
    <2>. SUFFICES ASSUME NEW t \in Tokens, Stored(t)', row'[t].parent # NoToken
                  PROVE  /\ row'[t].parent \in Tokens /\ Stored(row[t].parent)'
                         /\ row'[t].session = row'[row'[t].parent].session
        BY DEF ChildOfSession
    <2>1. CASE Stored(t)
        <3>1. row'[t] = row[t]
            BY <1>2, <2>1
        <3>2. row[t].parent \in Tokens /\ Stored(row[t].parent)
              /\ row[t].session = row[row[t].parent].session
            BY <2>1, <3>1 DEF ForkInv, ChildOfSession
        <3>. QED BY <1>2, <3>1, <3>2
    <2>2. CASE ~Stored(t)
        <3>1. PICK r \in Requests :
                /\ Known(r) /\ job[r].tok \in Tokens
                /\ row'[t].parent = job[r].tok /\ row'[t].session = Session(r)
            BY <1>3, <2>2
        <3>. QED BY <1>2, <3>1 DEF Known, Session
    <2>. QED BY <2>1, <2>2
\* A token one row replaces already is spent, so another exchange of it is not
\* alone.
<1>5. ASSUME NEW t \in Tokens, NEW u \in Tokens, t # u, Stored(t)', Stored(u)', ~Stored(t),
             row'[t].parent = row'[u].parent, row'[t].parent # NoToken
      PROVE  row'[t].session \in excused
    <2>1. PICK r \in Requests :
            /\ Close(r) /\ Pending(r, t) /\ Exchanging(r) /\ Known(r) /\ job[r].tok \in Tokens
            /\ row'[t].parent = job[r].tok /\ row'[t].session = Session(r)
        BY <1>3, <1>5
    <2>2. Stored(u)
        <3>. SUFFICES ASSUME ~Stored(u) PROVE FALSE
            OBVIOUS
        <3>1. PICK p \in Requests : Close(p) /\ Pending(p, u)
            BY <1>3, <1>5
        <3>2. p = r
            BY <1>1, <2>1, <3>1, SlotFacts DEF Close, Goto
        <3>. QED BY <1>5, <2>1, <3>1, <3>2 DEF Pending
    <2>3. row[u].parent = job[r].tok
        BY <1>2, <1>5, <2>1, <2>2
    <2>4. job[r].tok \in consumed
        BY <1>1, <2>1, <2>2, <2>3 DEF SlotsInv, IInv, SpentHasSuccessor
    <2>. QED BY <2>1, <2>4 DEF ForkInv, AloneOn
<1>6. ForksExcused'
    <2>. SUFFICES ASSUME NEW t \in Tokens, NEW u \in Tokens, t # u, Stored(t)', Stored(u)',
                         row'[t].parent = row'[u].parent, row'[t].parent # NoToken
                  PROVE  row'[t].session \in excused'
        BY DEF ForksExcused
    <2>1. CASE Stored(t) /\ Stored(u)
        BY <1>1, <1>2, <2>1 DEF ForkInv, ForksExcused
    <2>2. CASE ~Stored(t)
        BY <1>1, <1>5, <2>2
    <2>3. CASE ~Stored(u)
        <3>1. row'[u].session \in excused
            BY <1>5, <2>3
        <3>2. row'[t].session = row'[u].session
            BY <1>4 DEF ChildOfSession
        <3>. QED BY <1>1, <3>1, <3>2
    <2>. QED BY <2>1, <2>2, <2>3
<1>. QED BY <1>4, <1>6

\* OneTimeUse, which overlapping requests break, holds beneath the browser for
\* every session without an accident: a browser that sends one request at a
\* time and sees its answers never has one token exchanged twice.
THEOREM ForksNeedAnAccident == BSpec => []ForksExcused
<1>1. BInit => ForkInv
    <2>. SUFFICES ASSUME BInit PROVE ForkInv
        OBVIOUS
    <2>1. \A t \in Tokens : ~Stored(t)
        BY DEF BInit, Init, Stored
    <2>2. \A q \in Requests : ~Exchanging(q)
        BY DEF BInit, Init, Exchanging, Idle
    <2>. QED BY <2>1, <2>2, BrowserFirst DEF ForkInv, ChildOfSession, ForksExcused, AloneOn
<1>2. ForkInv /\ [BNext]_bvars => ForkInv'
    <2>. SUFFICES ASSUME ForkInv, [BNext]_bvars PROVE ForkInv'
        OBVIOUS
    <2>1. BrowserInv' /\ SlotsInv'
        BY BrowserNext DEF ForkInv, BrowserInv
    <2>2. \A q \in Requests : AloneOn(q)'
        BY <2>1, AloneStep DEF AloneOn
    <2>. QED BY <2>1, <2>2, ForkStep DEF ForkInv
<1>3. ForkInv => ForksExcused
    BY DEF ForkInv
<1>. QED BY <1>1, <1>2, <1>3, PTL DEF BSpec
=============================================================================

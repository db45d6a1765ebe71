------------------------- MODULE RowUpdates_proofs -------------------------
(***************************************************************************)
(* Proofs about RowUpdates, for any number of concurrent requests and any  *)
(* columns and values.                                                     *)
(*                                                                         *)
(* The invariant says of each request what the copy of the row it has read *)
(* is worth where it is, and what it has written from it (Own), and of     *)
(* each two that only one has written and who is alone is alone (Apart).   *)
(***************************************************************************)
EXTENDS RowUpdates, TLAPS

\* What a successful statement has written: the row, if there was none, else
\* the columns that differ from the copy.
Written(r) ==
    IF job[r].seen = NoRow
    THEN row = NoRow /\ job[r].sets = NewRow(r)
    ELSE /\ job[r].sets = [f \in Dirty(r) |-> job[r].asked[f]]
         /\ \A f \in Dirty(r) \cap Required : job[r].asked[f] # Null

Own(r) ==
    LET j == job[r]
        l == pc[r]
    IN  /\ l = "idle" => j = IdleJob
        /\ j.unmet \subseteq DOMAIN j.asked
        /\ l \in {"load", "insert"} => j.put
        /\ l \in {"load", "look", "write", "insert"} => j.status = "ok" /\ j.sets = Nothing
        /\ l = "write" => j.seen # NoRow
        /\ l = "insert" => j.seen = NoRow /\ (j.alone => row = NoRow)
        /\ l = "refresh" => j.status = "ok"
        /\ l \in {"refresh", "reply", "close"} /\ j.status = "ok" => Written(r)
        /\ j.status # "ok" => j.sets = Nothing /\ l \in {"reply", "close"}
        /\ j.seen # NoRow => row # NoRow /\ \A f \in j.unmet : j.asked[f] # j.seen[f]
        /\ l \in {"reply", "close"} /\ j.sets # Nothing => j.answer = Visible(r)

Apart(q, r) ==
    /\ job[q].sets = Nothing \/ job[r].sets = Nothing
    /\ job[r].alone => ~Busy(q)

UpdatesInv ==
    /\ TypeOK
    /\ ErrorsExplained
    /\ \A r \in Requests : Own(r)
    /\ \A q, r \in Requests : q # r => Apart(q, r)

-----------------------------------------------------------------------------
(* Rows and changes.                                                       *)

\* Changes are the functions of some columns to values or NULL.
LEMMA ChangesAre ==
    ASSUME NEW x
    PROVE  x \in Changes <=> DOMAIN x \subseteq Fields /\ x \in [DOMAIN x -> Values \cup {Null}]
<1>1. ASSUME x \in Changes
      PROVE  DOMAIN x \subseteq Fields /\ x \in [DOMAIN x -> Values \cup {Null}]
    <2>1. PICK D \in SUBSET Fields : x \in [D -> Values \cup {Null}]
        BY <1>1 DEF Changes
    <2>. QED BY <2>1
<1>2. ASSUME DOMAIN x \subseteq Fields, x \in [DOMAIN x -> Values \cup {Null}]
      PROVE  x \in Changes
    BY <1>2 DEF Changes
<1>. QED BY <1>1, <1>2

\* Only no change at all is of no column.
LEMMA NothingIs ==
    /\ Nothing \in Changes /\ DOMAIN Nothing = {} /\ DOMAIN Nothing # Fields
    /\ \A x \in Changes : DOMAIN x = {} => x = Nothing
<1>1. DOMAIN Nothing = {} /\ Nothing \in Changes
    BY ChangesAre DEF Nothing
<1>2. ASSUME NEW x \in Changes, DOMAIN x = {}
      PROVE  x = Nothing
    BY <1>2, ChangesAre DEF Nothing
<1>. QED BY <1>1, <1>2, UpdatesOK

\* A row is changed in the columns of the change only, and stays a row
\* unless the change has NULL for a column that takes none.
LEMMA OverlayIs ==
    ASSUME NEW i \in Stored, NEW ch \in Changes
    PROVE  /\ Overlay(i, ch) \in Image
           /\ \A f \in Fields : Overlay(i, ch)[f] = IF f \in DOMAIN ch THEN ch[f] ELSE i[f]
           /\ (\A f \in DOMAIN ch \cap Required : ch[f] # Null) => Overlay(i, ch) \in Stored
           /\ ch = Nothing => Overlay(i, ch) = i
<1>1. i \in [Fields -> Values \cup {Null}] /\ \A f \in Required : i[f] # Null
    BY DEF Stored, Image
<1>2. \A f \in DOMAIN ch : ch[f] \in Values \cup {Null}
    BY ChangesAre
<1>3. /\ Overlay(i, ch) \in Image
      /\ \A f \in Fields : Overlay(i, ch)[f] = IF f \in DOMAIN ch THEN ch[f] ELSE i[f]
    BY <1>1, <1>2 DEF Overlay, Image
<1>4. (\A f \in DOMAIN ch \cap Required : ch[f] # Null) => Overlay(i, ch) \in Stored
    BY <1>1, <1>3, UpdatesOK DEF Stored
<1>5. ch = Nothing => Overlay(i, ch) = i
    BY <1>1, NothingIs DEF Overlay
<1>. QED BY <1>3, <1>4, <1>5

\* A stored row is not the absence of one.
LEMMA StoredIsRow == \A i \in Stored : i # NoRow /\ i \in RowOrNone /\ i \in Changes
<1>. SUFFICES ASSUME NEW i \in Stored
              PROVE  i # NoRow /\ i \in RowOrNone /\ i \in Changes
    OBVIOUS
<1>1. i \in Image
    BY DEF Stored
<1>. QED BY <1>1, ChangesAre, UpdatesOK DEF RowOrNone, Image

\* A new row has a value in every column that needs one.
LEMMA NewRowIs ==
    ASSUME TypeOK, NEW r \in Requests
    PROVE  /\ NewRow(r) \in Stored
           /\ \A f \in DOMAIN job[r].asked : job[r].asked[f] # Null => NewRow(r)[f] = job[r].asked[f]
           /\ NewRow(r) # Nothing /\ DOMAIN NewRow(r) = Fields
<1>1. job[r].asked \in Changes
    BY DEF TypeOK, Job
<1>2. /\ DOMAIN job[r].asked \subseteq Fields
      /\ \A f \in DOMAIN job[r].asked : job[r].asked[f] \in Values \cup {Null}
    BY <1>1, ChangesAre
<1>3. NewRow(r) \in Image /\ DOMAIN NewRow(r) = Fields
    BY <1>2, UpdatesOK DEF NewRow, Image
<1>4. \A f \in Required : NewRow(r)[f] # Null
    BY UpdatesOK DEF NewRow
<1>5. \A f \in DOMAIN job[r].asked : job[r].asked[f] # Null => NewRow(r)[f] = job[r].asked[f]
    BY <1>2 DEF NewRow
<1>. QED BY <1>3, <1>4, <1>5, NothingIs DEF Stored

-----------------------------------------------------------------------------
(* One request.                                                            *)

\* Whatever is said of one request can be unfolded at once.
LEMMA InvAt ==
    ASSUME UpdatesInv, NEW r \in Requests
    PROVE  /\ TypeOK /\ ErrorsExplained /\ Own(r)
           /\ pc \in [Requests -> PCs] /\ job \in [Requests -> Job]
           /\ pc[r] \in PCs /\ job[r] \in Job
           /\ job[r].asked \in Changes /\ job[r].sets \in Changes
           /\ job[r].seen \in RowOrNone /\ job[r].answer \in RowOrNone
           /\ row \in RowOrNone /\ (row # NoRow => row \in Stored)
           /\ (job[r].seen # NoRow => job[r].seen \in Stored)
BY DEF UpdatesInv, TypeOK, Job, RowOrNone

\* The columns to write are among those asked for; that they are none is
\* that nothing is written.
LEMMA DirtyIs ==
    ASSUME UpdatesInv, NEW r \in Requests
    PROVE  /\ Dirty(r) \subseteq DOMAIN job[r].asked /\ DOMAIN job[r].asked \subseteq Fields
           /\ [f \in Dirty(r) |-> job[r].asked[f]] \in Changes
           /\ Dirty(r) = {} => [f \in Dirty(r) |-> job[r].asked[f]] = Nothing
<1>1. /\ DOMAIN job[r].asked \subseteq Fields
      /\ \A f \in DOMAIN job[r].asked : job[r].asked[f] \in Values \cup {Null}
    BY InvAt, ChangesAre
<1>2. Dirty(r) \subseteq DOMAIN job[r].asked
    BY DEF Dirty
<1>3. [f \in Dirty(r) |-> job[r].asked[f]] \in Changes
    <2>. DEFINE x == [f \in Dirty(r) |-> job[r].asked[f]]
    <2>1. DOMAIN x \subseteq Fields /\ x \in [DOMAIN x -> Values \cup {Null}]
        BY <1>1, <1>2
    <2>. HIDE DEF x
    <2>2. x \in Changes
        BY <2>1, ChangesAre
    <2>. QED BY <2>2 DEF x
<1>. QED BY <1>1, <1>2, <1>3, NothingIs

\* What a request sees is a row or none: the committed one if it has written
\* nothing, its own otherwise.
LEMMA VisibleIs ==
    ASSUME UpdatesInv, NEW r \in Requests
    PROVE  /\ Visible(r) \in RowOrNone
           /\ job[r].sets = Nothing => Visible(r) = row
           /\ row # NoRow => Visible(r) # NoRow
           /\ job[r].sets # Nothing
              => /\ pc[r] \in {"refresh", "reply", "close"} /\ job[r].status = "ok"
                 /\ Visible(r) # NoRow
                 /\ \A f \in DOMAIN job[r].sets : Visible(r)[f] = job[r].sets[f]
                 /\ row # NoRow => \A f \in Fields \ DOMAIN job[r].sets : Visible(r)[f] = row[f]
<1>. DEFINE s == job[r].sets
<1>1. CASE s = Nothing
    <2>1. DOMAIN s # Fields
        BY <1>1, NothingIs
    <2>2. Visible(r) = row
        BY <1>1, <2>1, InvAt, OverlayIs DEF Visible
    <2>. QED BY <1>1, <2>2, InvAt
<1>2. CASE s # Nothing
    <2>1. pc[r] \in {"refresh", "reply", "close"} /\ job[r].status = "ok" /\ Written(r)
        BY <1>2, InvAt DEF Own, PCs, IdleJob
    <2>2. CASE job[r].seen = NoRow
        <3>1. s = NewRow(r) /\ row = NoRow /\ DOMAIN s = Fields
            BY <2>1, <2>2, InvAt, NewRowIs DEF Written
        <3>2. Visible(r) = s /\ s \in Stored
            BY <3>1, InvAt, NewRowIs DEF Visible
        <3>. QED BY <1>2, <2>1, <3>1, <3>2, StoredIsRow
    <2>3. CASE job[r].seen # NoRow
        <3>1. row # NoRow /\ row \in Stored
            BY <2>3, InvAt DEF Own
        <3>2. /\ s = [f \in Dirty(r) |-> job[r].asked[f]]
              /\ \A f \in Dirty(r) \cap Required : job[r].asked[f] # Null
            BY <2>1, <2>3 DEF Written
        <3>3. s \in Changes /\ DOMAIN s \subseteq Fields
              /\ \A f \in DOMAIN s \cap Required : s[f] # Null
            BY <3>2, InvAt, ChangesAre
        <3>4. CASE DOMAIN s = Fields
            <4>1. Visible(r) = s
                BY <3>4 DEF Visible
            <4>2. s \in Stored
                BY <3>3, <3>4, ChangesAre, UpdatesOK DEF Stored, Image
            <4>. QED BY <1>2, <2>1, <3>4, <4>1, <4>2, StoredIsRow
        <3>5. CASE DOMAIN s # Fields
            <4>1. Visible(r) = Overlay(row, s)
                BY <3>1, <3>5 DEF Visible
            <4>. QED BY <1>2, <2>1, <3>1, <3>3, <4>1, OverlayIs, StoredIsRow
        <3>. QED BY <3>4, <3>5
    <2>. QED BY <2>2, <2>3
<1>. QED BY <1>1, <1>2

-----------------------------------------------------------------------------
(* A step of r that leaves the committed row and the other requests alone. *)

Same(q) == pc'[q] = pc[q] /\ job'[q] = job[q]

\* Such a step takes r to the label l with the local state j, and no more.
LEMMA StepShape ==
    ASSUME UpdatesInv, NEW r \in Requests, NEW j \in Job, NEW l \in PCs, Step(r, j, l)
    PROVE  /\ TypeOK' /\ row' = row /\ pc'[r] = l /\ job'[r] = j
           /\ \A q \in Requests \ {r} : Same(q)
<1>1. pc' = [pc EXCEPT ![r] = l] /\ job' = [job EXCEPT ![r] = j] /\ row' = row
    BY DEF Step, Goto
<1>. QED BY <1>1, InvAt DEF TypeOK, Same

\* What is said of one request does not depend on the others.
LEMMA SameOwn ==
    ASSUME NEW q \in Requests, Own(q), Same(q), row' = row
    PROVE  Own(q)'
BY DEF Own, Same, Written, NewRow, Dirty, Visible

\* What such a step has to establish: what is said of r, and that nobody
\* else has written when r has.
LEMMA LocalStep ==
    ASSUME UpdatesInv, TypeOK', NEW r \in Requests, row' = row,
           \A q \in Requests \ {r} : Same(q),
           pc'[r] = "idle" \/ Busy(r), job'[r].alone = TRUE => job[r].alone = TRUE,
           Own(r)',
           job'[r].sets # Nothing => \A q \in Requests \ {r} : job[q].sets = Nothing,
           job'[r].status = "error"
           => /\ row # NoRow
              /\ \/ \E f \in Required \cap DOMAIN job'[r].asked : job'[r].asked[f] = Null
                 \/ job'[r].put /\ ~job'[r].alone
    PROVE  UpdatesInv'
<1>1. \A q \in Requests : Own(q)'
    BY SameOwn DEF UpdatesInv
<1>2. ErrorsExplained'
    BY InvAt DEF ErrorsExplained, Same
<1>3. ASSUME NEW p \in Requests, NEW q \in Requests, p # q
      PROVE  Apart(p, q)'
    <2>1. Apart(p, q) /\ Apart(q, p)
        BY <1>3 DEF UpdatesInv
    <2>2. job'[p].sets = Nothing \/ job'[q].sets = Nothing
        BY <1>3, <2>1 DEF Same, Apart
    <2>3. job'[q].alone => job[q].alone
        BY <1>3, ZenonT(20) DEF Same
    <2>4. Busy(p)' => Busy(p)
        BY <1>3 DEF Same, Busy
    <2>. QED BY <2>1, <2>2, <2>3, <2>4 DEF Apart
<1>. QED BY <1>1, <1>2, <1>3 DEF UpdatesInv

\* A slot whose request has ended.
LEMMA IdleIs ==
    /\ IdleJob \in Job /\ IdleJob.asked = Nothing /\ IdleJob.seen = NoRow
    /\ IdleJob.sets = Nothing /\ IdleJob.status = "ok" /\ IdleJob.unmet = {}
    /\ IdleJob.alone = FALSE
BY NothingIs DEF IdleJob, Job, RowOrNone

\* Nothing is asked of it.
LEMMA IdleOwn ==
    ASSUME NEW r \in Requests, pc'[r] = "idle", job'[r] = IdleJob
    PROVE  Own(r)'
BY IdleIs, NothingIs DEF Own

\* What a request had written is gone with it.
LEMMA FailStep ==
    ASSUME UpdatesInv, NEW r \in Requests, Fail(r)
    PROVE  UpdatesInv'
<1>1. /\ TypeOK' /\ row' = row /\ pc'[r] = "idle" /\ job'[r] = IdleJob
      /\ \A q \in Requests \ {r} : Same(q)
    BY IdleIs, StepShape DEF Fail, PCs
<1>. QED BY <1>1, IdleIs, IdleOwn, LocalStep

-----------------------------------------------------------------------------
(* The steps, one by one.                                                  *)

\* Another request's arrival ends being alone, and nothing else.
LEMMA CompanyOwn ==
    ASSUME UpdatesInv, NEW q \in Requests, pc'[q] = pc[q], row' = row,
           job'[q] = [job[q] EXCEPT !.alone = FALSE]
    PROVE  Own(q)'
<1>1. /\ job'[q].put = job[q].put /\ job'[q].asked = job[q].asked /\ job'[q].seen = job[q].seen
      /\ job'[q].sets = job[q].sets /\ job'[q].answer = job[q].answer
      /\ job'[q].status = job[q].status /\ job'[q].unmet = job[q].unmet /\ job'[q].alone = FALSE
    BY InvAt DEF Job
<1>2. pc[q] = "idle" => job'[q] = IdleJob
    <2>1. pc[q] = "idle" => job[q] = IdleJob
        BY InvAt DEF Own
    <2>2. \A j \in Job : j.alone = FALSE => [j EXCEPT !.alone = FALSE] = j
        BY DEF Job
    <2>. QED BY <2>1, <2>2, IdleIs
<1>3. Own(q)
    BY InvAt
<1>4. NewRow(q)' = NewRow(q) /\ Dirty(q)' = Dirty(q) /\ Visible(q)' = Visible(q)
    BY <1>1 DEF NewRow, Dirty, Visible
<1>5. Written(q)' <=> Written(q)
    BY <1>1, <1>4 DEF Written
<1>. QED BY <1>1, <1>2, <1>3, <1>4, <1>5 DEF Own

\* A request that arrives has read nothing; it is alone if it finds nobody.
LEMMA StartStep ==
    ASSUME UpdatesInv, NEW r \in Requests, Patch(r) \/ Put(r)
    PROVE  UpdatesInv'
<1>1. PICK p \in BOOLEAN, l \in {"load", "look"} : Start(r, p, l) /\ (l = "load" => p = TRUE)
    BY DEF Patch, Put
<1>2. PICK ch \in Changes :
        job' = [q \in Requests |->
                  IF q = r
                  THEN [IdleJob EXCEPT !.put = p, !.asked = ch, !.unmet = DOMAIN ch,
                                       !.alone = \A o \in Requests : ~Busy(o)]
                  ELSE [job[q] EXCEPT !.alone = FALSE]]
    BY <1>1 DEF Start
<1>3. pc[r] = "idle" /\ pc' = [pc EXCEPT ![r] = l] /\ row' = row
    BY <1>1 DEF Start, Goto
<1>4. pc'[r] = l /\ \A q \in Requests \ {r} : pc'[q] = pc[q]
    BY <1>3, InvAt
<1>. DEFINE a == \A o \in Requests : ~Busy(o)
            j == [IdleJob EXCEPT !.put = p, !.asked = ch, !.unmet = DOMAIN ch, !.alone = a]
<1>5. /\ job'[r] = j
      /\ \A q \in Requests \ {r} : job'[q] = [job[q] EXCEPT !.alone = FALSE]
    BY <1>2
<1>6. a \in BOOLEAN
    OBVIOUS
<1>7. /\ j.put = p /\ j.asked = ch /\ j.seen = NoRow /\ j.sets = Nothing /\ j.answer = NoRow
      /\ j.status = "ok" /\ j.unmet = DOMAIN ch /\ j.alone = a
    BY DEF IdleJob
<1>8. j \in Job
    <2>1. DOMAIN ch \subseteq Fields
        BY ChangesAre
    <2>. HIDE DEF a
    <2>. QED BY <1>6, <2>1, IdleIs DEF IdleJob, Job
<1>. HIDE DEF j
<1>9. Own(r)'
    BY <1>1, <1>4, <1>5, <1>7 DEF Own
<1>10. \A q \in Requests \ {r} : Own(q)'
    BY <1>3, <1>4, <1>5, CompanyOwn
<1>11. ASSUME NEW q \in Requests \ {r}
       PROVE  /\ job'[q] \in Job /\ job'[q].sets = job[q].sets /\ job'[q].status = job[q].status
              /\ job'[q].asked = job[q].asked /\ job'[q].put = job[q].put /\ job'[q].alone = FALSE
    <2>1. job[q] \in Job /\ job'[q] = [job[q] EXCEPT !.alone = FALSE]
        BY <1>5, InvAt
    <2>. QED BY <2>1 DEF Job
<1>12. TypeOK'
    <2>1. job' \in [Requests -> Job]
        <3>1. \A q \in Requests : job'[q] \in Job
            BY <1>5, <1>8, <1>11
        <3>2. DOMAIN job' = Requests
            BY <1>2
        <3>3. job' = [q \in Requests |-> job'[q]]
            BY <1>2
        <3>. QED BY <3>1, <3>3
    <2>2. pc' \in [Requests -> PCs]
        BY <1>1, <1>3, InvAt DEF PCs
    <2>. QED BY <1>3, <2>1, <2>2, InvAt DEF TypeOK
<1>13. ErrorsExplained'
    <2>1. job'[r].status # "error"
        BY <1>5, <1>7
    <2>2. ASSUME NEW q \in Requests \ {r}, job'[q].status = "error"
          PROVE  /\ row' # NoRow
                 /\ \/ \E f \in Required \cap DOMAIN job'[q].asked : job'[q].asked[f] = Null
                    \/ job'[q].put /\ ~job'[q].alone
        BY <1>3, <1>11, <2>2, InvAt DEF ErrorsExplained
    <2>. QED BY <2>1, <2>2 DEF ErrorsExplained
<1>14. ASSUME NEW q \in Requests, NEW o \in Requests, q # o
       PROVE  Apart(q, o)'
    <2>1. job'[o].sets = Nothing \/ job'[q].sets = Nothing
        <3>1. job'[r].sets = Nothing
            BY <1>5, <1>7
        <3>. QED BY <1>11, <1>14, <3>1 DEF UpdatesInv, Apart
    <2>2. job'[o].alone => ~Busy(q)'
        <3>1. CASE o = r
            BY <1>4, <1>5, <1>7, <1>14, <3>1 DEF Busy
        <3>2. CASE o # r
            BY <1>11, <3>2
        <3>. QED BY <3>1, <3>2
    <2>. QED BY <2>1, <2>2 DEF Apart
<1>. QED BY <1>9, <1>10, <1>12, <1>13, <1>14 DEF UpdatesInv

\* A SELECT of the committed row.
LEMMA FoundIs ==
    ASSUME UpdatesInv, NEW r \in Requests
    PROVE  /\ Found(r) \in Job
           /\ Found(r).put = job[r].put /\ Found(r).asked = job[r].asked
           /\ Found(r).sets = job[r].sets /\ Found(r).answer = job[r].answer
           /\ Found(r).status = job[r].status /\ Found(r).alone = job[r].alone
           /\ Found(r).unmet \subseteq job[r].unmet
           /\ Found(r).seen = IF job[r].seen = NoRow THEN row ELSE job[r].seen
           /\ Found(r).seen # NoRow
              => row # NoRow /\ \A f \in Found(r).unmet : job[r].asked[f] # Found(r).seen[f]
<1>1. /\ Found(r).put = job[r].put /\ Found(r).asked = job[r].asked
      /\ Found(r).sets = job[r].sets /\ Found(r).answer = job[r].answer
      /\ Found(r).status = job[r].status /\ Found(r).alone = job[r].alone
      /\ Found(r).unmet = job[r].unmet \ Met(r, row)
      /\ Found(r).seen = IF job[r].seen = NoRow THEN row ELSE job[r].seen
    BY InvAt DEF Found, Job
<1>2. Found(r) \in Job
    BY InvAt DEF Found, Job
<1>3. job[r].unmet \subseteq DOMAIN job[r].asked
    BY InvAt DEF Own
<1>4. job[r].seen # NoRow => row # NoRow /\ \A f \in job[r].unmet : job[r].asked[f] # job[r].seen[f]
    BY InvAt DEF Own
<1>5. row # NoRow => \A f \in job[r].unmet \ Met(r, row) : job[r].asked[f] # row[f]
    BY <1>3 DEF Met
<1>. QED BY <1>1, <1>2, <1>4, <1>5

\* The row that is loaded with its owner, if there is one.
LEMMA LoadStep ==
    ASSUME UpdatesInv, NEW r \in Requests, Load(r)
    PROVE  UpdatesInv'
<1>1. /\ pc[r] = "load" /\ TypeOK' /\ row' = row /\ pc'[r] = "look" /\ job'[r] = Found(r)
      /\ \A q \in Requests \ {r} : Same(q)
    BY FoundIs, StepShape DEF Load, PCs
<1>2. job[r].status = "ok" /\ job[r].sets = Nothing /\ job[r].unmet \subseteq DOMAIN job[r].asked
    BY <1>1, InvAt DEF Own
<1>3. Own(r)'
    BY <1>1, <1>2, FoundIs DEF Own
<1>. QED BY <1>1, <1>2, <1>3, FoundIs, LocalStep DEF Busy

\* The row is read, missed or, for a PUT, about to be inserted.
LEMMA LookStep ==
    ASSUME UpdatesInv, NEW r \in Requests, Look(r)
    PROVE  UpdatesInv'
<1>1. pc[r] = "look" /\ Busy(r)
    BY DEF Look, Busy
<1>2. job[r].status = "ok" /\ job[r].sets = Nothing /\ job[r].unmet \subseteq DOMAIN job[r].asked
      /\ (row = NoRow => job[r].seen = NoRow)
    BY <1>1, InvAt DEF Own
<1>3. CASE row # NoRow
    <2>1. /\ TypeOK' /\ row' = row /\ pc'[r] = "write" /\ job'[r] = Found(r)
          /\ \A q \in Requests \ {r} : Same(q)
        BY <1>3, FoundIs, StepShape DEF Look, PCs
    <2>2. Own(r)'
        BY <1>2, <1>3, <2>1, FoundIs DEF Own
    <2>. QED BY <1>1, <1>2, <2>1, <2>2, FoundIs, LocalStep
<1>4. CASE row = NoRow /\ job[r].put
    <2>1. /\ TypeOK' /\ row' = row /\ pc'[r] = "insert" /\ job'[r] = job[r]
          /\ \A q \in Requests \ {r} : Same(q)
        BY <1>4, InvAt, StepShape DEF Look, PCs
    <2>2. Own(r)'
        BY <1>2, <1>4, <2>1, InvAt DEF Own
    <2>. QED BY <1>1, <1>2, <2>1, <2>2, LocalStep
<1>5. CASE row = NoRow /\ ~job[r].put
    <2>. DEFINE j == [job[r] EXCEPT !.status = "not found"]
    <2>1. /\ j \in Job /\ j.sets = Nothing /\ j.status = "not found" /\ j.unmet = job[r].unmet
          /\ j.asked = job[r].asked /\ j.seen = NoRow /\ j.alone = job[r].alone
        BY <1>2, <1>5, InvAt DEF Job
    <2>2. Step(r, j, "reply")
        BY <1>1, <1>5 DEF Look
    <2>. HIDE DEF j
    <2>3. /\ TypeOK' /\ row' = row /\ pc'[r] = "reply" /\ job'[r] = j
          /\ \A q \in Requests \ {r} : Same(q)
        BY <2>1, <2>2, StepShape DEF PCs
    <2>4. Own(r)'
        BY <1>2, <2>1, <2>3 DEF Own
    <2>. QED BY <1>1, <2>1, <2>3, <2>4, LocalStep
<1>. QED BY <1>3, <1>4, <1>5

\* What an uncaught database error leaves of a request.
LEMMA AbortStep ==
    ASSUME UpdatesInv, NEW r \in Requests, pc[r] \in {"write", "insert"}, Abort(r), row # NoRow,
           \/ \E f \in Required \cap DOMAIN job[r].asked : job[r].asked[f] = Null
           \/ job[r].put /\ ~job[r].alone
    PROVE  UpdatesInv'
<1>. DEFINE j == [job[r] EXCEPT !.sets = Nothing, !.status = "error"]
<1>1. /\ j \in Job /\ j.sets = Nothing /\ j.status = "error" /\ j.unmet = job[r].unmet
      /\ j.asked = job[r].asked /\ j.seen = job[r].seen /\ j.alone = job[r].alone
      /\ j.put = job[r].put
    BY InvAt, NothingIs DEF Job
<1>2. Step(r, j, "close")
    BY DEF Abort
<1>. HIDE DEF j
<1>3. /\ TypeOK' /\ row' = row /\ pc'[r] = "close" /\ job'[r] = j
      /\ \A q \in Requests \ {r} : Same(q)
    BY <1>1, <1>2, StepShape DEF PCs
<1>4. Own(r)'
    BY <1>1, <1>3, InvAt DEF Own
<1>. QED BY <1>1, <1>3, <1>4, LocalStep DEF Busy

\* A statement that has had to wait for nobody else's writes the changes w.
LEMMA WriteShape ==
    ASSUME UpdatesInv, NEW r \in Requests, pc[r] \in {"write", "insert"}, NEW w \in Changes,
           Step(r, [job[r] EXCEPT !.sets = w], "refresh"), w = Nothing \/ ~Blocked(r),
           IF job[r].seen = NoRow
           THEN row = NoRow /\ w = NewRow(r)
           ELSE /\ w = [f \in Dirty(r) |-> job[r].asked[f]]
                /\ \A f \in Dirty(r) \cap Required : job[r].asked[f] # Null
    PROVE  UpdatesInv'
<1>. DEFINE j == [job[r] EXCEPT !.sets = w]
<1>1. /\ j \in Job /\ j.sets = w /\ j.status = job[r].status /\ j.unmet = job[r].unmet
      /\ j.asked = job[r].asked /\ j.seen = job[r].seen /\ j.alone = job[r].alone
      /\ j.put = job[r].put
    BY InvAt DEF Job
<1>. HIDE DEF j
<1>2. /\ TypeOK' /\ row' = row /\ pc'[r] = "refresh" /\ job'[r] = j
      /\ \A q \in Requests \ {r} : Same(q)
    BY <1>1, StepShape DEF PCs, j
<1>3. NewRow(r)' = NewRow(r) /\ Dirty(r)' = Dirty(r)
    BY <1>1, <1>2 DEF NewRow, Dirty
<1>4. Written(r)'
    BY <1>1, <1>2, <1>3 DEF Written
<1>5. job[r].status = "ok"
    BY InvAt DEF Own
<1>6. Own(r)'
    BY <1>1, <1>2, <1>4, <1>5, InvAt DEF Own
<1>7. w # Nothing => \A q \in Requests \ {r} : job[q].sets = Nothing
    BY DEF Blocked
<1>. QED BY <1>1, <1>2, <1>5, <1>6, <1>7, LocalStep DEF Busy

\* UPDATE of the columns that differ.
LEMMA WriteStep ==
    ASSUME UpdatesInv, NEW r \in Requests, Write(r)
    PROVE  UpdatesInv'
<1>. DEFINE w == [f \in Dirty(r) |-> job[r].asked[f]]
<1>1. /\ pc[r] = "write"
      /\ Dirty(r) = {} \/ ~Blocked(r)
      /\ job[r].seen # NoRow /\ row # NoRow
    BY InvAt DEF Write, Own
<1>2. CASE \E f \in Dirty(r) \cap Required : job[r].asked[f] = Null
    <2>1. Abort(r)
        BY <1>2 DEF Write
    <2>2. \E f \in Required \cap DOMAIN job[r].asked : job[r].asked[f] = Null
        BY <1>2, DirtyIs
    <2>. QED BY <1>1, <2>1, <2>2, AbortStep DEF Write
<1>3. CASE ~\E f \in Dirty(r) \cap Required : job[r].asked[f] = Null
    <2>1. w \in Changes /\ (Dirty(r) = {} => w = Nothing)
        BY DirtyIs
    <2>2. Step(r, [job[r] EXCEPT !.sets = w], "refresh") /\ pc[r] = "write"
        BY <1>3 DEF Write
    <2>3. \A f \in Dirty(r) \cap Required : job[r].asked[f] # Null
        BY <1>3
    <2>4. PICK v \in Changes : v = w
        BY <2>1
    <2>. HIDE DEF w
    <2>5. IF job[r].seen = NoRow
          THEN row = NoRow /\ v = NewRow(r)
          ELSE /\ v = [f \in Dirty(r) |-> job[r].asked[f]]
               /\ \A f \in Dirty(r) \cap Required : job[r].asked[f] # Null
        BY <1>1, <2>3, <2>4 DEF w
    <2>6. v = Nothing \/ ~Blocked(r)
        BY <1>1, <2>1, <2>4
    <2>7. Step(r, [job[r] EXCEPT !.sets = v], "refresh")
        BY <2>2, <2>4
    <2>. QED BY <2>2, <2>5, <2>6, <2>7, WriteShape
<1>. QED BY <1>2, <1>3

\* INSERT of the row, unless another PUT has been faster.
LEMMA InsertStep ==
    ASSUME UpdatesInv, NEW r \in Requests, Insert(r)
    PROVE  UpdatesInv'
<1>1. /\ pc[r] = "insert" /\ ~Blocked(r) /\ job[r].seen = NoRow /\ job[r].put
      /\ job[r].alone => row = NoRow
    BY InvAt DEF Insert, Own
<1>2. CASE row # NoRow
    BY <1>1, <1>2, AbortStep DEF Insert
<1>3. CASE row = NoRow
    <2>1. NewRow(r) \in Changes
        BY InvAt, NewRowIs, StoredIsRow
    <2>2. Step(r, [job[r] EXCEPT !.sets = NewRow(r)], "refresh")
        BY <1>3 DEF Insert
    <2>. QED BY <1>1, <1>3, <2>1, <2>2, WriteShape
<1>. QED BY <1>2, <1>3

\* The row is read back as the COMMIT will leave it.
LEMMA RefreshStep ==
    ASSUME UpdatesInv, NEW r \in Requests, Refresh(r)
    PROVE  UpdatesInv'
<1>. DEFINE j == [job[r] EXCEPT !.answer = Visible(r)]
<1>1. /\ j \in Job /\ j.answer = Visible(r) /\ j.sets = job[r].sets /\ j.status = job[r].status
      /\ j.unmet = job[r].unmet /\ j.asked = job[r].asked /\ j.seen = job[r].seen
      /\ j.alone = job[r].alone /\ j.put = job[r].put
    BY InvAt, VisibleIs DEF Job
<1>2. pc[r] = "refresh" /\ Step(r, j, "reply")
    BY DEF Refresh
<1>. HIDE DEF j
<1>3. /\ TypeOK' /\ row' = row /\ pc'[r] = "reply" /\ job'[r] = j
      /\ \A q \in Requests \ {r} : Same(q)
    BY <1>1, <1>2, StepShape DEF PCs
<1>4. NewRow(r)' = NewRow(r) /\ Dirty(r)' = Dirty(r) /\ Visible(r)' = Visible(r)
    BY <1>1, <1>3 DEF NewRow, Dirty, Visible
<1>5. job[r].status = "ok" /\ Written(r)
    BY <1>2, InvAt DEF Own
<1>6. Written(r)'
    BY <1>1, <1>3, <1>4, <1>5 DEF Written
<1>7. Own(r)'
    BY <1>1, <1>3, <1>4, <1>5, <1>6, InvAt DEF Own
<1>8. job[r].sets # Nothing => \A q \in Requests \ {r} : job[q].sets = Nothing
    BY DEF UpdatesInv, Apart
<1>. QED BY <1>1, <1>2, <1>3, <1>5, <1>7, <1>8, LocalStep DEF Busy

\* The answer leaves; the transaction is still open.
LEMMA ReplyStep ==
    ASSUME UpdatesInv, NEW r \in Requests, Reply(r)
    PROVE  UpdatesInv'
<1>1. /\ pc[r] = "reply" /\ TypeOK' /\ row' = row /\ pc'[r] = "close" /\ job'[r] = job[r]
      /\ \A q \in Requests \ {r} : Same(q)
    BY InvAt, StepShape DEF Reply, PCs
<1>2. NewRow(r)' = NewRow(r) /\ Dirty(r)' = Dirty(r) /\ Visible(r)' = Visible(r)
    BY <1>1 DEF NewRow, Dirty, Visible
<1>3. Written(r)' <=> Written(r)
    BY <1>1, <1>2 DEF Written
<1>4. Own(r)'
    BY <1>1, <1>2, <1>3, InvAt DEF Own
<1>5. job[r].sets # Nothing => \A q \in Requests \ {r} : job[q].sets = Nothing
    BY DEF UpdatesInv, Apart
<1>. QED BY <1>1, <1>4, <1>5, InvAt, LocalStep DEF Busy, ErrorsExplained

\* Whatever another request commits, a request that has written holds the row
\* and has it as it was; any other goes by its copy.
LEMMA CommitOwn ==
    ASSUME UpdatesInv, NEW r \in Requests, NEW q \in Requests \ {r}, pc[r] = "close",
           pc'[q] = pc[q], row' = Visible(r),
           job'[q] = [job[q] EXCEPT !.unmet = @ \ Met(q, Visible(r))]
    PROVE  Own(q)'
<1>1. /\ job'[q].put = job[q].put /\ job'[q].asked = job[q].asked /\ job'[q].seen = job[q].seen
      /\ job'[q].sets = job[q].sets /\ job'[q].answer = job[q].answer
      /\ job'[q].status = job[q].status /\ job'[q].unmet \subseteq job[q].unmet
      /\ job'[q].alone = job[q].alone
    BY InvAt DEF Job
<1>2. Own(q) /\ job[q] \in Job
    BY InvAt
<1>3. pc[q] = "idle" => job'[q] = IdleJob
    <2>1. pc[q] = "idle" => job[q] = IdleJob
        BY <1>2 DEF Own
    <2>2. \A j \in Job : j.unmet = {} => [j EXCEPT !.unmet = @ \ Met(q, Visible(r))] = j
        BY DEF Job
    <2>. QED BY <2>1, <2>2, IdleIs
<1>4. row # NoRow => row' # NoRow
    BY VisibleIs
<1>5. job[q].sets # Nothing => row' = row
    BY VisibleIs DEF UpdatesInv, Apart
<1>6. ~job[q].alone
    BY DEF UpdatesInv, Apart, Busy
<1>7. NewRow(q)' = NewRow(q) /\ Dirty(q)' = Dirty(q)
    BY <1>1 DEF NewRow, Dirty
<1>8. Written(q) => Written(q)'
    <2>1. NewRow(q) # Nothing
        BY InvAt, NewRowIs
    <2>. QED BY <1>1, <1>5, <1>7, <2>1 DEF Written
<1>9. job[q].sets # Nothing => Visible(q)' = Visible(q)
    BY <1>1, <1>5 DEF Visible
<1>. QED BY <1>1, <1>2, <1>3, <1>4, <1>6, <1>8, <1>9 DEF Own

\* The COMMIT makes the row what the request sees.
LEMMA CloseStep ==
    ASSUME UpdatesInv, NEW r \in Requests, Close(r)
    PROVE  UpdatesInv'
<1>1. /\ pc[r] = "close" /\ pc' = [pc EXCEPT ![r] = "idle"] /\ row' = Visible(r)
      /\ job' = [q \in Requests |-> IF q = r THEN IdleJob
                                    ELSE [job[q] EXCEPT !.unmet = @ \ Met(q, Visible(r))]]
    BY DEF Close, Goto
<1>2. /\ pc'[r] = "idle" /\ job'[r] = IdleJob
      /\ \A q \in Requests \ {r} :
           pc'[q] = pc[q] /\ job'[q] = [job[q] EXCEPT !.unmet = @ \ Met(q, Visible(r))]
    BY <1>1, InvAt
<1>3. ASSUME NEW q \in Requests \ {r}
      PROVE  /\ job'[q] \in Job /\ job'[q].sets = job[q].sets /\ job'[q].status = job[q].status
             /\ job'[q].asked = job[q].asked /\ job'[q].put = job[q].put
             /\ job'[q].alone = job[q].alone /\ pc'[q] = pc[q]
    <2>1. job[q] \in Job /\ job'[q] = [job[q] EXCEPT !.unmet = @ \ Met(q, Visible(r))]
        BY <1>2, InvAt
    <2>. QED BY <1>2, <2>1 DEF Job
<1>4. TypeOK'
    <2>1. job' \in [Requests -> Job]
        <3>1. \A q \in Requests : job'[q] \in Job
            BY <1>2, <1>3, IdleIs
        <3>2. job' = [q \in Requests |-> job'[q]]
            BY <1>1
        <3>. QED BY <3>1, <3>2
    <2>2. pc' \in [Requests -> PCs]
        BY <1>1, InvAt DEF PCs
    <2>. QED BY <1>1, <2>1, <2>2, VisibleIs DEF TypeOK
<1>5. ErrorsExplained'
    <2>1. job'[r].status # "error"
        BY <1>2, IdleIs
    <2>2. ASSUME NEW q \in Requests \ {r}, job'[q].status = "error"
          PROVE  /\ row' # NoRow
                 /\ \/ \E f \in Required \cap DOMAIN job'[q].asked : job'[q].asked[f] = Null
                    \/ job'[q].put /\ ~job'[q].alone
        BY <1>1, <1>3, <2>2, InvAt, VisibleIs DEF ErrorsExplained
    <2>. QED BY <2>1, <2>2 DEF ErrorsExplained
<1>6. \A q \in Requests : Own(q)'
    BY <1>1, <1>2, IdleOwn, CommitOwn
<1>7. ASSUME NEW q \in Requests, NEW o \in Requests, q # o
      PROVE  Apart(q, o)'
    <2>1. Apart(q, o) /\ Apart(o, q)
        BY <1>7 DEF UpdatesInv
    <2>2. job'[r].sets = Nothing /\ job'[r].alone = FALSE /\ ~Busy(r)'
        BY <1>2, IdleIs DEF Busy
    <2>3. job'[o].sets = Nothing \/ job'[q].sets = Nothing
        BY <1>3, <2>1, <2>2 DEF Apart
    <2>4. job'[o].alone => ~Busy(q)'
        <3>1. CASE q = r \/ o = r
            BY <2>2, <3>1
        <3>2. CASE q # r /\ o # r
            BY <1>3, <2>1, <3>2 DEF Apart, Busy
        <3>. QED BY <3>1, <3>2
    <2>. QED BY <2>3, <2>4 DEF Apart
<1>. QED BY <1>4, <1>5, <1>6, <1>7 DEF UpdatesInv

-----------------------------------------------------------------------------
(* The invariant and what follows from it.                                 *)

\* At the start nobody is served; there may be a row already.
LEMMA UpdatesInit == Init => UpdatesInv
<1>. SUFFICES ASSUME Init
              PROVE  UpdatesInv
    OBVIOUS
<1>1. row \in RowOrNone /\ \A r \in Requests : pc[r] = "idle" /\ job[r] = IdleJob
    BY DEF Init
<1>2. TypeOK
    BY IdleIs DEF Init, TypeOK, PCs
<1>3. \A r \in Requests : Own(r)
    BY <1>1, IdleIs, NothingIs DEF Own
<1>. QED BY <1>1, <1>2, <1>3, IdleIs DEF UpdatesInv, ErrorsExplained, Apart, Busy

\* Every step keeps the invariant.
LEMMA UpdatesNext == UpdatesInv /\ [Next]_vars => UpdatesInv'
<1>. SUFFICES ASSUME UpdatesInv, [Next]_vars
              PROVE  UpdatesInv'
    OBVIOUS
<1>1. CASE UNCHANGED vars
    <2>1. /\ row' = row /\ pc' = pc /\ job' = job
        BY <1>1 DEF vars
    <2>2. \A q \in Requests : Own(q)'
        BY <2>1, SameOwn DEF UpdatesInv, Same
    <2>3. TypeOK' /\ ErrorsExplained'
        BY <2>1 DEF UpdatesInv, TypeOK, ErrorsExplained
    <2>4. \A p, q \in Requests : p # q => Apart(p, q)'
        BY <2>1 DEF UpdatesInv, Apart, Busy
    <2>. QED BY <2>2, <2>3, <2>4 DEF UpdatesInv
<1>2. ASSUME NEW r \in Requests, Patch(r) \/ Put(r) \/ Fail(r)
      PROVE  UpdatesInv'
    BY <1>2, StartStep, FailStep
<1>3. ASSUME NEW r \in Requests, Handle(r)
      PROVE  UpdatesInv'
    BY <1>3, LoadStep, LookStep, WriteStep, InsertStep, RefreshStep, ReplyStep, CloseStep
    DEF Handle
<1>. QED BY <1>1, <1>2, <1>3 DEF Next

\* In every reachable state each request's copy of the row, and what it has
\* written from it, are worth what its place in the handler says.
THEOREM UpdatesInvariant == Spec => []UpdatesInv
BY UpdatesInit, UpdatesNext, PTL DEF Spec

\* The row and the requests always have their types: no column that is NOT
\* NULL is ever committed as NULL.
THEOREM UpdatesTypeOK == Spec => []TypeOK
<1>1. UpdatesInv => TypeOK
    BY DEF UpdatesInv
<1>. QED BY <1>1, UpdatesInvariant, PTL

\* A 500 comes of a null for a NOT NULL column or of two PUTs racing.
THEOREM UpdateErrorsExplained == Spec => []ErrorsExplained
<1>1. UpdatesInv => ErrorsExplained
    BY DEF UpdatesInv
<1>. QED BY <1>1, UpdatesInvariant, PTL

\* What a request that succeeds has written holds the columns it asked for
\* that have not had their value since it looked.
LEMMA WrittenIs ==
    ASSUME UpdatesInv, NEW r \in Requests, pc[r] = "close"
    PROVE  /\ row # NoRow => DOMAIN job[r].sets \subseteq DOMAIN job[r].asked
           /\ job[r].status = "ok"
              => \A f \in job[r].unmet :
                   /\ f \in DOMAIN job[r].sets
                   /\ job[r].sets[f] = job[r].asked[f] \/ (row = NoRow /\ job[r].asked[f] = Null)
<1>1. /\ job[r].unmet \subseteq DOMAIN job[r].asked /\ DOMAIN job[r].asked \subseteq Fields
      /\ job[r].status = "ok" => Written(r)
      /\ job[r].status # "ok" => job[r].sets = Nothing
      /\ job[r].seen # NoRow => \A f \in job[r].unmet : job[r].asked[f] # job[r].seen[f]
    BY InvAt, DirtyIs DEF Own
<1>2. CASE job[r].status # "ok"
    BY <1>1, <1>2, NothingIs
<1>3. CASE job[r].status = "ok" /\ job[r].seen = NoRow
    <2>1. row = NoRow /\ job[r].sets = NewRow(r)
        BY <1>1, <1>3 DEF Written
    <2>. QED BY <1>1, <2>1, InvAt, NewRowIs
<1>4. CASE job[r].status = "ok" /\ job[r].seen # NoRow
    <2>1. job[r].sets = [f \in Dirty(r) |-> job[r].asked[f]]
        BY <1>1, <1>4 DEF Written
    <2>2. job[r].unmet \subseteq Dirty(r)
        BY <1>1, <1>4 DEF Dirty
    <2>. QED BY <2>1, <2>2, DirtyIs
<1>. QED BY <1>2, <1>3, <1>4

\* A request changes no column its body does not set, however stale the copy
\* of the row it works from.
THEOREM OthersFieldsAreKept == Spec => OnlyAskedFieldsChange
<1>1. UpdatesInv
      => \A r \in Requests :
            Close(r) /\ row # NoRow =>
            \A f \in Fields \ DOMAIN job[r].asked : row'[f] = row[f]
    <2>. SUFFICES ASSUME UpdatesInv, NEW r \in Requests, Close(r), row # NoRow,
                         NEW f \in Fields \ DOMAIN job[r].asked
                  PROVE  row'[f] = row[f]
        OBVIOUS
    <2>1. pc[r] = "close" /\ row' = Visible(r)
        BY DEF Close
    <2>2. f \notin DOMAIN job[r].sets
        BY <2>1, WrittenIs
    <2>. QED BY <2>1, <2>2, VisibleIs
<1>. QED BY <1>1, UpdatesInvariant, PTL DEF OnlyAskedFieldsChange

\* Every value a successful request asked for has been committed since it
\* looked at the row, by itself or by another.
THEOREM AskedValuesAreCommitted == Spec => AskedValuesHeld
<1>1. UpdatesInv
      => \A r \in Requests :
            Close(r) /\ job[r].status = "ok" =>
            \A f \in job[r].unmet :
               \/ row'[f] = job[r].asked[f]
               \/ row = NoRow /\ job[r].asked[f] = Null
    <2>. SUFFICES ASSUME UpdatesInv, NEW r \in Requests, Close(r), job[r].status = "ok",
                         NEW f \in job[r].unmet
                  PROVE  row'[f] = job[r].asked[f] \/ (row = NoRow /\ job[r].asked[f] = Null)
        OBVIOUS
    <2>1. pc[r] = "close" /\ row' = Visible(r)
        BY DEF Close
    <2>2. /\ f \in DOMAIN job[r].sets
          /\ job[r].sets[f] = job[r].asked[f] \/ (row = NoRow /\ job[r].asked[f] = Null)
        BY <2>1, WrittenIs
    <2>3. job[r].sets # Nothing
        BY <2>2, NothingIs
    <2>. QED BY <2>1, <2>2, <2>3, VisibleIs
<1>. QED BY <1>1, UpdatesInvariant, PTL DEF AskedValuesHeld

\* The answer to a request that has written is the row it commits.
THEOREM AnswersAreCommitted == Spec => AnswerIsCommitted
<1>1. UpdatesInv
      => \A r \in Requests :
            Close(r) /\ job[r].sets # Nothing => row' = job[r].answer
    BY InvAt DEF Own, Close
<1>. QED BY <1>1, UpdatesInvariant, PTL DEF AnswerIsCommitted
=============================================================================

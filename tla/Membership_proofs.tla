------------------------- MODULE Membership_proofs -------------------------
(***************************************************************************)
(* Proofs about Membership, for any numbers of requests, ids, invites and  *)
(* emails.                                                                 *)
(*                                                                         *)
(* The invariant has a part about the committed rows (Rows), a part about  *)
(* each request (Own: which statements it can have executed where it is,   *)
(* what it names, what it has found and what its uncommitted writes hold   *)
(* fast) and a part about each two of them (Apart: what the locks, the     *)
(* unique key and the fresh ids keep them from both having done).          *)
(***************************************************************************)
EXTENDS Membership, TLAPS

Writes == {"family", "accept", "member", "token", "invite", "delete member", "delete invite"}

\* The id of the request is that of the member it creates.
Drawn(r) == job[r].op \in {"signup", "create"}

\* The request has found its invite active.
Redeeming(r) == pc[r] = "accept" \/ Wrote(r, "accept")

\* The operation, the label and the statements executed fit each other.
Shape(r) ==
    LET o == job[r].op
        i == job[r].code
        l == pc[r]
        w == job[r].wrote
    IN  /\ l = "idle" => o = "none"
        /\ l \in {"check email", "add member"} => o \in {"signup", "create"}
        /\ l \in {"find invite", "accept"} => o = "signup" /\ i # NoInvite
        /\ l = "add family" => o = "signup" /\ i = NoInvite
        /\ l = "find login" => o = "login"
        /\ l = "add token" => o = "login" \/ (o = "signup" /\ "member" \in w)
        /\ l = "add invite" => o = "issue"
        /\ l \in {"find member", "delete member"} => o = "delete"
        /\ l \in {"find own invite", "delete invite"} => o = "revoke"
        /\ l = "add member" /\ o = "signup" => "family" \in w \/ "accept" \in w
        /\ l \notin {"add member", "add token", "reply", "close"} => w = {}
        /\ "family" \in w => o = "signup" /\ i = NoInvite /\ (l = "add member" \/ "member" \in w)
        /\ "accept" \in w => o = "signup" /\ i # NoInvite /\ (l = "add member" \/ "member" \in w)
        /\ "member" \in w
           => /\ o \in {"signup", "create"} /\ l \in {"add token", "reply", "close"}
              /\ o = "signup" => "family" \in w \/ "accept" \in w
              /\ o = "signup" => l = "add token" \/ "token" \in w
        /\ "token" \in w => o = "login" \/ (o = "signup" /\ "member" \in w)
        /\ "invite" \in w => o = "issue"
        /\ "delete member" \in w => o = "delete"
        /\ "delete invite" \in w => o = "revoke"
        /\ l = "reply" /\ job[r].status = "ok" /\ o \in {"signup", "login"} => "token" \in w
        /\ job[r].status # "ok" => l \in {"reply", "close"} /\ w = {}

\* What a request names: ids of the kind its operation is about, an access
\* token's own pair of ids, an invite that somebody was given.
Names(r) ==
    LET o == job[r].op
        i == job[r].code
    IN  /\ o \in {"signup", "create", "issue", "delete"} => job[r].id \in Ids
        /\ o \in {"create", "issue", "delete", "revoke"} => job[r].family \in Ids
        /\ o = "login" /\ (pc[r] = "add token" \/ Wrote(r, "token"))
           => job[r].id \in Ids /\ job[r].family \in Ids
        /\ o \in {"issue", "revoke"} => i \in Invites
        /\ o \notin {"signup", "issue", "revoke"} => i = NoInvite
        /\ o \in {"signup", "revoke"} /\ i # NoInvite => invite[i] # NoRow
        /\ o = "issue" => invite[i] = NoRow /\ <<job[r].id, job[r].family>> \in claims
        /\ o = "none" => job[r].id = NoId

\* What a request has found is as it was found, or gone.
Found(r) ==
    LET m == job[r].id
    IN  /\ pc[r] = "delete member" \/ Wrote(r, "delete member")
           => (IsMember(m) => ~member[m].primary)
        /\ job[r].op = "login" => (IsMember(m) => member[m].family = job[r].family)
        /\ Redeeming(r)
           => /\ job[r].family = invite[job[r].code].family
              /\ \A n \in Ids : Joined(n, job[r].code) => member[n].slot # r
        /\ Drawn(r)
           => /\ ~IsMember(m) /\ m \notin families
              /\ \A c \in claims : c[1] = m => c[2] = job[r].family /\ pc[r] = "close"

\* What a request has written, or refers to, nobody takes away before its
\* COMMIT; what it inserts is not there yet.
Locked(r) ==
    LET m == job[r].id
        i == job[r].code
    IN  /\ Wrote(r, "family") => job[r].family = m
        /\ Wrote(r, "member") => ~EmailTaken(job[r].email) /\ FamilyExists(r)
        /\ Wrote(r, "delete member") => IsMember(m) /\ ~Referred(m)
        /\ Wrote(r, "token") /\ job[r].op = "login" => IsMember(m)
        /\ Wrote(r, "invite") => IsMember(m)
        /\ Wrote(r, "accept") \/ Wrote(r, "delete invite") => IsInvite(i)

\* What two requests cannot both have done.
Apart(q, r) ==
    /\ Wrote(q, "member") /\ Wrote(r, "member") /\ job[q].email = job[r].email
       => job[q].email = NoEmail
    /\ Drawn(q) /\ job[q].id = job[r].id
       => job[r].op \in {"issue", "delete"} /\ job[r].wrote = {} /\ pc[r] # "delete member"
    /\ Wrote(q, "token") \/ Wrote(q, "invite") \/ Wrote(q, "delete member")
       => ~(Wrote(r, "delete member") /\ job[q].id = job[r].id)
    /\ Wrote(q, "accept") \/ Wrote(q, "delete invite")
       => ~((Wrote(r, "accept") \/ Wrote(r, "delete invite")) /\ job[q].code = job[r].code)
    /\ job[q].op = "issue" => job[q].code # job[r].code

\* The committed rows, with the access tokens clients hold.
Rows ==
    /\ \A f \in families : IsMember(f) /\ member[f].primary /\ member[f].family = f
    /\ \A m \in Ids : IsMember(m) =>
         /\ member[m].family \in families
         /\ member[m].primary => member[m].family = m
         /\ LET i == member[m].via
            IN  i # NoInvite
                => m \in tokens /\ i \in accepted /\ invite[i].family = member[m].family
    /\ \A i \in accepted : invite[i] # NoRow /\ \E m \in Ids : Joined(m, i)
    /\ \A i \in deleted : invite[i] # NoRow
    /\ \A i \in Invites : invite[i] # NoRow => <<invite[i].creator, invite[i].family>> \in claims
    /\ \A c \in claims : IsMember(c[1]) => member[c[1]].family = c[2]

Own(r) == Shape(r) /\ Names(r) /\ Found(r) /\ Locked(r)

MembershipInv ==
    /\ TypeOK
    /\ Rows /\ EmailUnique /\ SharedInviteIsConcurrent /\ NoDanglingReference
    /\ \A r \in Requests : Own(r)
    /\ \A q, r \in Requests : q # r => Apart(q, r)

-----------------------------------------------------------------------------
(* A statement of r that leaves the committed rows and the access tokens   *)
(* alone disturbs what is said of r, and of r with another request, only.  *)

\* Whatever is said of one request can be unfolded at once.
LEMMA InvAt ==
    ASSUME MembershipInv, NEW r \in Requests
    PROVE  /\ TypeOK /\ Rows /\ EmailUnique /\ SharedInviteIsConcurrent /\ NoDanglingReference
           /\ Shape(r) /\ Names(r) /\ Found(r) /\ Locked(r)
           /\ pc[r] \in PCs /\ job[r] \in Job
           /\ pc \in [Requests -> PCs] /\ job \in [Requests -> Job]
BY DEF MembershipInv, Own, TypeOK

\* Another request is left as it is.
Same(q) == pc'[q] = pc[q] /\ job'[q] = job[q]
Only(r) == \A q \in Requests \ {r} : Same(q)
Kept == UNCHANGED <<DB, claims>>

\* With the tables, what can be asked of them is kept.
LEMMA KeptRows ==
    ASSUME Kept
    PROVE  /\ \A m : IsMember(m)' = IsMember(m) /\ Referred(m)' = Referred(m)
           /\ \A i : IsInvite(i)' = IsInvite(i)
           /\ \A m, i : Joined(m, i)' = Joined(m, i)
           /\ \A e : EmailTaken(e)' = EmailTaken(e)
           /\ member' = member /\ invite' = invite /\ families' = families /\ claims' = claims
BY DEF Kept, DB, IsMember, Referred, IsInvite, Joined, EmailTaken, HasEmail

\* What is said of one request does not depend on the others.
LEMMA SameOwn ==
    ASSUME NEW q \in Requests, Own(q), Same(q), Kept
    PROVE  Own(q)'
<1>. USE DEF Same, DB, Wrote, Kept
<1>1. Shape(q)'
    BY DEF Own, Shape
<1>2. Names(q)'
    BY DEF Own, Names
<1>3. Found(q)'
    BY DEF Own, Found, IsMember, Redeeming, Joined, Drawn
<1>4. Locked(q)'
    BY DEF Own, Locked, EmailTaken, HasEmail, IsMember, FamilyExists, Referred, IsInvite
<1>. QED BY <1>1, <1>2, <1>3, <1>4 DEF Own

\* Nor does what is said of two requests depend on the tables.
LEMMA SameApart ==
    ASSUME NEW p \in Requests, NEW q \in Requests, Apart(p, q), Same(p), Same(q)
    PROVE  Apart(p, q)'
BY DEF Same, Apart, Wrote, Drawn

\* The rows, and what follows from them, are those of the tables alone.
LEMMA SameRows ==
    ASSUME Rows, EmailUnique, SharedInviteIsConcurrent, NoDanglingReference, Kept
    PROVE  Rows' /\ EmailUnique' /\ SharedInviteIsConcurrent' /\ NoDanglingReference'
<1>. USE DEF Kept, DB, IsMember, IsInvite
<1>1. Rows'
    BY DEF Rows, Joined
<1>2. EmailUnique' /\ SharedInviteIsConcurrent' /\ NoDanglingReference'
    BY DEF EmailUnique, HasEmail, SharedInviteIsConcurrent, NoDanglingReference
<1>. QED BY <1>1, <1>2

\* So such a statement has three things to preserve: what is said of r, and
\* of r with another, each way.
LEMMA LocalStep ==
    ASSUME MembershipInv, TypeOK', NEW r \in Requests, Only(r), Kept, Own(r)',
           \A q \in Requests \ {r} : Apart(q, r)' /\ Apart(r, q)'
    PROVE  MembershipInv'
<1>1. Rows' /\ EmailUnique' /\ SharedInviteIsConcurrent' /\ NoDanglingReference'
    BY SameRows DEF MembershipInv
<1>2. ASSUME NEW q \in Requests
      PROVE  Own(q)'
    BY SameOwn DEF MembershipInv, Only
<1>3. ASSUME NEW p \in Requests, NEW q \in Requests, p # q
      PROVE  Apart(p, q)'
    <2>1. CASE p = r \/ q = r
        BY <1>3, <2>1
    <2>2. CASE p # r /\ q # r
        BY <1>3, <2>2, SameApart DEF MembershipInv, Only
    <2>. QED BY <2>1, <2>2
<1>. QED BY <1>1, <1>2, <1>3 DEF MembershipInv

\* A statement that takes r to the label l with the local state j.
LEMMA ReadShape ==
    ASSUME MembershipInv, NEW r \in Requests, NEW j \in Job, NEW l \in PCs, Read(r, j, l)
    PROVE  TypeOK' /\ Only(r) /\ Kept /\ pc'[r] = l /\ job'[r] = j
<1>1. pc \in [Requests -> PCs] /\ job \in [Requests -> Job] /\ TypeOK
    BY InvAt
<1>2. /\ pc' = [pc EXCEPT ![r] = l] /\ job' = [job EXCEPT ![r] = j]
      /\ UNCHANGED <<DB, claims, lapsed>>
    BY DEF Read, Goto
<1>3. pc'[r] = l /\ job'[r] = j /\ Only(r)
    BY <1>1, <1>2 DEF Only, Same
<1>4. TypeOK'
    BY <1>1, <1>2 DEF TypeOK, DB
<1>. QED BY <1>2, <1>3, <1>4 DEF Kept

\* The state a slot returns to is one it may be in.
LEMMA IdleType == IdleJob \in Job
BY DEF IdleJob, Job

\* A slot whose request has ended is in nobody's way.
LEMMA IdleRequest ==
    ASSUME NEW r \in Requests, pc'[r] = "idle", job'[r] = IdleJob
    PROVE  Own(r)'
<1>1. /\ job'[r].op = "none" /\ job'[r].wrote = {} /\ job'[r].status = "ok"
      /\ job'[r].id = NoId /\ job'[r].code = NoInvite
    BY DEF IdleJob
<1>2. Shape(r)' /\ Names(r)'
    BY <1>1 DEF Shape, Names, Wrote
<1>3. Found(r)' /\ Locked(r)'
    BY <1>1 DEF Found, Locked, Wrote, Redeeming, Drawn
<1>. QED BY <1>2, <1>3 DEF Own

\* It names no id and no invite, so it shares none with another.
LEMMA IdleApart ==
    ASSUME NEW r \in Requests, pc'[r] = "idle", job'[r] = IdleJob,
           NEW q \in Requests, Names(q)'
    PROVE  Apart(q, r)' /\ Apart(r, q)'
<1>1. /\ job'[r].op = "none" /\ job'[r].wrote = {}
      /\ job'[r].id = NoId /\ job'[r].code = NoInvite
    BY DEF IdleJob
<1>2. /\ Drawn(q)' => job'[q].id # NoId
      /\ job'[q].op = "issue" => job'[q].code # NoInvite
    BY ConstantsOK DEF Names, Drawn
<1>. QED BY <1>1, <1>2 DEF Apart, Wrote, Drawn

\* A rollback takes what the request has written with it.
LEMMA RollbackStep ==
    ASSUME MembershipInv, NEW r \in Requests, Rollback(r)
    PROVE  MembershipInv'
<1>1. TypeOK' /\ Only(r) /\ Kept /\ pc'[r] = "idle" /\ job'[r] = IdleJob
    BY IdleType, ReadShape DEF Rollback, PCs
<1>2. \A q \in Requests \ {r} : Own(q)'
    BY <1>1, SameOwn DEF MembershipInv, Only
<1>3. \A q \in Requests \ {r} : Apart(q, r)' /\ Apart(r, q)'
    BY <1>1, <1>2, IdleApart DEF Own
<1>. QED BY <1>1, <1>3, IdleRequest, LocalStep

\* The same request goes on.
SameRequest(r) ==
    /\ job'[r].op = job[r].op /\ job'[r].id = job[r].id
    /\ job'[r].email = job[r].email /\ job'[r].code = job[r].code

\* A step of r that takes no lock.
LEMMA QuietStep ==
    ASSUME MembershipInv, NEW r \in Requests, TypeOK', Only(r), Kept, SameRequest(r), Own(r)',
           job'[r].wrote \subseteq job[r].wrote \cup {"family"},
           "family" \in job'[r].wrote => job[r].op = "signup",
           pc'[r] = "delete member" => IsMember(job[r].id)
    PROVE  MembershipInv'
<1>. SUFFICES ASSUME NEW q \in Requests \ {r}
              PROVE  Apart(q, r)' /\ Apart(r, q)'
    BY LocalStep
<1>1. Apart(q, r) /\ Apart(r, q) /\ Found(q) /\ Same(q)
    BY InvAt DEF MembershipInv, Only
<1>2. \A w \in Writes \ {"family"} : Wrote(r, w)' => Wrote(r, w)
    BY DEF Wrote
<1>3. \A w \in Writes \ {"family"} : Wrote(q, w)' = Wrote(q, w)
    BY <1>1 DEF Wrote, Same
<1>4. Apart(r, q)'
    BY <1>1, <1>2, <1>3 DEF Apart, Drawn, Same, SameRequest, Writes
<1>5. Drawn(q) /\ job[q].id = job[r].id => pc'[r] # "delete member"
    BY <1>1 DEF Found
<1>6. Drawn(q) /\ job[q].id = job[r].id => job'[r].wrote = {}
    BY <1>1 DEF Apart
<1>7. Apart(q, r)'
    BY <1>1, <1>2, <1>3, <1>5, <1>6 DEF Apart, Drawn, Same, SameRequest, Writes
<1>. QED BY <1>4, <1>7

-----------------------------------------------------------------------------
(* The steps, one by one: first those that take no lock.                   *)

\* A statement that moves r on and changes nothing.
LEMMA MoveShape ==
    ASSUME MembershipInv, NEW r \in Requests, NEW l \in PCs, Read(r, job[r], l)
    PROVE  /\ TypeOK' /\ Only(r) /\ Kept /\ pc'[r] = l /\ job'[r] = job[r] /\ SameRequest(r)
BY InvAt, ReadShape DEF SameRequest

\* A statement that writes.
LEMMA WriteShape ==
    ASSUME MembershipInv, NEW r \in Requests, NEW w \in Writes, NEW l \in PCs, Write(r, w, l)
    PROVE  /\ TypeOK' /\ Only(r) /\ Kept /\ pc'[r] = l /\ SameRequest(r)
           /\ job'[r].family = job[r].family /\ job'[r].status = job[r].status
           /\ job'[r].wrote = job[r].wrote \cup {w}
<1>. DEFINE j == [job[r] EXCEPT !.wrote = @ \cup {w}]
<1>1. job[r] \in Job /\ Read(r, j, l)
    BY InvAt DEF Write
<1>2. j \in Job
    BY <1>1 DEF Job, Writes
<1>3. /\ j.op = job[r].op /\ j.id = job[r].id /\ j.family = job[r].family
      /\ j.email = job[r].email /\ j.code = job[r].code
      /\ j.wrote = job[r].wrote \cup {w} /\ j.status = job[r].status
    BY <1>1 DEF Job
<1>. HIDE DEF j
<1>. QED BY <1>1, <1>2, <1>3, ReadShape DEF SameRequest

\* An error of the service: nothing stays written.
LEMMA RefuseStep ==
    ASSUME MembershipInv, NEW r \in Requests, pc[r] \notin {"idle", "close"},
           NEW s \in {"bad request", "unauthorized", "not found", "conflict"},
           Read(r, [job[r] EXCEPT !.wrote = {}, !.status = s], "reply")
    PROVE  MembershipInv'
<1>. DEFINE j == [job[r] EXCEPT !.wrote = {}, !.status = s]
<1>1. job[r] \in Job
    BY InvAt
<1>2. j \in Job /\ "reply" \in PCs
    BY <1>1 DEF Job, PCs
<1>3. /\ j.op = job[r].op /\ j.id = job[r].id /\ j.family = job[r].family
      /\ j.email = job[r].email /\ j.code = job[r].code /\ j.wrote = {} /\ j.status = s
    BY <1>1 DEF Job
<1>. HIDE DEF j
<1>4. TypeOK' /\ Only(r) /\ Kept /\ pc'[r] = "reply" /\ job'[r] = j /\ SameRequest(r)
    BY <1>2, <1>3, ReadShape DEF j, SameRequest
<1>5. Shape(r)'
    BY <1>3, <1>4 DEF Shape
<1>6. Names(r)'
    BY <1>3, <1>4, InvAt DEF Names, Wrote, Kept, DB
<1>7. Found(r)'
    <2>1. ~Redeeming(r)' /\ pc'[r] # "delete member" /\ \A w : ~Wrote(r, w)'
        BY <1>3, <1>4 DEF Redeeming, Wrote
    <2>2. Drawn(r) => \A c \in claims : c[1] # job[r].id
        BY InvAt DEF Found
    <2>3. \A m : IsMember(m)' = IsMember(m) /\ (job[r].op = "login" \/ Drawn(r) => Found(r))
        BY <1>4, InvAt DEF IsMember, Kept, DB
    <2>. QED BY <1>3, <1>4, <2>1, <2>2, <2>3 DEF Found, Drawn, Kept, DB
<1>8. Locked(r)'
    BY <1>3, <1>4 DEF Locked, Wrote
<1>. QED BY <1>3, <1>4, <1>5, <1>6, <1>7, <1>8, QuietStep DEF Own

\* A refusal before the request has written anything only sets the status.
LEMMA RefuseUnwritten ==
    ASSUME MembershipInv, NEW r \in Requests, pc[r] \notin {"idle", "close"}, job[r].wrote = {},
           NEW s \in {"bad request", "unauthorized", "not found", "conflict"}, Refuse(r, s)
    PROVE  MembershipInv'
<1>1. [job[r] EXCEPT !.wrote = {}, !.status = s] = [job[r] EXCEPT !.status = s]
    BY InvAt DEF Job
<1>. QED BY <1>1, RefuseStep DEF Refuse

\* The email is free; whether it still is at the INSERT is the key's business.
LEMMA CheckEmailStep ==
    ASSUME MembershipInv, NEW r \in Requests, CheckEmail(r)
    PROVE  MembershipInv'
<1>1. pc[r] = "check email" /\ job[r].wrote = {} /\ job[r].op \in {"signup", "create"}
      /\ job[r].status = "ok"
    BY InvAt DEF CheckEmail, Shape
<1>2. CASE EmailTaken(job[r].email)
    BY <1>1, <1>2, RefuseUnwritten DEF CheckEmail
<1>3. CASE ~EmailTaken(job[r].email)
    <2>1. PICK l \in {"add member", "add family", "find invite"} :
            /\ Read(r, job[r], l)
            /\ l = "add member" <=> job[r].op = "create"
            /\ l = "add family" => job[r].code = NoInvite
            /\ l = "find invite" => job[r].code # NoInvite
        BY <1>1, <1>3 DEF CheckEmail
    <2>2. TypeOK' /\ Only(r) /\ Kept /\ pc'[r] = l /\ job'[r] = job[r] /\ SameRequest(r)
        BY <2>1, MoveShape DEF PCs
    <2>3. Shape(r)'
        BY <1>1, <2>1, <2>2 DEF Shape
    <2>4. Names(r)'
        BY <1>1, <2>2, InvAt DEF Names, Wrote, Kept, DB
    <2>5. Found(r)'
        <3>1. \A m : IsMember(m)' = IsMember(m)
            BY <2>2, KeptRows
        <3>2. ~Redeeming(r)' /\ (Drawn(r) => \A c \in claims : c[1] # job[r].id)
            BY <1>1, <2>1, <2>2, InvAt DEF Redeeming, Wrote, Found
        <3>. QED BY <1>1, <2>1, <2>2, <3>1, <3>2, InvAt DEF Found, Drawn, Wrote, Kept, DB
    <2>6. Locked(r)'
        BY <1>1, <2>2, InvAt DEF Locked, Wrote
    <2>. QED BY <1>1, <2>1, <2>2, <2>3, <2>4, <2>5, <2>6, QuietStep DEF Own
<1>. QED BY <1>2, <1>3

\* The invite is active: nobody has joined with it, and its family is now the
\* family of the request.
LEMMA FindInviteStep ==
    ASSUME MembershipInv, NEW r \in Requests, FindInvite(r)
    PROVE  MembershipInv'
<1>1. pc[r] = "find invite" /\ job[r].wrote = {} /\ job[r].op = "signup"
      /\ job[r].code # NoInvite /\ job[r].status = "ok"
    BY InvAt DEF FindInvite, Shape
<1>2. CASE ~Active(job[r].code)
    BY <1>1, <1>2, RefuseUnwritten DEF FindInvite
<1>3. CASE Active(job[r].code)
    <2>. DEFINE i == job[r].code
                f == invite[i].family
                j == [job[r] EXCEPT !.family = f]
    <2>1. i \in Invites /\ invite[i] # NoRow /\ i \notin accepted /\ f \in Ids
        BY <1>3, InvAt DEF Active, IsInvite, TypeOK, InviteRow
    <2>2. job[r] \in Job /\ j \in Job
        BY <2>1, InvAt DEF Job
    <2>3. /\ j.op = job[r].op /\ j.id = job[r].id /\ j.family = f
          /\ j.email = job[r].email /\ j.code = i /\ j.wrote = job[r].wrote
          /\ j.status = job[r].status
        BY <2>2 DEF Job
    <2>4. Read(r, j, "accept")
        BY <1>1, <1>3 DEF FindInvite
    <2>. HIDE DEF j
    <2>5. TypeOK' /\ Only(r) /\ Kept /\ pc'[r] = "accept" /\ job'[r] = j /\ SameRequest(r)
        BY <2>2, <2>3, <2>4, ReadShape DEF SameRequest, PCs
    <2>6. Shape(r)'
        BY <1>1, <2>3, <2>5 DEF Shape
    <2>7. Names(r)'
        BY <1>1, <2>3, <2>5, InvAt DEF Names, Wrote, Kept, DB
    <2>8. Found(r)'
        <3>1. \A n \in Ids : ~Joined(n, i)
            BY <1>1, <2>1, InvAt DEF Rows, Joined
        <3>2. /\ ~IsMember(job[r].id) /\ job[r].id \notin families
              /\ \A c \in claims : c[1] # job[r].id
            BY <1>1, InvAt DEF Found, Drawn
        <3>3. \A n, y : IsMember(n)' = IsMember(n) /\ Joined(n, y)' = Joined(n, y)
            BY <2>5, KeptRows
        <3>. QED BY <1>1, <2>3, <2>5, <3>1, <3>2, <3>3, KeptRows DEF Found, Wrote
    <2>9. Locked(r)'
        BY <1>1, <2>3, <2>5 DEF Locked, Wrote
    <2>. QED BY <1>1, <2>3, <2>5, <2>6, <2>7, <2>8, <2>9, QuietStep DEF Own
<1>. QED BY <1>2, <1>3

\* A family is founded under the id of its founder.
LEMMA AddFamilyStep ==
    ASSUME MembershipInv, NEW r \in Requests, AddFamily(r)
    PROVE  MembershipInv'
<1>1. pc[r] = "add family" /\ job[r].wrote = {} /\ job[r].op = "signup"
      /\ job[r].code = NoInvite /\ job[r].status = "ok" /\ job[r].id \in Ids
    BY InvAt DEF AddFamily, Shape, Names
<1>. DEFINE j == [job[r] EXCEPT !.family = job[r].id, !.wrote = @ \cup {"family"}]
<1>2. job[r] \in Job /\ j \in Job
    <2>1. job[r] \in Job
        BY InvAt
    <2>. QED BY <1>1, <2>1 DEF Job
<1>3. /\ j.op = "signup" /\ j.id = job[r].id /\ j.family = job[r].id /\ j.email = job[r].email
      /\ j.code = NoInvite /\ j.wrote = {"family"} /\ j.status = "ok"
    BY <1>1, <1>2 DEF Job
<1>4. Read(r, j, "add member")
    BY DEF AddFamily
<1>. HIDE DEF j
<1>5. TypeOK' /\ Only(r) /\ Kept /\ pc'[r] = "add member" /\ job'[r] = j
    BY <1>2, <1>4, ReadShape DEF PCs
<1>10. /\ job'[r].op = "signup" /\ job'[r].id = job[r].id /\ job'[r].family = job[r].id
       /\ job'[r].code = NoInvite /\ job'[r].wrote = {"family"} /\ job'[r].status = "ok"
       /\ SameRequest(r)
    BY <1>1, <1>3, <1>5 DEF SameRequest
<1>6. Shape(r)'
    BY <1>1, <1>10, <1>5 DEF Shape
<1>7. Names(r)'
    BY <1>1, <1>10, <1>5, InvAt DEF Names, Wrote, Kept, DB
<1>8. Found(r)'
    <2>1. /\ ~IsMember(job[r].id) /\ job[r].id \notin families
          /\ \A c \in claims : c[1] # job[r].id
        BY <1>1, InvAt DEF Found, Drawn
    <2>2. \A n : IsMember(n)' = IsMember(n)
        BY <1>5, KeptRows
    <2>. QED BY <1>1, <1>10, <1>5, <2>1, <2>2, KeptRows DEF Found, Wrote, Redeeming
<1>9. Locked(r)'
    <2>1. \A w \in Writes \ {"family"} : ~Wrote(r, w)'
        BY <1>3, <1>5 DEF Wrote
    <2>. QED BY <1>1, <1>10, <1>5, <2>1 DEF Locked, Writes
<1>. QED BY <1>1, <1>10, <1>5, <1>6, <1>7, <1>8, <1>9, QuietStep DEF Own

\* The member is there, of the caller's family and not its primary member.
LEMMA FindMemberStep ==
    ASSUME MembershipInv, NEW r \in Requests, FindMember(r)
    PROVE  MembershipInv'
<1>1. pc[r] = "find member" /\ job[r].wrote = {} /\ job[r].op = "delete"
      /\ job[r].status = "ok"
    BY InvAt DEF FindMember, Shape
<1>. DEFINE m == job[r].id
<1>2. \/ \E s \in {"not found", "conflict"} : Refuse(r, s)
      \/ IsMember(m) /\ ~member[m].primary /\ Read(r, job[r], "delete member")
    BY DEF FindMember
<1>3. CASE \E s \in {"not found", "conflict"} : Refuse(r, s)
    BY <1>1, <1>3, RefuseUnwritten
<1>4. CASE IsMember(m) /\ ~member[m].primary /\ Read(r, job[r], "delete member")
    <2>1. TypeOK' /\ Only(r) /\ Kept /\ pc'[r] = "delete member" /\ job'[r] = job[r]
          /\ SameRequest(r)
        BY <1>4, MoveShape DEF PCs
    <2>2. Shape(r)'
        BY <1>1, <2>1 DEF Shape
    <2>3. Names(r)'
        BY <1>1, <2>1, InvAt DEF Names, Wrote, Kept, DB
    <2>4. Found(r)' /\ Locked(r)'
        BY <1>1, <1>4, <2>1 DEF Found, Locked, Redeeming, Drawn, IsMember, Wrote, Kept, DB
    <2>. QED BY <1>1, <1>4, <2>1, <2>2, <2>3, <2>4, QuietStep DEF Own
<1>. QED BY <1>2, <1>3, <1>4

\* The invite is one of the caller's family.
LEMMA FindOwnInviteStep ==
    ASSUME MembershipInv, NEW r \in Requests, FindOwnInvite(r)
    PROVE  MembershipInv'
<1>1. pc[r] = "find own invite" /\ job[r].wrote = {} /\ job[r].op = "revoke"
      /\ job[r].status = "ok"
    BY InvAt DEF FindOwnInvite, Shape
<1>2. Refuse(r, "not found") \/ Read(r, job[r], "delete invite")
    BY DEF FindOwnInvite
<1>3. CASE Refuse(r, "not found")
    BY <1>1, <1>3, RefuseUnwritten
<1>4. CASE Read(r, job[r], "delete invite")
    <2>1. TypeOK' /\ Only(r) /\ Kept /\ pc'[r] = "delete invite" /\ job'[r] = job[r]
          /\ SameRequest(r)
        BY <1>4, MoveShape DEF PCs
    <2>2. Shape(r)'
        BY <1>1, <2>1 DEF Shape
    <2>3. Names(r)'
        BY <1>1, <2>1, InvAt DEF Names, Wrote, Kept, DB
    <2>4. Found(r)' /\ Locked(r)'
        BY <1>1, <2>1 DEF Found, Locked, Redeeming, Drawn, Wrote
    <2>. QED BY <1>1, <2>1, <2>2, <2>3, <2>4, QuietStep DEF Own
<1>. QED BY <1>2, <1>3, <1>4

\* The login takes the id and the family of a member who is there, and whose
\* id therefore nobody else is about to insert.
LEMMA FindLoginStep ==
    ASSUME MembershipInv, NEW r \in Requests, FindLogin(r)
    PROVE  MembershipInv'
<1>1. pc[r] = "find login" /\ job[r].wrote = {} /\ job[r].op = "login" /\ job[r].status = "ok"
      /\ job[r].code = NoInvite
    BY InvAt DEF FindLogin, Shape, Names
<1>2. CASE Refuse(r, "unauthorized")
    BY <1>1, <1>2, RefuseUnwritten
<1>3. ASSUME NEW m \in Ids, HasEmail(m, job[r].email),
             Read(r, [job[r] EXCEPT !.id = m, !.family = member[m].family], "add token")
      PROVE  MembershipInv'
    <2>. DEFINE f == member[m].family
                j == [job[r] EXCEPT !.id = m, !.family = f]
    <2>1. IsMember(m) /\ f \in Ids
        BY <1>3, InvAt DEF HasEmail, IsMember, TypeOK, MemberRow
    <2>2. job[r] \in Job /\ j \in Job
        BY <2>1, InvAt DEF Job
    <2>3. /\ j.op = "login" /\ j.id = m /\ j.family = f /\ j.code = NoInvite
          /\ j.wrote = {} /\ j.status = "ok"
        BY <1>1, <2>2 DEF Job
    <2>4. Read(r, j, "add token")
        BY <1>3
    <2>. HIDE DEF j
    <2>5. TypeOK' /\ Only(r) /\ Kept /\ pc'[r] = "add token" /\ job'[r] = j
        BY <2>2, <2>4, ReadShape DEF PCs
    <2>6. Own(r)'
        <3>1. Shape(r)'
            BY <2>3, <2>5 DEF Shape
        <3>2. Names(r)'
            BY <2>1, <2>3, <2>5 DEF Names, Wrote
        <3>3. Found(r)' /\ Locked(r)'
            BY <2>1, <2>3, <2>5 DEF Found, Locked, Redeeming, Drawn, IsMember, Wrote, Kept, DB
        <3>. QED BY <3>1, <3>2, <3>3 DEF Own
    <2>7. ASSUME NEW q \in Requests \ {r}
          PROVE  Apart(q, r)' /\ Apart(r, q)'
        <3>1. Same(q) /\ Found(q) /\ Names(q)
            BY <2>5, InvAt DEF Only
        <3>2. Drawn(q) => job[q].id # m
            BY <2>1, <3>1 DEF Found
        <3>3. job[q].op = "issue" => job[q].code # NoInvite
            BY <3>1, ConstantsOK DEF Names
        <3>. QED BY <2>3, <2>5, <3>1, <3>2, <3>3 DEF Apart, Same, Drawn, Wrote
    <2>. QED BY <2>5, <2>6, <2>7, LocalStep
<1>. QED BY <1>2, <1>3 DEF FindLogin

-----------------------------------------------------------------------------
(* The steps that take a lock or hold a key.                               *)

\* The lock a statement of r that writes w needs is nobody else's.
Free(r, w) ==
    \A q \in Requests \ {r} :
        /\ w = "member" /\ Wrote(q, "member") /\ job[q].email = job[r].email
           => job[r].email = NoEmail
        /\ w \in {"token", "invite"} /\ job[q].id = job[r].id => ~Wrote(q, "delete member")
        /\ w = "delete member" /\ job[q].id = job[r].id
           => ~Wrote(q, "token") /\ ~Wrote(q, "invite") /\ ~Wrote(q, "delete member")
        /\ w \in {"accept", "delete invite"} /\ job[q].code = job[r].code
           => ~Wrote(q, "accept") /\ ~Wrote(q, "delete invite")

\* That is what it has waited for.
LEMMA NotBlocked ==
    ASSUME NEW r \in Requests, ~Blocked(r), NEW w \in Writes,
           \/ pc[r] = "accept" /\ w = "accept"
           \/ pc[r] = "add member" /\ w = "member"
           \/ pc[r] = "add token" /\ w = "token"
           \/ pc[r] = "add invite" /\ w = "invite"
           \/ pc[r] = "delete member" /\ w = "delete member"
           \/ pc[r] = "delete invite" /\ w = "delete invite"
    PROVE  Free(r, w)
<1>. SUFFICES ASSUME NEW q \in Requests \ {r}
              PROVE  /\ w = "member" /\ Wrote(q, "member") /\ job[q].email = job[r].email
                        => job[r].email = NoEmail
                     /\ w \in {"token", "invite"} /\ job[q].id = job[r].id
                        => ~Wrote(q, "delete member")
                     /\ w = "delete member" /\ job[q].id = job[r].id
                        => ~Wrote(q, "token") /\ ~Wrote(q, "invite") /\ ~Wrote(q, "delete member")
                     /\ w \in {"accept", "delete invite"} /\ job[q].code = job[r].code
                        => ~Wrote(q, "accept") /\ ~Wrote(q, "delete invite")
    BY DEF Free
<1>1. ~WaitsOn(r, q) /\ q # r
    BY DEF Blocked
<1>. QED BY <1>1 DEF WaitsOn

\* So with the lock nobody else has done what excludes it.
LEMMA WriteStep ==
    ASSUME MembershipInv, NEW r \in Requests, NEW w \in Writes \ {"family"}, NEW l \in PCs,
           Write(r, w, l), Free(r, w), l # "delete member", Own(r)',
           job[r].op \in {"issue", "delete"} => IsMember(job[r].id)
    PROVE  MembershipInv'
<1>1. /\ TypeOK' /\ Only(r) /\ Kept /\ pc'[r] = l /\ SameRequest(r)
      /\ job'[r].wrote = job[r].wrote \cup {w}
    BY WriteShape
<1>. SUFFICES ASSUME NEW q \in Requests \ {r}
              PROVE  Apart(q, r)' /\ Apart(r, q)'
    BY <1>1, LocalStep
<1>2. Apart(q, r) /\ Apart(r, q) /\ Found(q) /\ Same(q)
    BY <1>1, InvAt DEF MembershipInv, Only
<1>3. \A v \in Writes : Wrote(r, v)' <=> Wrote(r, v) \/ v = w
    BY <1>1 DEF Wrote
<1>4. \A v \in Writes : Wrote(q, v)' <=> Wrote(q, v)
    BY <1>2 DEF Wrote, Same
<1>5. /\ job'[q] = job[q] /\ job'[r].id = job[r].id /\ job'[r].op = job[r].op
      /\ job'[r].code = job[r].code /\ job'[r].email = job[r].email /\ pc'[q] = pc[q]
    BY <1>1, <1>2 DEF Same, SameRequest
<1>6. ~(Drawn(q) /\ job[q].id = job[r].id)
    BY <1>2 DEF Found, Apart
<1>7. /\ w = "member" /\ Wrote(q, "member") /\ job[q].email = job[r].email
         => job[r].email = NoEmail
      /\ w \in {"token", "invite"} /\ job[q].id = job[r].id => ~Wrote(q, "delete member")
      /\ w = "delete member" /\ job[q].id = job[r].id
         => ~Wrote(q, "token") /\ ~Wrote(q, "invite") /\ ~Wrote(q, "delete member")
      /\ w \in {"accept", "delete invite"} /\ job[q].code = job[r].code
         => ~Wrote(q, "accept") /\ ~Wrote(q, "delete invite")
    BY DEF Free
<1>8. /\ \A v \in {"member", "token", "invite", "accept", "delete member", "delete invite"} :
           v \in Writes
    BY DEF Writes
<1>9. Apart(q, r)'
    <2>1. (Wrote(q, "member") /\ Wrote(r, "member") /\ job[q].email = job[r].email
           => job[q].email = NoEmail)'
        BY <1>2, <1>3, <1>4, <1>5, <1>7, <1>8 DEF Apart
    <2>2. (Drawn(q) /\ job[q].id = job[r].id
           => job[r].op \in {"issue", "delete"} /\ job[r].wrote = {} /\ pc[r] # "delete member")'
        BY <1>5, <1>6 DEF Drawn
    <2>3. (Wrote(q, "token") \/ Wrote(q, "invite") \/ Wrote(q, "delete member")
           => ~(Wrote(r, "delete member") /\ job[q].id = job[r].id))'
        BY <1>2, <1>3, <1>4, <1>5, <1>7, <1>8 DEF Apart
    <2>4. (Wrote(q, "accept") \/ Wrote(q, "delete invite")
           => ~((Wrote(r, "accept") \/ Wrote(r, "delete invite")) /\ job[q].code = job[r].code))'
        BY <1>2, <1>3, <1>4, <1>5, <1>7, <1>8 DEF Apart
    <2>5. (job[q].op = "issue" => job[q].code # job[r].code)'
        BY <1>2, <1>5 DEF Apart
    <2>. QED BY <2>1, <2>2, <2>3, <2>4, <2>5 DEF Apart
<1>10. Apart(r, q)'
    <2>1. (Wrote(r, "member") /\ Wrote(q, "member") /\ job[r].email = job[q].email
           => job[r].email = NoEmail)'
        BY <1>2, <1>3, <1>4, <1>5, <1>7, <1>8 DEF Apart
    <2>2. (Drawn(r) /\ job[r].id = job[q].id
           => job[q].op \in {"issue", "delete"} /\ job[q].wrote = {} /\ pc[q] # "delete member")'
        BY <1>2, <1>5 DEF Apart, Drawn
    <2>3. (Wrote(r, "token") \/ Wrote(r, "invite") \/ Wrote(r, "delete member")
           => ~(Wrote(q, "delete member") /\ job[r].id = job[q].id))'
        BY <1>2, <1>3, <1>4, <1>5, <1>7, <1>8 DEF Apart
    <2>4. (Wrote(r, "accept") \/ Wrote(r, "delete invite")
           => ~((Wrote(q, "accept") \/ Wrote(q, "delete invite")) /\ job[r].code = job[q].code))'
        BY <1>2, <1>3, <1>4, <1>5, <1>7, <1>8 DEF Apart
    <2>5. (job[r].op = "issue" => job[r].code # job[q].code)'
        BY <1>2, <1>5 DEF Apart
    <2>. QED BY <2>1, <2>2, <2>3, <2>4, <2>5 DEF Apart
<1>. QED BY <1>9, <1>10

\* What the statement needs to find, for its request to hold it.
Holds(r, w) ==
    LET m == job[r].id
    IN  /\ w = "member" => pc[r] = "add member" /\ ~EmailTaken(job[r].email) /\ FamilyExists(r)
        /\ w = "token" => pc[r] = "add token" /\ (IsMember(m) \/ Wrote(r, "member"))
        /\ w = "invite" => pc[r] = "add invite" /\ IsMember(m)
        /\ w = "delete member" => pc[r] = "delete member" /\ IsMember(m) /\ ~Referred(m)
        /\ w = "accept" => pc[r] = "accept" /\ IsInvite(job[r].code)
        /\ w = "delete invite" => pc[r] = "delete invite" /\ IsInvite(job[r].code)

\* Then what is said of the request holds after it as before.
LEMMA WriteOwn ==
    ASSUME MembershipInv, NEW r \in Requests, NEW w \in Writes \ {"family"}, NEW l \in PCs,
           Write(r, w, l), Holds(r, w), l \notin {"close", "delete member", "add invite", "accept"},
           l = "add token" => job[r].op = "signup",
           Shape(r)'
    PROVE  Own(r)'
<1>1. /\ Kept /\ pc'[r] = l /\ job'[r].op = job[r].op /\ job'[r].id = job[r].id
      /\ job'[r].email = job[r].email /\ job'[r].code = job[r].code
      /\ job'[r].family = job[r].family /\ job'[r].wrote = job[r].wrote \cup {w}
    BY WriteShape DEF SameRequest
<1>2. \A v : Wrote(r, v)' <=> Wrote(r, v) \/ v = w
    BY <1>1 DEF Wrote
<1>3. Shape(r) /\ Names(r) /\ Found(r) /\ Locked(r)
    BY InvAt
<1>4. pc[r] \in {"add member", "add token", "add invite", "delete member", "accept",
                 "delete invite"}
    BY DEF Holds, Writes
<1>5. Names(r)'
    <2>1. w = "token" => pc[r] = "add token"
        BY DEF Holds
    <2>. QED BY <1>1, <1>2, <1>3, <2>1, KeptRows DEF Names
<1>6. Found(r)'
    <2>1. Redeeming(r)' => Redeeming(r)
        BY <1>1, <1>2 DEF Redeeming, Holds
    <2>2. w = "delete member" => pc[r] = "delete member"
        BY DEF Holds
    <2>3. Drawn(r)' = Drawn(r)
        BY <1>1 DEF Drawn
    <2>4. Drawn(r) => /\ ~IsMember(job[r].id) /\ job[r].id \notin families
                      /\ \A c \in claims : c[1] # job[r].id
        BY <1>3, <1>4 DEF Found
    <2>5. \A m, i : Joined(m, i)' = Joined(m, i) /\ IsMember(m)' = IsMember(m)
        BY <1>1, KeptRows
    <2>6. member' = member /\ invite' = invite /\ families' = families /\ claims' = claims
        BY <1>1, KeptRows
    <2>7. (pc[r] = "delete member" \/ Wrote(r, "delete member")
           => (IsMember(job[r].id) => ~member[job[r].id].primary))'
        BY <1>1, <1>2, <1>3, <2>2, <2>5, <2>6 DEF Found
    <2>8. (job[r].op = "login" => (IsMember(job[r].id) => member[job[r].id].family = job[r].family))'
        BY <1>1, <1>3, <2>5, <2>6 DEF Found
    <2>9. (Redeeming(r)
           => /\ job[r].family = invite[job[r].code].family
              /\ \A n \in Ids : Joined(n, job[r].code) => member[n].slot # r)'
        BY <1>1, <1>3, <2>1, <2>5, <2>6 DEF Found
    <2>10. (Drawn(r)
            => /\ ~IsMember(job[r].id) /\ job[r].id \notin families
               /\ \A c \in claims : c[1] = job[r].id => c[2] = job[r].family /\ pc[r] = "close")'
        BY <1>1, <2>3, <2>4, <2>5, <2>6
    <2>. QED BY <2>7, <2>8, <2>9, <2>10 DEF Found
<1>7. Locked(r)'
    <2>1. FamilyExists(r) => FamilyExists(r)'
        BY <1>1, <1>2 DEF FamilyExists, Kept, DB
    <2>2. Wrote(r, "token") /\ job[r].op = "login" => IsMember(job[r].id)
        BY <1>3 DEF Locked
    <2>3. Wrote(r, "member") => job[r].op # "login"
        BY <1>3 DEF Shape, Wrote
    <2>. QED BY <1>1, <1>2, <1>3, <2>1, <2>2, <2>3, KeptRows DEF Locked, Holds
<1>. QED BY <1>5, <1>6, <1>7 DEF Own

\* The UPDATE of an invite that is there, which nobody else is redeeming or
\* revoking.
LEMMA AcceptStep ==
    ASSUME MembershipInv, NEW r \in Requests, Accept(r)
    PROVE  MembershipInv'
<1>1. /\ pc[r] = "accept" /\ ~Blocked(r) /\ job[r].wrote = {} /\ job[r].op = "signup"
      /\ job[r].code # NoInvite /\ job[r].status = "ok"
    BY InvAt DEF Accept, Shape
<1>2. Rollback(r) \/ (IsInvite(job[r].code) /\ Write(r, "accept", "add member"))
    BY DEF Accept
<1>3. CASE IsInvite(job[r].code) /\ Write(r, "accept", "add member")
    <2>1. "accept" \in Writes \ {"family"} /\ "add member" \in PCs
        BY DEF Writes, PCs
    <2>2. Free(r, "accept") /\ Holds(r, "accept")
        BY <1>1, <1>3, <2>1, NotBlocked DEF Holds
    <2>3. pc'[r] = "add member" /\ SameRequest(r) /\ job'[r].status = job[r].status
          /\ job'[r].wrote = job[r].wrote \cup {"accept"}
        BY <1>3, <2>1, WriteShape
    <2>4. Shape(r)'
        BY <1>1, <2>3 DEF Shape, SameRequest
    <2>. QED BY <1>1, <1>3, <2>1, <2>2, <2>4, WriteOwn, WriteStep
<1>. QED BY <1>2, <1>3, RollbackStep

\* The INSERT of a member whose email is free and not being inserted, into a
\* family that is there or is being founded.
LEMMA AddMemberStep ==
    ASSUME MembershipInv, NEW r \in Requests, AddMember(r)
    PROVE  MembershipInv'
<1>1. /\ pc[r] = "add member" /\ ~Blocked(r) /\ job[r].op \in {"signup", "create"}
      /\ job[r].status = "ok"
    BY InvAt DEF AddMember, Shape
<1>2. CASE EmailTaken(job[r].email) \/ ~FamilyExists(r)
    <2>1. Read(r, [job[r] EXCEPT !.wrote = {}, !.status = "conflict"], "reply")
        BY <1>2 DEF AddMember
    <2>. QED BY <1>1, <2>1, RefuseStep
<1>3. CASE ~EmailTaken(job[r].email) /\ FamilyExists(r)
    <2>. DEFINE l == IF job[r].op = "signup" THEN "add token" ELSE "reply"
    <2>1. "member" \in Writes \ {"family"} /\ l \in PCs /\ Write(r, "member", l)
        BY <1>3 DEF Writes, PCs, AddMember
    <2>2. Free(r, "member") /\ Holds(r, "member")
        BY <1>1, <1>3, <2>1, NotBlocked DEF Holds
    <2>3. l \notin {"close", "delete member", "add invite", "accept"}
          /\ (l = "add token" => job[r].op = "signup")
        OBVIOUS
    <2>. HIDE DEF l
    <2>4. pc'[r] = l /\ SameRequest(r) /\ job'[r].status = job[r].status
          /\ job'[r].wrote = job[r].wrote \cup {"member"}
        BY <2>1, WriteShape
    <2>5. Shape(r)'
        BY <1>1, <2>4, InvAt DEF Shape, SameRequest, l
    <2>. QED BY <1>1, <2>1, <2>2, <2>3, <2>5, WriteOwn, WriteStep
<1>. QED BY <1>2, <1>3

\* The INSERT of a refresh token for a member that is there and that nobody
\* is deleting, or that the request itself has inserted.
LEMMA AddTokenStep ==
    ASSUME MembershipInv, NEW r \in Requests, AddToken(r)
    PROVE  MembershipInv'
<1>1. /\ pc[r] = "add token" /\ ~Blocked(r) /\ job[r].op \in {"signup", "login"}
      /\ job[r].status = "ok"
    BY InvAt DEF AddToken, Shape
<1>2. \/ Rollback(r)
      \/ (IsMember(job[r].id) \/ Wrote(r, "member")) /\ Write(r, "token", "reply")
    BY DEF AddToken
<1>3. CASE (IsMember(job[r].id) \/ Wrote(r, "member")) /\ Write(r, "token", "reply")
    <2>1. "token" \in Writes \ {"family"} /\ "reply" \in PCs
        BY DEF Writes, PCs
    <2>2. Free(r, "token") /\ Holds(r, "token")
        BY <1>1, <1>3, <2>1, NotBlocked DEF Holds
    <2>3. pc'[r] = "reply" /\ SameRequest(r) /\ job'[r].status = job[r].status
          /\ job'[r].wrote = job[r].wrote \cup {"token"}
        BY <1>3, <2>1, WriteShape
    <2>4. Shape(r)'
        BY <1>1, <2>3, InvAt DEF Shape, SameRequest
    <2>. QED BY <1>1, <1>3, <2>1, <2>2, <2>4, WriteOwn, WriteStep
<1>. QED BY <1>2, <1>3, RollbackStep

\* The INSERT of an invite whose creator is there and that nobody is deleting.
LEMMA AddInviteStep ==
    ASSUME MembershipInv, NEW r \in Requests, AddInvite(r)
    PROVE  MembershipInv'
<1>1. /\ pc[r] = "add invite" /\ ~Blocked(r) /\ job[r].op = "issue" /\ job[r].wrote = {}
      /\ job[r].status = "ok"
    BY InvAt DEF AddInvite, Shape
<1>2. Rollback(r) \/ (IsMember(job[r].id) /\ Write(r, "invite", "reply"))
    BY DEF AddInvite
<1>3. CASE IsMember(job[r].id) /\ Write(r, "invite", "reply")
    <2>1. "invite" \in Writes \ {"family"} /\ "reply" \in PCs
        BY DEF Writes, PCs
    <2>2. Free(r, "invite") /\ Holds(r, "invite")
        BY <1>1, <1>3, <2>1, NotBlocked DEF Holds
    <2>3. pc'[r] = "reply" /\ SameRequest(r) /\ job'[r].status = job[r].status
          /\ job'[r].wrote = job[r].wrote \cup {"invite"}
        BY <1>3, <2>1, WriteShape
    <2>4. Shape(r)'
        BY <1>1, <2>3 DEF Shape, SameRequest
    <2>. QED BY <1>1, <1>3, <2>1, <2>2, <2>4, WriteOwn, WriteStep
<1>. QED BY <1>2, <1>3, RollbackStep

\* The DELETE of a member that is there, that no row refers to and that
\* nobody is referring to or deleting.
LEMMA DeleteRowStep ==
    ASSUME MembershipInv, NEW r \in Requests, DeleteRow(r)
    PROVE  MembershipInv'
<1>1. /\ pc[r] = "delete member" /\ ~Blocked(r) /\ job[r].op = "delete" /\ job[r].wrote = {}
      /\ job[r].status = "ok"
    BY InvAt DEF DeleteRow, Shape
<1>2. \/ Rollback(r)
      \/ IsMember(job[r].id) /\ ~Referred(job[r].id) /\ Write(r, "delete member", "reply")
    BY DEF DeleteRow
<1>3. CASE IsMember(job[r].id) /\ ~Referred(job[r].id) /\ Write(r, "delete member", "reply")
    <2>1. "delete member" \in Writes \ {"family"} /\ "reply" \in PCs
        BY DEF Writes, PCs
    <2>2. Free(r, "delete member") /\ Holds(r, "delete member")
        BY <1>1, <1>3, <2>1, NotBlocked DEF Holds
    <2>3. pc'[r] = "reply" /\ SameRequest(r) /\ job'[r].status = job[r].status
          /\ job'[r].wrote = job[r].wrote \cup {"delete member"}
        BY <1>3, <2>1, WriteShape
    <2>4. Shape(r)'
        BY <1>1, <2>3 DEF Shape, SameRequest
    <2>. QED BY <1>1, <1>3, <2>1, <2>2, <2>4, WriteOwn, WriteStep
<1>. QED BY <1>2, <1>3, RollbackStep

\* The DELETE of an invite that is there and that nobody is redeeming.
LEMMA DeleteInviteStep ==
    ASSUME MembershipInv, NEW r \in Requests, DeleteInvite(r)
    PROVE  MembershipInv'
<1>1. /\ pc[r] = "delete invite" /\ ~Blocked(r) /\ job[r].op = "revoke" /\ job[r].wrote = {}
      /\ job[r].status = "ok"
    BY InvAt DEF DeleteInvite, Shape
<1>2. Rollback(r) \/ (IsInvite(job[r].code) /\ Write(r, "delete invite", "reply"))
    BY DEF DeleteInvite
<1>3. CASE IsInvite(job[r].code) /\ Write(r, "delete invite", "reply")
    <2>1. "delete invite" \in Writes \ {"family"} /\ "reply" \in PCs
        BY DEF Writes, PCs
    <2>2. Free(r, "delete invite") /\ Holds(r, "delete invite")
        BY <1>1, <1>3, <2>1, NotBlocked DEF Holds
    <2>3. pc'[r] = "reply" /\ SameRequest(r) /\ job'[r].status = job[r].status
          /\ job'[r].wrote = job[r].wrote \cup {"delete invite"}
        BY <1>3, <2>1, WriteShape
    <2>4. Shape(r)'
        BY <1>1, <2>3 DEF Shape, SameRequest
    <2>. QED BY <1>1, <1>3, <2>1, <2>2, <2>4, WriteOwn, WriteStep
<1>. QED BY <1>2, <1>3, RollbackStep

-----------------------------------------------------------------------------
(* The beginning of a request, its answer, and the passing of time.        *)

\* What a request brings along when it arrives.
Arrives(r, j, l) ==
    /\ pc[r] = "idle" /\ Read(r, j, l) /\ j \in Job /\ l \in PCs
    /\ j.wrote = {} /\ j.status = "ok" /\ j.op # "none"
    /\ l \in {"check email", "add member", "find login", "find member", "add invite",
              "find own invite"}
    /\ j.op \in {"signup", "create"} => j.id \in Ids /\ UnusedId(j.id)
    /\ l = "check email" => j.op \in {"signup", "create"}
    /\ l = "add member" <=> j.op = "create" /\ l # "check email"
    /\ l = "find login" <=> j.op = "login"
    /\ l = "find member" <=> j.op = "delete"
    /\ l = "add invite" <=> j.op = "issue"
    /\ l = "find own invite" <=> j.op = "revoke"
    /\ j.op \in {"login", "revoke"} => j.id = NoId
    /\ j.op = "delete" => j.id \in Ids
    /\ j.op \in {"create", "delete", "revoke"} => j.family \in Ids
    /\ j.op \in {"signup", "revoke"} /\ j.code # NoInvite
       => j.code \in Invites /\ invite[j.code] # NoRow
    /\ j.op = "revoke" => j.code # NoInvite
    /\ j.op \notin {"signup", "issue", "revoke"} => j.code = NoInvite
    /\ j.op = "issue"
       => /\ j.code \in Invites /\ UnusedInvite(j.code) /\ <<j.id, j.family>> \in claims
          /\ j.id \in Ids /\ j.family \in Ids

\* Every arrival is of this form.
LEMMA ArrivalShape ==
    ASSUME MembershipInv, NEW r \in Requests, Arrive(r)
    PROVE  \E j, l : Arrives(r, j, l)
<1>1. \A c \in claims : c[1] \in Ids /\ c[2] \in Ids /\ c = <<c[1], c[2]>>
    BY InvAt DEF TypeOK
<1>. USE DEF Start, Read, Arrives, PCs, IdleJob, Job
<1>2. CASE Signup(r)
    <2>1. PICK e \in Emails, n \in Ids, i \in {x \in Invites : invite[x] # NoRow} \cup {NoInvite} :
            /\ UnusedId(n)
            /\ Start(r, [IdleJob EXCEPT !.op = "signup", !.id = n, !.email = e, !.code = i],
                     "check email")
        BY <1>2 DEF Signup
    <2>2. Arrives(r, [IdleJob EXCEPT !.op = "signup", !.id = n, !.email = e, !.code = i],
                  "check email")
        BY <2>1
    <2>. QED BY <2>2
<1>3. CASE Login(r)
    <2>1. PICK e \in Emails :
            Arrives(r, [IdleJob EXCEPT !.op = "login", !.email = e], "find login")
        BY <1>3 DEF Login
    <2>. QED BY <2>1
<1>4. CASE CreateMember(r)
    <2>1. PICK n \in Ids, f \in Ids, e \in Emails \cup {NoEmail},
               l \in {"add member", "check email"} :
            /\ UnusedId(n)
            /\ Start(r, [IdleJob EXCEPT !.op = "create", !.id = n, !.family = f, !.email = e], l)
        BY <1>4 DEF CreateMember
    <2>2. Arrives(r, [IdleJob EXCEPT !.op = "create", !.id = n, !.family = f, !.email = e], l)
        BY <2>1
    <2>. QED BY <2>2
<1>5. CASE DeleteMember(r)
    <2>1. PICK c \in claims, m \in Ids :
            Start(r, [IdleJob EXCEPT !.op = "delete", !.id = m, !.family = c[2]], "find member")
        BY <1>5 DEF DeleteMember
    <2>2. Arrives(r, [IdleJob EXCEPT !.op = "delete", !.id = m, !.family = c[2]], "find member")
        BY <1>1, <2>1
    <2>. QED BY <2>2
<1>6. CASE IssueInvite(r)
    <2>1. PICK c \in claims, i \in Invites :
            /\ UnusedInvite(i)
            /\ Start(r, [IdleJob EXCEPT !.op = "issue", !.id = c[1], !.family = c[2],
                                        !.code = i], "add invite")
        BY <1>6 DEF IssueInvite
    <2>2. <<c[1], c[2]>> \in claims /\ c[1] \in Ids /\ c[2] \in Ids
        BY <1>1
    <2>3. Arrives(r, [IdleJob EXCEPT !.op = "issue", !.id = c[1], !.family = c[2], !.code = i],
                  "add invite")
        BY <2>1, <2>2
    <2>. QED BY <2>3
<1>7. CASE RevokeInvite(r)
    <2>1. PICK c \in claims, i \in {x \in Invites : invite[x] # NoRow} :
            Start(r, [IdleJob EXCEPT !.op = "revoke", !.family = c[2], !.code = i],
                  "find own invite")
        BY <1>7 DEF RevokeInvite
    <2>2. Arrives(r, [IdleJob EXCEPT !.op = "revoke", !.family = c[2], !.code = i],
                  "find own invite")
        BY <1>1, <2>1, ConstantsOK
    <2>. QED BY <2>2
<1>. QED BY <1>2, <1>3, <1>4, <1>5, <1>6, <1>7 DEF Arrive

\* A request that arrives has nothing yet, and what it draws is nobody's.
LEMMA ArriveStep ==
    ASSUME MembershipInv, NEW r \in Requests, Arrive(r)
    PROVE  MembershipInv'
<1>1. PICK j, l : Arrives(r, j, l)
    BY ArrivalShape
<1>2. TypeOK' /\ Only(r) /\ Kept /\ pc'[r] = l /\ job'[r] = j
    BY <1>1, ReadShape DEF Arrives
<1>3. \A w : ~Wrote(r, w)'
    BY <1>1, <1>2 DEF Arrives, Wrote
<1>4. Own(r)'
    <2>1. Shape(r)'
        BY <1>1, <1>2 DEF Shape, Arrives
    <2>2. Names(r)'
        BY <1>1, <1>2, <1>3, KeptRows DEF Names, Arrives, UnusedInvite
    <2>3. Found(r)'
        <3>1. ~Redeeming(r)' /\ pc'[r] # "delete member"
            BY <1>1, <1>2, <1>3 DEF Redeeming, Arrives
        <3>2. Drawn(r)' => ~IsMember(j.id) /\ j.id \notin families
                           /\ \A c \in claims : c[1] # j.id
            BY <1>1, <1>2 DEF Drawn, Arrives, UnusedId
        <3>3. job'[r].op = "login" => ~IsMember(j.id)
            BY <1>1, <1>2, ConstantsOK DEF Arrives, IsMember
        <3>4. \A m : IsMember(m)' = IsMember(m)
            BY <1>2, KeptRows
        <3>. QED BY <1>2, <1>3, <3>1, <3>2, <3>3, <3>4, KeptRows DEF Found
    <2>4. Locked(r)'
        <3>1. \A w \in Writes : ~Wrote(r, w)'
            BY <1>3
        <3>. QED BY <3>1 DEF Locked, Writes
    <2>. QED BY <2>1, <2>2, <2>3, <2>4 DEF Own
<1>5. ASSUME NEW q \in Requests \ {r}
      PROVE  Apart(q, r)' /\ Apart(r, q)'
    <2>1. Same(q) /\ Names(q) /\ Shape(q)
        BY <1>2, InvAt DEF Only
    <2>2. Drawn(q) /\ job[q].id = j.id => j.op \in {"issue", "delete"}
        <3>1. Drawn(q) => job[q].id \in Ids
            BY <2>1 DEF Drawn, Names
        <3>2. j.op \in {"signup", "create"} => j.id # job[q].id
            BY <1>1 DEF Arrives, UnusedId
        <3>. QED BY <1>1, <3>1, <3>2, ConstantsOK DEF Arrives, Job
    <2>3. job[q].op = "issue" => job[q].code # j.code
        <3>1. job[q].op = "issue" => job[q].code \in Invites /\ invite[job[q].code] = NoRow
            BY <2>1 DEF Names
        <3>2. j.op = "issue" => j.code # job[q].code
            BY <1>1 DEF Arrives, UnusedInvite
        <3>. QED BY <1>1, <3>1, <3>2, ConstantsOK DEF Arrives
    <2>4. pc'[r] # "delete member" /\ j.wrote = {}
        BY <1>1, <1>2 DEF Arrives
    <2>5. Apart(q, r)'
        BY <1>2, <1>3, <2>1, <2>2, <2>3, <2>4 DEF Apart, Same, Drawn
    <2>6. j.op \in {"signup", "create"} => j.id # job[q].id
        BY <1>1 DEF Arrives, UnusedId
    <2>7. j.op = "issue" => j.code # job[q].code
        BY <1>1 DEF Arrives, UnusedInvite
    <2>8. Apart(r, q)'
        BY <1>2, <1>3, <2>1, <2>6, <2>7 DEF Apart, Same, Drawn
    <2>. QED BY <2>5, <2>8
<1>. QED BY <1>2, <1>4, <1>5, LocalStep

\* Nothing said depends on whether an invite has lapsed.
LEMMA LapseStep ==
    ASSUME MembershipInv, Kept, UNCHANGED <<pc, job>>, lapsed' \subseteq Invites
    PROVE  MembershipInv'
<1>1. \A q \in Requests : Same(q)
    BY DEF Same
<1>2. TypeOK'
    BY DEF MembershipInv, TypeOK, Kept, DB
<1>3. Rows' /\ EmailUnique' /\ SharedInviteIsConcurrent' /\ NoDanglingReference'
    BY SameRows DEF MembershipInv
<1>4. \A q \in Requests : Own(q)'
    BY <1>1, SameOwn DEF MembershipInv
<1>5. \A p, q \in Requests : p # q => Apart(p, q)'
    BY <1>1, SameApart DEF MembershipInv
<1>. QED BY <1>2, <1>3, <1>4, <1>5 DEF MembershipInv

\* The answer carries the family of a member who is there or who is about to
\* be inserted under an id nobody else has.
LEMMA ReplyStep ==
    ASSUME MembershipInv, NEW r \in Requests, Reply(r)
    PROVE  MembershipInv'
<1>. DEFINE m == job[r].id
            f == job[r].family
<1>1. /\ pc[r] = "reply" /\ pc' = [pc EXCEPT ![r] = "close"] /\ UNCHANGED <<DB, lapsed, job>>
    BY DEF Reply, Goto
<1>2. /\ pc'[r] = "close" /\ job'[r] = job[r] /\ \A q \in Requests \ {r} : Same(q)
      /\ pc' \in [Requests -> PCs]
    BY <1>1, InvAt DEF Same, PCs
<1>3. claims \subseteq claims' /\ claims' \subseteq claims \cup {<<m, f>>}
    BY DEF Reply
<1>4. \/ claims' = claims
      \/ /\ job[r].op \in {"signup", "login"} /\ m \in Ids /\ f \in Ids
         /\ IsMember(m) => member[m].family = f
         /\ job[r].op = "signup" => ~IsMember(m)
    <2>1. CASE job[r].op \in {"signup", "login"} /\ job[r].status = "ok"
        <3>1. Wrote(r, "token") /\ (job[r].op = "signup" => Wrote(r, "member"))
            BY <1>1, <2>1, InvAt DEF Shape, Wrote
        <3>2. CASE job[r].op = "login"
            BY <3>1, <3>2, InvAt DEF Names, Found
        <3>3. CASE job[r].op = "signup"
            <4>1. m \in Ids /\ ~IsMember(m)
                BY <3>3, InvAt DEF Names, Found, Drawn
            <4>2. f \in families \/ f = m
                BY <3>1, <3>3, InvAt DEF Locked, FamilyExists
            <4>3. families \subseteq Ids
                BY InvAt DEF TypeOK
            <4>. QED BY <3>3, <4>1, <4>2, <4>3
        <3>. QED BY <2>1, <3>2, <3>3
    <2>2. CASE ~(job[r].op \in {"signup", "login"} /\ job[r].status = "ok")
        BY <2>2 DEF Reply
    <2>. QED BY <2>1, <2>2
<1>5. TypeOK'
    <2>1. claims' \subseteq Ids \X Ids
        BY <1>3, <1>4, InvAt DEF TypeOK
    <2>. QED BY <1>1, <1>2, <2>1, InvAt DEF TypeOK, DB
<1>6. (\A n : IsMember(n)' = IsMember(n) /\ Referred(n)' = Referred(n))
      /\ (\A n, i : Joined(n, i)' = Joined(n, i)) /\ (\A i : IsInvite(i)' = IsInvite(i))
      /\ (\A e : EmailTaken(e)' = EmailTaken(e))
    BY <1>1 DEF DB, IsMember, Referred, IsInvite, Joined, EmailTaken, HasEmail
<1>7. Rows' /\ EmailUnique' /\ SharedInviteIsConcurrent' /\ NoDanglingReference'
    <2>1. Rows'
        <3>1. \A c \in claims' : IsMember(c[1]) => member[c[1]].family = c[2]
            BY <1>3, <1>4, InvAt DEF Rows
        <3>. QED BY <1>1, <1>3, <1>6, <3>1, InvAt DEF Rows, DB
    <2>2. EmailUnique' /\ SharedInviteIsConcurrent' /\ NoDanglingReference'
        BY <1>1, <1>6, InvAt DEF EmailUnique, HasEmail, SharedInviteIsConcurrent,
           NoDanglingReference, DB
    <2>. QED BY <2>1, <2>2
<1>8. ASSUME NEW q \in Requests
      PROVE  Own(q)'
    <2>1. job'[q] = job[q] /\ (pc'[q] = pc[q] \/ (q = r /\ pc'[q] = "close"))
        BY <1>2 DEF Same
    <2>2. FamilyExists(q)' = FamilyExists(q) /\ Drawn(q)' = Drawn(q)
          /\ (\A w : Wrote(q, w)' = Wrote(q, w)) /\ Redeeming(q)' = Redeeming(q)
        BY <1>1, <2>1 DEF FamilyExists, Drawn, Wrote, Redeeming, DB
    <2>3. Shape(q)'
        BY <1>1, <2>1, InvAt DEF Shape
    <2>4. Names(q)'
        BY <1>1, <1>3, <2>1, <2>2, InvAt DEF Names, DB
    <2>5. Locked(q)'
        BY <1>6, <2>1, <2>2, InvAt DEF Locked
    <2>6. Drawn(q) => \A c \in claims' : c[1] = job[q].id
                         => c[2] = job[q].family /\ pc'[q] = "close"
        <3>. SUFFICES ASSUME Drawn(q), NEW c \in claims', c[1] = job[q].id
                      PROVE  c[2] = job[q].family /\ pc'[q] = "close"
            OBVIOUS
        <3>1. CASE c \in claims
            <4>1. c[2] = job[q].family /\ pc[q] = "close"
                BY <3>1, InvAt DEF Found
            <4>. QED BY <1>1, <2>1, <4>1
        <3>2. CASE c \notin claims
            <4>1. c[1] = m /\ c[2] = f /\ job[r].op \in {"signup", "login"}
                BY <1>3, <1>4, <3>2
            <4>2. q = r
                BY <4>1 DEF MembershipInv, Apart
            <4>. QED BY <1>2, <4>1, <4>2
        <3>. QED BY <3>1, <3>2
    <2>7. Found(q)'
        BY <1>1, <1>6, <2>1, <2>2, <2>6, InvAt DEF Found, DB
    <2>. QED BY <2>3, <2>4, <2>5, <2>7 DEF Own
<1>9. ASSUME NEW p \in Requests, NEW q \in Requests, p # q
      PROVE  Apart(p, q)'
    <2>1. Apart(p, q)
        BY <1>9 DEF MembershipInv
    <2>2. job' = job /\ (pc'[q] = pc[q] \/ pc'[q] # "delete member")
        BY <1>1, <1>2 DEF Same
    <2>. QED BY <2>1, <2>2 DEF Apart, Wrote, Drawn
<1>. QED BY <1>5, <1>7, <1>8, <1>9 DEF MembershipInv

-----------------------------------------------------------------------------
(* The COMMIT.                                                             *)

\* Somebody joins: with a new family or with an invite, or by the hand of a
\* member.
Joins(r) ==
    LET m == job[r].id
        w == job[r].wrote
    IN  /\ Wrote(r, "member")
        /\ families' = families \cup (IF "family" \in w THEN {m} ELSE {})
        /\ member' = [member EXCEPT ![m] = NewMember(r)]
        /\ accepted' = accepted \cup (IF "accept" \in w THEN {job[r].code} ELSE {})
        /\ tokens' = tokens \cup (IF "token" \in w THEN {m} ELSE {})
        /\ UNCHANGED <<invite, deleted>>
SignsIn(r) ==
    /\ Wrote(r, "token") /\ job[r].op = "login"
    /\ tokens' = tokens \cup {job[r].id}
    /\ UNCHANGED <<families, member, invite, accepted, deleted>>
Issues(r) ==
    /\ Wrote(r, "invite")
    /\ invite' = [invite EXCEPT ![job[r].code] = [family |-> job[r].family, creator |-> job[r].id]]
    /\ UNCHANGED <<families, member, accepted, deleted, tokens>>
Leaves(r) ==
    /\ Wrote(r, "delete member")
    /\ member' = [member EXCEPT ![job[r].id] = NoRow]
    /\ UNCHANGED <<families, invite, accepted, deleted, tokens>>
Revokes(r) ==
    /\ Wrote(r, "delete invite")
    /\ deleted' = deleted \cup {job[r].code}
    /\ UNCHANGED <<families, member, invite, accepted, tokens>>

\* Every COMMIT is one of these, or leaves the tables alone.
LEMMA CloseShape ==
    ASSUME MembershipInv, NEW r \in Requests, Close(r)
    PROVE  /\ UNCHANGED DB \/ Joins(r) \/ SignsIn(r) \/ Issues(r) \/ Leaves(r) \/ Revokes(r)
           /\ pc[r] = "close" /\ pc'[r] = "idle" /\ job'[r] = IdleJob /\ Only(r)
           /\ pc' \in [Requests -> PCs] /\ job' \in [Requests -> Job]
           /\ UNCHANGED <<claims, lapsed>>
<1>1. /\ pc[r] = "close" /\ pc' = [pc EXCEPT ![r] = "idle"] /\ job' = [job EXCEPT ![r] = IdleJob]
      /\ UNCHANGED <<claims, lapsed>>
    BY DEF Close, Goto
<1>2. /\ pc'[r] = "idle" /\ job'[r] = IdleJob /\ Only(r)
      /\ pc' \in [Requests -> PCs] /\ job' \in [Requests -> Job]
    BY <1>1, InvAt, IdleType DEF Only, Same, PCs
<1>3. /\ families' = IF Wrote(r, "family") THEN families \cup {job[r].family} ELSE families
      /\ member' = CASE Wrote(r, "member")        -> [member EXCEPT ![job[r].id] = NewMember(r)]
                     [] Wrote(r, "delete member") -> [member EXCEPT ![job[r].id] = NoRow]
                     [] OTHER                     -> member
      /\ invite' = IF Wrote(r, "invite")
                   THEN [invite EXCEPT ![job[r].code] =
                           [family |-> job[r].family, creator |-> job[r].id]]
                   ELSE invite
      /\ accepted' = IF Wrote(r, "accept") THEN accepted \cup {job[r].code} ELSE accepted
      /\ deleted' = IF Wrote(r, "delete invite") THEN deleted \cup {job[r].code} ELSE deleted
      /\ tokens' = IF Wrote(r, "token") THEN tokens \cup {job[r].id} ELSE tokens
    BY DEF Close
<1>4. /\ Wrote(r, "family") => Wrote(r, "member") /\ job[r].family = job[r].id
      /\ Wrote(r, "accept") => Wrote(r, "member")
      /\ Wrote(r, "member") => job[r].op \in {"signup", "create"}
      /\ Wrote(r, "token") => job[r].op = "login" \/ Wrote(r, "member")
      /\ Wrote(r, "invite") => job[r].op = "issue"
      /\ Wrote(r, "delete member") => job[r].op = "delete"
      /\ Wrote(r, "delete invite") => job[r].op = "revoke"
    BY <1>1, InvAt DEF Shape, Locked, Wrote
<1>5. CASE Wrote(r, "member")
    <2>1. ~Wrote(r, "invite") /\ ~Wrote(r, "delete member") /\ ~Wrote(r, "delete invite")
        BY <1>4, <1>5
    <2>2. Joins(r)
        BY <1>3, <1>4, <1>5, <2>1 DEF Joins, Wrote
    <2>. QED BY <1>1, <1>2, <2>2
<1>6. CASE ~Wrote(r, "member")
    <2>1. ~Wrote(r, "family") /\ ~Wrote(r, "accept")
        BY <1>4, <1>6
    <2>2. UNCHANGED DB \/ SignsIn(r) \/ Issues(r) \/ Leaves(r) \/ Revokes(r)
        <3>1. CASE Wrote(r, "token")
            BY <1>3, <1>4, <1>6, <2>1, <3>1 DEF SignsIn
        <3>2. CASE Wrote(r, "invite")
            BY <1>3, <1>4, <1>6, <2>1, <3>2 DEF Issues
        <3>3. CASE Wrote(r, "delete member")
            BY <1>3, <1>4, <1>6, <2>1, <3>3 DEF Leaves
        <3>4. CASE Wrote(r, "delete invite")
            BY <1>3, <1>4, <1>6, <2>1, <3>4 DEF Revokes
        <3>5. CASE /\ ~Wrote(r, "token") /\ ~Wrote(r, "invite") /\ ~Wrote(r, "delete member")
                   /\ ~Wrote(r, "delete invite")
            BY <1>3, <1>6, <2>1, <3>5 DEF DB
        <3>. QED BY <3>1, <3>2, <3>3, <3>4, <3>5
    <2>. QED BY <1>1, <1>2, <2>2
<1>. QED BY <1>5, <1>6

\* What the tables are to keep at a COMMIT of r.
Committed(r) ==
    /\ families \subseteq Ids /\ member \in [Ids -> MemberRow \cup {NoRow}]
    /\ invite \in [Invites -> InviteRow \cup {NoRow}]
    /\ accepted \subseteq Invites /\ deleted \subseteq Invites /\ tokens \subseteq Ids
    /\ Rows /\ EmailUnique /\ SharedInviteIsConcurrent /\ NoDanglingReference
    /\ \A q \in Requests \ {r} : Names(q) /\ Found(q) /\ Locked(q)

\* What a request has found survives the COMMIT of another that neither
\* changes the rows it goes by nor inserts one under its id.
LEMMA FoundStays ==
    ASSUME MembershipInv, NEW q \in Requests, Same(q), UNCHANGED claims,
           \/ job[q].op \in {"issue", "delete"} /\ pc[q] # "delete member" /\ job[q].wrote = {}
           \/ \A m : m = job[q].id /\ IsMember(m)' => IsMember(m) /\ member'[m] = member[m],
           Drawn(q) => job[q].id \notin families',
           Redeeming(q)
           => /\ invite'[job[q].code] = invite[job[q].code]
              /\ \A n, i : n \in Ids /\ i = job[q].code /\ Joined(n, i)'
                  => (Joined(n, i) /\ member'[n] = member[n]) \/ member'[n].slot # q
    PROVE  Found(q)'
<1>1. job'[q] = job[q] /\ pc'[q] = pc[q]
    BY DEF Same
<1>2. Drawn(q)' = Drawn(q) /\ (\A w : Wrote(q, w)' = Wrote(q, w)) /\ Redeeming(q)' = Redeeming(q)
    BY <1>1 DEF Drawn, Wrote, Redeeming
<1>3. Found(q)
    BY InvAt
<1>4. (pc[q] = "delete member" \/ Wrote(q, "delete member")
       => (IsMember(job[q].id) => ~member[job[q].id].primary))'
    BY <1>1, <1>2, <1>3 DEF Found, Wrote
<1>5. (job[q].op = "login" => (IsMember(job[q].id) => member[job[q].id].family = job[q].family))'
    BY <1>1, <1>3 DEF Found, Drawn
<1>6. (Redeeming(q)
       => /\ job[q].family = invite[job[q].code].family
          /\ \A n \in Ids : Joined(n, job[q].code) => member[n].slot # q)'
    BY <1>1, <1>2, <1>3 DEF Found
<1>7. (Drawn(q)
       => /\ ~IsMember(job[q].id) /\ job[q].id \notin families
          /\ \A c \in claims : c[1] = job[q].id => c[2] = job[q].family /\ pc[q] = "close")'
    BY <1>1, <1>2, <1>3 DEF Found, Drawn
<1>. QED BY <1>4, <1>5, <1>6, <1>7 DEF Found

\* A sign-in changes nothing but which members are referred to.
LEMMA SignInCommits ==
    ASSUME MembershipInv, NEW r \in Requests, Only(r), SignsIn(r), UNCHANGED claims
    PROVE  Committed(r)'
<1>. DEFINE n == job[r].id
<1>1. /\ IsMember(n) /\ tokens' = tokens \cup {n}
      /\ UNCHANGED <<families, member, invite, accepted, deleted, claims>>
    BY InvAt DEF SignsIn, Locked
<1>2. /\ \A m : IsMember(m)' = IsMember(m)
      /\ \A i : IsInvite(i)' = IsInvite(i)
      /\ \A m, i : Joined(m, i)' = Joined(m, i)
      /\ \A e : EmailTaken(e)' = EmailTaken(e)
      /\ \A m : m # n => Referred(m)' = Referred(m)
    BY <1>1 DEF IsMember, IsInvite, Joined, EmailTaken, HasEmail, Referred
<1>3. families' \subseteq Ids /\ member' \in [Ids -> MemberRow \cup {NoRow}]
      /\ invite' \in [Invites -> InviteRow \cup {NoRow}]
      /\ accepted' \subseteq Invites /\ deleted' \subseteq Invites /\ tokens' \subseteq Ids
    BY <1>1, InvAt DEF TypeOK, IsMember
<1>4. Rows'
    BY <1>1, <1>2, InvAt DEF Rows
<1>5. EmailUnique' /\ SharedInviteIsConcurrent' /\ NoDanglingReference'
    BY <1>1, <1>2, InvAt DEF EmailUnique, HasEmail, SharedInviteIsConcurrent, NoDanglingReference
<1>6. ASSUME NEW q \in Requests \ {r}
      PROVE  Names(q)' /\ Found(q)' /\ Locked(q)'
    <2>1. job'[q] = job[q] /\ pc'[q] = pc[q]
        BY DEF Only, Same
    <2>2. FamilyExists(q)' = FamilyExists(q) /\ Drawn(q)' = Drawn(q)
          /\ (\A w : Wrote(q, w)' = Wrote(q, w)) /\ Redeeming(q)' = Redeeming(q)
        BY <1>1, <2>1 DEF FamilyExists, Drawn, Wrote, Redeeming
    <2>3. Names(q)'
        BY <1>1, <2>1, <2>2, InvAt DEF Names
    <2>4. Found(q)'
        <3>1. Drawn(q) => job[q].id \notin families
            BY InvAt DEF Found
        <3>. QED BY <1>1, <1>2, <3>1, FoundStays DEF Only
    <2>5. Wrote(q, "delete member") => job[q].id # n
        BY DEF MembershipInv, Apart, SignsIn
    <2>6. Locked(q)'
        BY <1>1, <1>2, <2>1, <2>2, <2>5, InvAt DEF Locked
    <2>. QED BY <2>3, <2>4, <2>6
<1>. QED BY <1>3, <1>4, <1>5, <1>6 DEF Committed

\* A revocation takes an invite that nobody else is redeeming or revoking.
LEMMA RevocationCommits ==
    ASSUME MembershipInv, NEW r \in Requests, Only(r), Revokes(r), UNCHANGED claims
    PROVE  Committed(r)'
<1>. DEFINE x == job[r].code
<1>1. /\ IsInvite(x) /\ deleted' = deleted \cup {x} /\ Wrote(r, "delete invite")
      /\ UNCHANGED <<families, member, invite, accepted, tokens, claims>>
    BY InvAt DEF Revokes, Locked
<1>2. /\ \A m : IsMember(m)' = IsMember(m)
      /\ \A i : IsInvite(i)' <=> IsInvite(i) /\ i # x
      /\ \A m, i : Joined(m, i)' = Joined(m, i)
      /\ \A e : EmailTaken(e)' = EmailTaken(e)
      /\ \A m : Referred(m)' => Referred(m)
    BY <1>1 DEF IsMember, IsInvite, Joined, EmailTaken, HasEmail, Referred
<1>3. families' \subseteq Ids /\ member' \in [Ids -> MemberRow \cup {NoRow}]
      /\ invite' \in [Invites -> InviteRow \cup {NoRow}]
      /\ accepted' \subseteq Invites /\ deleted' \subseteq Invites /\ tokens' \subseteq Ids
    BY <1>1, InvAt DEF TypeOK, IsInvite
<1>4. Rows'
    BY <1>1, <1>2, InvAt DEF Rows, IsInvite
<1>5. EmailUnique' /\ SharedInviteIsConcurrent' /\ NoDanglingReference'
    BY <1>1, <1>2, InvAt DEF EmailUnique, HasEmail, SharedInviteIsConcurrent, NoDanglingReference
<1>6. ASSUME NEW q \in Requests \ {r}
      PROVE  Names(q)' /\ Found(q)' /\ Locked(q)'
    <2>1. job'[q] = job[q] /\ pc'[q] = pc[q]
        BY DEF Only, Same
    <2>2. FamilyExists(q)' = FamilyExists(q) /\ Drawn(q)' = Drawn(q)
          /\ (\A w : Wrote(q, w)' = Wrote(q, w)) /\ Redeeming(q)' = Redeeming(q)
        BY <1>1, <2>1 DEF FamilyExists, Drawn, Wrote, Redeeming
    <2>3. Names(q)'
        BY <1>1, <2>1, <2>2, InvAt DEF Names
    <2>4. Found(q)'
        <3>1. Drawn(q) => job[q].id \notin families
            BY InvAt DEF Found
        <3>. QED BY <1>1, <1>2, <3>1, FoundStays DEF Only
    <2>5. Wrote(q, "accept") \/ Wrote(q, "delete invite") => job[q].code # x
        BY <1>1 DEF MembershipInv, Apart
    <2>6. Locked(q)'
        BY <1>1, <1>2, <2>1, <2>2, <2>5, InvAt DEF Locked
    <2>. QED BY <2>3, <2>4, <2>6
<1>. QED BY <1>3, <1>4, <1>5, <1>6 DEF Committed

\* A new invite has a fresh code and a creator whom nobody is deleting.
LEMMA InviteCommits ==
    ASSUME MembershipInv, NEW r \in Requests, Only(r), Issues(r), UNCHANGED claims
    PROVE  Committed(r)'
<1>. DEFINE x == job[r].code
            n == job[r].id
            f == job[r].family
<1>1. /\ job[r].op = "issue" /\ Wrote(r, "invite") /\ IsMember(n) /\ x \in Invites
      /\ n \in Ids /\ f \in Ids /\ invite[x] = NoRow /\ <<n, f>> \in claims
      /\ UNCHANGED <<families, member, accepted, deleted, tokens, claims>>
    BY InvAt DEF Issues, Locked, Names, Shape, Wrote
<1>2. /\ invite'[x].family = f /\ invite'[x].creator = n /\ invite'[x] # NoRow
      /\ \A i \in Invites : i # x => invite'[i] = invite[i]
      /\ invite' \in [Invites -> InviteRow \cup {NoRow}]
    <2>1. /\ invite \in [Invites -> InviteRow \cup {NoRow}]
          /\ invite' = [invite EXCEPT ![x] = [family |-> f, creator |-> n]]
        BY InvAt DEF TypeOK, Issues
    <2>2. [family |-> f, creator |-> n] \in InviteRow
        BY <1>1 DEF InviteRow
    <2>. QED BY <1>1, <2>1, <2>2, ConstantsOK
<1>3. x \notin accepted /\ x \notin deleted
    BY <1>1, InvAt DEF Rows
<1>4. /\ \A m : IsMember(m)' = IsMember(m)
      /\ \A i : IsInvite(i)' <=> IsInvite(i) \/ i = x
      /\ \A m, i : Joined(m, i)' = Joined(m, i)
      /\ \A e : EmailTaken(e)' = EmailTaken(e)
    BY <1>1, <1>2, <1>3 DEF IsMember, IsInvite, Joined, EmailTaken, HasEmail
<1>5. \A m : Referred(m)' => Referred(m) \/ m = n
    BY <1>1, <1>2, <1>4 DEF Referred
<1>6. families' \subseteq Ids /\ member' \in [Ids -> MemberRow \cup {NoRow}]
      /\ accepted' \subseteq Invites /\ deleted' \subseteq Invites /\ tokens' \subseteq Ids
    BY <1>1, InvAt DEF TypeOK
<1>7. Rows'
    <2>1. \A i \in accepted : i \in Invites /\ i # x
        BY <1>3, InvAt DEF TypeOK
    <2>2. \A i \in deleted : i \in Invites /\ i # x
        BY <1>3, InvAt DEF TypeOK
    <2>. QED BY <1>1, <1>2, <1>4, <2>1, <2>2, InvAt DEF Rows
<1>8. EmailUnique' /\ SharedInviteIsConcurrent' /\ NoDanglingReference'
    <2>1. EmailUnique' /\ SharedInviteIsConcurrent'
        BY <1>1, <1>4, InvAt DEF EmailUnique, HasEmail, SharedInviteIsConcurrent
    <2>2. NoDanglingReference'
        BY <1>1, <1>2, <1>4, InvAt DEF NoDanglingReference
    <2>. QED BY <2>1, <2>2
<1>9. ASSUME NEW q \in Requests \ {r}
      PROVE  Names(q)' /\ Found(q)' /\ Locked(q)'
    <2>1. job'[q] = job[q] /\ pc'[q] = pc[q] /\ Apart(r, q)
        BY DEF Only, Same, MembershipInv
    <2>2. FamilyExists(q)' = FamilyExists(q) /\ (\A w : Wrote(q, w)' = Wrote(q, w))
        BY <1>1, <2>1 DEF FamilyExists, Wrote
    <2>3. job[q].code # x
        BY <1>1, <2>1 DEF Apart
    <2>4. job[q].code \in Invites \cup {NoInvite}
        BY InvAt DEF Job
    <2>5. Names(q)'
        BY <1>1, <1>2, <2>1, <2>2, <2>3, <2>4, InvAt DEF Names
    <2>6. Found(q)'
        <3>1. Drawn(q) => job[q].id \notin families
            BY InvAt DEF Found
        <3>2. Redeeming(q) => job[q].code \in Invites
            BY <2>4, InvAt DEF Redeeming, Shape, Wrote
        <3>. QED BY <1>1, <1>2, <1>4, <2>3, <3>1, <3>2, FoundStays DEF Only
    <2>7. Wrote(q, "delete member") => job[q].id # n
        BY <1>1, <2>1 DEF Apart
    <2>8. Locked(q)'
        BY <1>1, <1>4, <1>5, <2>1, <2>2, <2>7, InvAt DEF Locked
    <2>. QED BY <2>5, <2>6, <2>8
<1>. QED BY <1>2, <1>6, <1>7, <1>8, <1>9 DEF Committed

\* A member who leaves is no primary one, and nothing refers or is about to
\* refer to it.
LEMMA DeletionCommits ==
    ASSUME MembershipInv, NEW r \in Requests, Only(r), Leaves(r), UNCHANGED claims
    PROVE  Committed(r)'
<1>. DEFINE n == job[r].id
<1>1. /\ Wrote(r, "delete member") /\ IsMember(n) /\ ~Referred(n) /\ ~member[n].primary
      /\ UNCHANGED <<families, invite, accepted, deleted, tokens, claims>>
    BY InvAt DEF Leaves, Locked, Found
<1>2. /\ n \in Ids /\ member'[n] = NoRow /\ \A m \in Ids : m # n => member'[m] = member[m]
      /\ member' \in [Ids -> MemberRow \cup {NoRow}]
    BY <1>1, InvAt DEF TypeOK, IsMember, Leaves
<1>3. /\ \A m : IsMember(m)' <=> IsMember(m) /\ m # n
      /\ \A m : IsMember(m)' => member'[m] = member[m]
    BY <1>1, <1>2 DEF IsMember
<1>4. /\ \A i : IsInvite(i)' = IsInvite(i)
      /\ \A m : Referred(m)' = Referred(m)
    BY <1>1 DEF IsInvite, Referred
<1>5. /\ \A m, i : Joined(m, i)' <=> Joined(m, i) /\ m # n
      /\ \A m, e : HasEmail(m, e)' => HasEmail(m, e)
      /\ \A e : EmailTaken(e)' => EmailTaken(e)
    BY <1>3 DEF Joined, HasEmail, EmailTaken
<1>6. families' \subseteq Ids /\ invite' \in [Invites -> InviteRow \cup {NoRow}]
      /\ accepted' \subseteq Invites /\ deleted' \subseteq Invites /\ tokens' \subseteq Ids
    BY <1>1, InvAt DEF TypeOK
<1>7. \A m \in tokens : m # n
    BY <1>1 DEF Referred
<1>8. Rows'
    <2>1. \A f \in families : f # n /\ f \in Ids
        BY <1>1, InvAt DEF Rows, TypeOK
    <2>2. (\A f \in families : IsMember(f) /\ member[f].primary /\ member[f].family = f)'
        BY <1>1, <1>2, <1>3, <2>1, InvAt DEF Rows
    <2>3. (\A m \in Ids : IsMember(m) =>
             /\ member[m].family \in families
             /\ member[m].primary => member[m].family = m
             /\ LET i == member[m].via
                IN  i # NoInvite
                    => m \in tokens /\ i \in accepted /\ invite[i].family = member[m].family)'
        BY <1>1, <1>3, InvAt DEF Rows
    <2>4. (\A i \in accepted : invite[i] # NoRow /\ \E m \in Ids : Joined(m, i))'
        <3>. SUFFICES ASSUME NEW i \in accepted
                      PROVE  invite[i] # NoRow /\ \E m \in Ids : Joined(m, i)'
            BY <1>1
        <3>1. PICK m \in Ids : Joined(m, i)
            BY InvAt DEF Rows
        <3>2. i # NoInvite
            BY InvAt, ConstantsOK DEF TypeOK
        <3>3. m \in tokens
            BY <3>1, <3>2, InvAt DEF Rows, Joined
        <3>. QED BY <1>5, <1>7, <3>1, <3>3, InvAt DEF Rows
    <2>5. (\A i \in deleted : invite[i] # NoRow)'
          /\ (\A i \in Invites : invite[i] # NoRow => <<invite[i].creator, invite[i].family>> \in claims)'
        BY <1>1, InvAt DEF Rows
    <2>6. (\A c \in claims : IsMember(c[1]) => member[c[1]].family = c[2])'
        <3>. SUFFICES ASSUME NEW c \in claims, IsMember(c[1])'
                      PROVE  member'[c[1]].family = c[2]
            BY <1>1
        <3>1. IsMember(c[1]) /\ member'[c[1]] = member[c[1]]
            BY <1>3
        <3>. QED BY <3>1, InvAt DEF Rows
    <2>. QED BY <2>2, <2>3, <2>4, <2>5, <2>6 DEF Rows
<1>9. EmailUnique' /\ SharedInviteIsConcurrent' /\ NoDanglingReference'
    <2>1. EmailUnique'
        BY <1>5, InvAt DEF EmailUnique
    <2>2. SharedInviteIsConcurrent'
        BY <1>3, InvAt DEF SharedInviteIsConcurrent
    <2>3. NoDanglingReference'
        <3>1. \A i \in Invites : IsInvite(i) => invite[i].creator # n
            BY <1>1 DEF Referred
        <3>. QED BY <1>1, <1>3, <1>4, <1>7, <3>1, InvAt DEF NoDanglingReference
    <2>. QED BY <2>1, <2>2, <2>3
<1>10. ASSUME NEW q \in Requests \ {r}
      PROVE  Names(q)' /\ Found(q)' /\ Locked(q)'
    <2>1. job'[q] = job[q] /\ pc'[q] = pc[q] /\ Apart(r, q) /\ Apart(q, r)
        BY DEF Only, Same, MembershipInv
    <2>2. FamilyExists(q)' = FamilyExists(q) /\ (\A w : Wrote(q, w)' = Wrote(q, w))
        BY <1>1, <2>1 DEF FamilyExists, Wrote
    <2>3. Names(q)'
        BY <1>1, <2>1, <2>2, InvAt DEF Names
    <2>4. Found(q)'
        <3>1. Drawn(q) => job[q].id \notin families
            BY InvAt DEF Found
        <3>2. \A m, i : Joined(m, i)' => Joined(m, i) /\ member'[m] = member[m]
            BY <1>3, <1>5 DEF Joined
        <3>. QED BY <1>1, <1>3, <3>1, <3>2, FoundStays DEF Only
    <2>5. Wrote(q, "token") \/ Wrote(q, "invite") \/ Wrote(q, "delete member") => job[q].id # n
        BY <1>1, <2>1 DEF Apart
    <2>6. Locked(q)'
        BY <1>1, <1>3, <1>4, <1>5, <2>1, <2>2, <2>5, InvAt DEF Locked
    <2>. QED BY <2>3, <2>4, <2>6
<1>. QED BY <1>2, <1>6, <1>8, <1>9, <1>10 DEF Committed

\* Who joins does so under an id nobody else has, with an email nobody else
\* has, in a family that is there or that joins with its founder.
LEMMA JoinCommits ==
    ASSUME MembershipInv, NEW r \in Requests, Only(r), Joins(r), pc[r] = "close", UNCHANGED claims
    PROVE  Committed(r)'
<1>. DEFINE n == job[r].id
            x == job[r].code
            f == job[r].family
            N == NewMember(r)
<1>1. /\ Wrote(r, "member") /\ job[r].op \in {"signup", "create"} /\ Drawn(r)
      /\ job[r].op = "signup" => Wrote(r, "token") /\ (Wrote(r, "family") <=> x = NoInvite)
                                 /\ (Wrote(r, "accept") <=> x # NoInvite)
      /\ job[r].op = "create" => ~Wrote(r, "family") /\ ~Wrote(r, "accept")
    BY InvAt DEF Joins, Shape, Wrote, Drawn
<1>2. /\ n \in Ids /\ ~IsMember(n) /\ n \notin families /\ ~EmailTaken(job[r].email)
      /\ \A c \in claims : c[1] = n => c[2] = f
    BY <1>1, InvAt DEF Names, Found, Locked
<1>3. /\ Wrote(r, "family") => f = n
      /\ ~Wrote(r, "family") => f \in families
      /\ families \subseteq Ids
    BY <1>1, InvAt DEF Locked, FamilyExists, TypeOK
<1>4. Wrote(r, "accept") => /\ IsInvite(x) /\ f = invite[x].family
                            /\ \A m \in Ids : Joined(m, x) => member[m].slot # r
    BY InvAt DEF Locked, Found, Redeeming
<1>5. /\ N.family = f /\ N.email = job[r].email /\ N.slot = r
      /\ N.primary = (job[r].op = "signup" /\ x = NoInvite)
      /\ N.via = IF job[r].op = "signup" THEN x ELSE NoInvite
      /\ N \in MemberRow /\ N # NoRow
    <2>1. f \in Ids /\ job[r].email \in Emails \cup {NoEmail} /\ x \in Invites \cup {NoInvite}
        BY <1>2, <1>3, InvAt DEF Job
    <2>2. /\ N.family = f /\ N.email = job[r].email /\ N.slot = r
          /\ N.primary = (job[r].op = "signup" /\ x = NoInvite)
          /\ N.via = IF job[r].op = "signup" THEN x ELSE NoInvite
        BY ZenonT(30) DEF NewMember
    <2>3. N \in MemberRow
        BY <2>1 DEF NewMember, MemberRow
    <2>. QED BY <2>2, <2>3, ConstantsOK
<1>6. /\ N.primary <=> Wrote(r, "family")
      /\ N.via # NoInvite => N.via = x /\ Wrote(r, "accept") /\ Wrote(r, "token")
      /\ Wrote(r, "accept") => N.via = x
    BY <1>1, <1>5
<1>7. /\ member'[n] = N /\ \A m \in Ids : m # n => member'[m] = member[m]
      /\ member' \in [Ids -> MemberRow \cup {NoRow}]
    <2>1. member \in [Ids -> MemberRow \cup {NoRow}] /\ member' = [member EXCEPT ![n] = N]
        BY InvAt DEF TypeOK, Joins
    <2>. QED BY <1>2, <1>5, <2>1
<1>8. /\ families' = families \cup (IF Wrote(r, "family") THEN {n} ELSE {})
      /\ accepted' = accepted \cup (IF Wrote(r, "accept") THEN {x} ELSE {})
      /\ tokens' = tokens \cup (IF Wrote(r, "token") THEN {n} ELSE {})
      /\ UNCHANGED <<invite, deleted, claims>>
    BY DEF Joins, Wrote
<1>. HIDE DEF N
<1>9. /\ \A m : IsMember(m)' <=> IsMember(m) \/ m = n
      /\ \A m : IsMember(m) => m \in Ids /\ m # n /\ member'[m] = member[m]
      /\ \A i : IsInvite(i)' = IsInvite(i)
    BY <1>2, <1>5, <1>7, <1>8 DEF IsMember, IsInvite
<1>10. /\ \A m, i : Joined(m, i)' <=> Joined(m, i) \/ (m = n /\ N.via = i)
       /\ \A m, e : HasEmail(m, e)' <=> HasEmail(m, e) \/ (m = n /\ N.email = e)
       /\ \A m : Referred(m)' => Referred(m) \/ m = n
    <2>1. \A m, i : Joined(m, i)' <=> Joined(m, i) \/ (m = n /\ N.via = i)
        BY <1>2, <1>7, <1>9 DEF Joined
    <2>2. \A m, e : HasEmail(m, e)' <=> HasEmail(m, e) \/ (m = n /\ N.email = e)
        BY <1>2, <1>7, <1>9 DEF HasEmail
    <2>3. \A m : Referred(m)' => Referred(m) \/ m = n
        BY <1>8 DEF Referred, IsInvite
    <2>. QED BY <2>1, <2>2, <2>3
<1>11. \A e : EmailTaken(e)' => EmailTaken(e) \/ (e = job[r].email /\ e # NoEmail)
    BY <1>5, <1>10 DEF EmailTaken
<1>12. families' \subseteq Ids /\ invite' \in [Invites -> InviteRow \cup {NoRow}]
       /\ accepted' \subseteq Invites /\ deleted' \subseteq Invites /\ tokens' \subseteq Ids
    BY <1>2, <1>4, <1>8, InvAt DEF TypeOK, IsInvite
<1>13. Rows'
    <2>1. (\A g \in families : IsMember(g) /\ member[g].primary /\ member[g].family = g)'
        <3>. SUFFICES ASSUME NEW g \in families'
                      PROVE  IsMember(g)' /\ member'[g].primary /\ member'[g].family = g
            OBVIOUS
        <3>1. CASE g \in families
            <4>1. IsMember(g) /\ member[g].primary /\ member[g].family = g
                BY <3>1, InvAt DEF Rows
            <4>. QED BY <1>9, <4>1
        <3>2. CASE g \notin families
            <4>1. g = n /\ Wrote(r, "family")
                BY <1>8, <3>2
            <4>2. N.primary /\ N.family = n
                BY <1>3, <1>5, <1>6, <4>1
            <4>. QED BY <1>7, <1>9, <4>1, <4>2
        <3>. QED BY <3>1, <3>2
    <2>2. (\A m \in Ids : IsMember(m) =>
             /\ member[m].family \in families
             /\ member[m].primary => member[m].family = m
             /\ LET i == member[m].via
                IN  i # NoInvite
                    => m \in tokens /\ i \in accepted /\ invite[i].family = member[m].family)'
        <3>. SUFFICES ASSUME NEW m \in Ids, IsMember(m)'
                      PROVE  /\ member'[m].family \in families'
                             /\ member'[m].primary => member'[m].family = m
                             /\ member'[m].via # NoInvite
                                => /\ m \in tokens' /\ member'[m].via \in accepted'
                                   /\ invite'[member'[m].via].family = member'[m].family
            OBVIOUS
        <3>1. CASE m # n
            <4>1. IsMember(m) /\ member'[m] = member[m]
                BY <1>9, <3>1
            <4>. QED BY <1>8, <4>1, InvAt DEF Rows
        <3>2. CASE m = n
            <4>1. f \in families' /\ (N.primary => f = n)
                BY <1>3, <1>6, <1>8
            <4>2. N.via # NoInvite => n \in tokens' /\ N.via \in accepted' /\ invite'[N.via].family = f
                BY <1>4, <1>6, <1>8
            <4>. QED BY <1>5, <1>7, <3>2, <4>1, <4>2
        <3>. QED BY <3>1, <3>2
    <2>3. (\A i \in accepted : invite[i] # NoRow /\ \E m \in Ids : Joined(m, i))'
        <3>. SUFFICES ASSUME NEW i \in accepted'
                      PROVE  invite'[i] # NoRow /\ \E m \in Ids : Joined(m, i)'
            OBVIOUS
        <3>1. CASE i \in accepted
            BY <1>8, <1>10, <3>1, InvAt DEF Rows
        <3>2. CASE i \notin accepted
            <4>1. i = x /\ Wrote(r, "accept")
                BY <1>8, <3>2
            <4>. QED BY <1>2, <1>4, <1>6, <1>8, <1>10, <4>1 DEF IsInvite
        <3>. QED BY <3>1, <3>2
    <2>4. (\A i \in deleted : invite[i] # NoRow)'
          /\ (\A i \in Invites : invite[i] # NoRow => <<invite[i].creator, invite[i].family>> \in claims)'
        BY <1>8, InvAt DEF Rows
    <2>5. (\A c \in claims : IsMember(c[1]) => member[c[1]].family = c[2])'
        <3>. SUFFICES ASSUME NEW c \in claims, IsMember(c[1])'
                      PROVE  member'[c[1]].family = c[2]
            BY <1>8
        <3>1. CASE c[1] = n
            BY <1>2, <1>5, <1>7, <3>1
        <3>2. CASE c[1] # n
            BY <1>9, <3>2, InvAt DEF Rows
        <3>. QED BY <3>1, <3>2
    <2>. QED BY <2>1, <2>2, <2>3, <2>4, <2>5 DEF Rows
<1>14. EmailUnique'
    <2>. SUFFICES ASSUME NEW m \in Ids, NEW k \in Ids, NEW e \in Emails,
                         HasEmail(m, e)', HasEmail(k, e)'
                  PROVE  m = k
        BY DEF EmailUnique
    <2>1. e # NoEmail
        BY ConstantsOK
    <2>2. \A h \in Ids : HasEmail(h, e) => e # job[r].email
        BY <1>2, <2>1 DEF EmailTaken
    <2>. QED BY <1>5, <1>10, <2>2, InvAt DEF EmailUnique
<1>15. SharedInviteIsConcurrent'
    <2>. SUFFICES ASSUME NEW m \in Ids, NEW k \in Ids, m # k, IsMember(m)', IsMember(k)',
                         member'[m].via = member'[k].via, member'[m].via # NoInvite
                  PROVE  member'[m].slot # member'[k].slot
        BY DEF SharedInviteIsConcurrent
    <2>1. \A h \in Ids : IsMember(h) /\ member[h].via = N.via /\ N.via # NoInvite
                         => member[h].slot # N.slot
        BY <1>4, <1>5, <1>6 DEF Joined
    <2>2. CASE m = n
        BY <1>7, <1>9, <2>1, <2>2
    <2>3. CASE k = n
        BY <1>7, <1>9, <2>1, <2>3
    <2>4. CASE m # n /\ k # n
        BY <1>9, <2>4, InvAt DEF SharedInviteIsConcurrent
    <2>. QED BY <2>2, <2>3, <2>4
<1>16. NoDanglingReference'
    BY <1>8, <1>9, InvAt DEF NoDanglingReference
<1>17. ASSUME NEW q \in Requests \ {r}
       PROVE  Names(q)' /\ Found(q)' /\ Locked(q)'
    <2>1. job'[q] = job[q] /\ pc'[q] = pc[q] /\ Apart(r, q) /\ Apart(q, r)
        BY DEF Only, Same, MembershipInv
    <2>2. (FamilyExists(q) => FamilyExists(q)') /\ (\A w : Wrote(q, w)' = Wrote(q, w))
        BY <1>8, <2>1 DEF FamilyExists, Wrote
    <2>3. Names(q)'
        BY <1>8, <2>1, <2>2, InvAt DEF Names
    <2>4. job[q].id = n
          => job[q].op \in {"issue", "delete"} /\ job[q].wrote = {} /\ pc[q] # "delete member"
        BY <1>1, <2>1 DEF Apart
    <2>5. Found(q)'
        <3>1. Drawn(q) => job[q].id \notin families'
            <4>1. Drawn(q) => job[q].id \notin families /\ job[q].id # n
                BY <2>4, InvAt DEF Found, Drawn
            <4>. QED BY <1>8, <4>1
        <3>2. \A m, i : Joined(m, i)' => (Joined(m, i) /\ member'[m] = member[m]) \/ member'[m].slot # q
            BY <1>5, <1>7, <1>9, <1>10 DEF Joined
        <3>3. job[q].id # n => \A m : m = job[q].id /\ IsMember(m)'
                                      => IsMember(m) /\ member'[m] = member[m]
            BY <1>9
        <3>. QED BY <1>8, <2>4, <3>1, <3>2, <3>3, FoundStays DEF Only
    <2>6. Wrote(q, "delete member") => job[q].id # n
        BY <2>4 DEF Wrote
    <2>7. Wrote(q, "member") => ~EmailTaken(job[q].email)'
        <3>1. Wrote(q, "member") => ~EmailTaken(job[q].email)
            BY InvAt DEF Locked
        <3>2. Wrote(q, "member") /\ job[q].email = job[r].email => job[q].email = NoEmail
            BY <1>1, <2>1 DEF Apart
        <3>3. Wrote(q, "member") => ~(\E e : e = job[q].email /\ EmailTaken(e)')
            BY <1>11, <3>1, <3>2
        <3>. QED BY <2>1, <3>3
    <2>8. Locked(q)'
        BY <1>9, <1>10, <2>1, <2>2, <2>6, <2>7, InvAt DEF Locked
    <2>. QED BY <2>3, <2>5, <2>8
<1>. QED BY <1>7, <1>12, <1>13, <1>14, <1>15, <1>16, <1>17 DEF Committed

\* A COMMIT keeps the rows in order, and what is said of the other requests.
LEMMA CloseStep ==
    ASSUME MembershipInv, NEW r \in Requests, Close(r)
    PROVE  MembershipInv'
<1>1. /\ pc[r] = "close" /\ pc'[r] = "idle" /\ job'[r] = IdleJob /\ Only(r)
      /\ pc' \in [Requests -> PCs] /\ job' \in [Requests -> Job] /\ UNCHANGED <<claims, lapsed>>
      /\ UNCHANGED DB \/ Joins(r) \/ SignsIn(r) \/ Issues(r) \/ Leaves(r) \/ Revokes(r)
    BY CloseShape
<1>2. Committed(r)'
    <2>1. CASE UNCHANGED DB
        <3>1. /\ families' \subseteq Ids /\ member' \in [Ids -> MemberRow \cup {NoRow}]
              /\ invite' \in [Invites -> InviteRow \cup {NoRow}]
              /\ accepted' \subseteq Invites /\ deleted' \subseteq Invites /\ tokens' \subseteq Ids
            BY <2>1, InvAt DEF TypeOK, DB
        <3>2. Rows' /\ EmailUnique' /\ SharedInviteIsConcurrent' /\ NoDanglingReference'
            BY <1>1, <2>1, SameRows, InvAt DEF Kept
        <3>3. \A q \in Requests \ {r} : Own(q)'
            BY <1>1, <2>1, SameOwn DEF MembershipInv, Only, Kept
        <3>. QED BY <3>1, <3>2, <3>3 DEF Committed, Own
    <2>. QED BY <1>1, <2>1, JoinCommits, SignInCommits, InviteCommits, DeletionCommits,
                RevocationCommits
<1>3. TypeOK'
    <2>1. claims' \subseteq Ids \X Ids /\ lapsed' \subseteq Invites
        BY <1>1, InvAt DEF TypeOK
    <2>. QED BY <1>1, <1>2, <2>1 DEF Committed, TypeOK
<1>4. ASSUME NEW q \in Requests
      PROVE  Own(q)'
    <2>1. CASE q = r
        BY <1>1, <2>1, IdleRequest
    <2>2. CASE q # r
        <3>1. Shape(q)'
            BY <1>1, <2>2, InvAt DEF Only, Same, Shape
        <3>. QED BY <1>2, <2>2, <3>1 DEF Committed, Own
    <2>. QED BY <2>1, <2>2
<1>5. ASSUME NEW p \in Requests, NEW q \in Requests, p # q
      PROVE  Apart(p, q)'
    <2>1. CASE p = r \/ q = r
        BY <1>1, <1>4, <1>5, <2>1, IdleApart DEF Own
    <2>2. CASE p # r /\ q # r
        BY <1>1, <1>5, <2>2, SameApart DEF MembershipInv, Only
    <2>. QED BY <2>1, <2>2
<1>. QED BY <1>2, <1>3, <1>4, <1>5 DEF Committed, MembershipInv

-----------------------------------------------------------------------------
(* The invariant.                                                          *)

\* Nobody is there at the start, and every slot is free.
LEMMA MembershipInit == Init => MembershipInv
<1>. SUFFICES ASSUME Init
              PROVE  MembershipInv
    OBVIOUS
<1>1. TypeOK
    BY IdleType DEF Init, TypeOK, PCs
<1>2. \A m : ~IsMember(m) /\ ~\E i : IsInvite(i)
    BY DEF Init, IsMember, IsInvite
<1>3. Rows /\ EmailUnique /\ SharedInviteIsConcurrent /\ NoDanglingReference
    BY <1>2 DEF Init, Rows, EmailUnique, HasEmail, SharedInviteIsConcurrent, NoDanglingReference
<1>4. ASSUME NEW r \in Requests
      PROVE  pc[r] = "idle" /\ job[r] = IdleJob
    BY DEF Init
<1>5. ASSUME NEW r \in Requests
      PROVE  Own(r)
    <2>1. /\ pc[r] = "idle" /\ job[r].op = "none" /\ job[r].wrote = {} /\ job[r].status = "ok"
          /\ job[r].id = NoId /\ job[r].code = NoInvite
        BY <1>4 DEF IdleJob
    <2>2. Shape(r) /\ Names(r)
        BY <2>1 DEF Shape, Names, Wrote
    <2>3. Found(r) /\ Locked(r)
        BY <2>1 DEF Found, Locked, Wrote, Redeeming, Drawn
    <2>. QED BY <2>2, <2>3 DEF Own
<1>6. ASSUME NEW q \in Requests, NEW r \in Requests
      PROVE  Apart(q, r)
    <2>1. job[q].op = "none" /\ job[q].wrote = {}
        BY <1>4 DEF IdleJob
    <2>. QED BY <2>1 DEF Apart, Wrote, Drawn
<1>. QED BY <1>1, <1>3, <1>5, <1>6 DEF MembershipInv

\* Every step keeps the invariant.
LEMMA MembershipNext == MembershipInv /\ [Next]_vars => MembershipInv'
<1>. SUFFICES ASSUME MembershipInv, [Next]_vars
              PROVE  MembershipInv'
    OBVIOUS
<1>1. CASE Lapse \/ UNCHANGED vars
    <2>1. Kept /\ UNCHANGED <<pc, job>> /\ lapsed' \subseteq Invites
        BY <1>1, InvAt DEF Lapse, vars, DB, Kept, MembershipInv, TypeOK
    <2>. QED BY <2>1, LapseStep
<1>2. ASSUME NEW r \in Requests, Arrive(r)
      PROVE  MembershipInv'
    BY <1>2, ArriveStep
<1>3. ASSUME NEW r \in Requests, Fail(r)
      PROVE  MembershipInv'
    BY <1>3, RollbackStep DEF Fail
<1>4. ASSUME NEW r \in Requests, Handle(r)
      PROVE  MembershipInv'
    BY <1>4, CheckEmailStep, FindInviteStep, AcceptStep, AddFamilyStep, AddMemberStep,
       FindLoginStep, AddTokenStep, AddInviteStep, FindMemberStep, DeleteRowStep,
       FindOwnInviteStep, DeleteInviteStep, ReplyStep, CloseStep DEF Handle
<1>. QED BY <1>1, <1>2, <1>3, <1>4 DEF Next

\* In every reachable state: the types, the rows in order, and each request
\* holding on to what it has found and written, apart from the others.
THEOREM MembershipInvariant == Spec => []MembershipInv
BY MembershipInit, MembershipNext, PTL DEF Spec

\* The tables and the requests always have their types.
THEOREM MembershipTypeOK == Spec => []TypeOK
<1>1. MembershipInv => TypeOK
    BY DEF MembershipInv
<1>. QED BY <1>1, MembershipInvariant, PTL

\* signup and create check the email in one statement and insert in another:
\* still no two members share one.
THEOREM MembersShareNoEmail == Spec => []EmailUnique
<1>1. MembershipInv => EmailUnique
    BY DEF MembershipInv
<1>. QED BY <1>1, MembershipInvariant, PTL

\* Two who joined with one invite were served by different slots: the second
\* had found it active before the first committed.
THEOREM SharersOverlapped == Spec => []SharedInviteIsConcurrent
<1>1. MembershipInv => SharedInviteIsConcurrent
    BY DEF MembershipInv
<1>. QED BY <1>1, MembershipInvariant, PTL

\* Neither a refresh token nor an invite outlives its member, though a login
\* or an invitation may overlap the deletion.
THEOREM MembershipReferencesHold == Spec => []NoDanglingReference
<1>1. MembershipInv => NoDanglingReference
    BY DEF MembershipInv
<1>. QED BY <1>1, MembershipInvariant, PTL

\* An invite is accepted exactly if somebody joined with it: redeem commits
\* with the member it is for or not at all, and such a member stays.
THEOREM InviteAcceptedIffJoined == Spec => []AcceptedIffJoined
<1>1. MembershipInv => AcceptedIffJoined
    <2>. SUFFICES ASSUME MembershipInv, NEW i \in Invites
                  PROVE  i \in accepted <=> \E m \in Ids : Joined(m, i)
        BY DEF AcceptedIffJoined
    <2>1. i # NoInvite
        BY ConstantsOK
    <2>. QED BY <2>1, InvAt DEF Rows, Joined, MembershipInv
<1>. QED BY <1>1, MembershipInvariant, PTL

\* Every family has one primary member, the one it was founded with.
THEOREM FamilyKeepsItsPrimary == Spec => []FamilyHasItsPrimary
<1>1. MembershipInv => FamilyHasItsPrimary
    <2>. SUFFICES ASSUME Rows, families \subseteq Ids
                  PROVE  FamilyHasItsPrimary
        BY DEF MembershipInv, TypeOK
    <2>1. \A f \in families :
            \E m \in Ids : IsMember(m) /\ member[m].family = f /\ member[m].primary
        BY DEF Rows
    <2>2. \A m \in Ids : IsMember(m) =>
            /\ member[m].family \in families
            /\ member[m].primary => member[m].family = m
        BY DEF Rows
    <2>. QED BY <2>1, <2>2 DEF FamilyHasItsPrimary
<1>. QED BY <1>1, MembershipInvariant, PTL

\* Who joins with an invite is in the family of the member who issued it.
THEOREM JoinedInvitersFamily == Spec => []JoinsInvitersFamily
<1>1. MembershipInv => JoinsInvitersFamily
    <2>. SUFFICES ASSUME Rows, NEW m \in Ids, NEW i \in Invites, Joined(m, i),
                         IsMember(invite[i].creator)
                  PROVE  member[m].family = member[invite[i].creator].family
        BY DEF MembershipInv, JoinsInvitersFamily
    <2>1. IsMember(m) /\ member[m].via = i /\ i # NoInvite
        BY ConstantsOK DEF Joined
    <2>2. i \in accepted /\ invite[i].family = member[m].family
        BY <2>1 DEF Rows
    <2>3. <<invite[i].creator, invite[i].family>> \in claims
        BY <2>2 DEF Rows
    <2>4. \A c \in claims : IsMember(c[1]) => member[c[1]].family = c[2]
        BY DEF Rows
    <2>. QED BY <2>2, <2>3, <2>4
<1>. QED BY <1>1, MembershipInvariant, PTL

\* Only a COMMIT adds a member, and one that redeems holds the row of an
\* invite nobody has deleted.
LEMMA AdmittedByLiveInvite ==
    ASSUME MembershipInv, Next, NEW m \in Ids, ~IsMember(m), IsMember(m)'
    PROVE  member'[m].via \notin deleted
<1>1. PICK r \in Requests : Close(r)
    <2>1. UNCHANGED member => IsMember(m)' = IsMember(m)
        BY DEF IsMember
    <2>2. ~UNCHANGED member
        BY <2>1
    <2>3. \A r \in Requests : Arrive(r) => UNCHANGED member
        BY DEF Arrive, Signup, Login, CreateMember, DeleteMember, IssueInvite, RevokeInvite,
           Start, DB
    <2>4. \A r \in Requests : Handle(r) => UNCHANGED member \/ Close(r)
        BY DEF Handle, CheckEmail, FindInvite, Accept, AddFamily, AddMember, FindLogin, AddToken,
           AddInvite, FindMember, DeleteRow, FindOwnInvite, DeleteInvite, Reply, Refuse, Write,
           Rollback, Read, DB
    <2>5. \A r \in Requests : Fail(r) => UNCHANGED member
        BY DEF Fail, Rollback, Read, DB
    <2>6. Lapse => UNCHANGED member
        BY DEF Lapse, DB
    <2>. QED BY <2>2, <2>3, <2>4, <2>5, <2>6 DEF Next
<1>2. Joins(r)
    <2>1. \/ UNCHANGED DB \/ Joins(r) \/ SignsIn(r) \/ Issues(r) \/ Leaves(r) \/ Revokes(r)
        BY <1>1, CloseShape
    <2>2. UNCHANGED member => IsMember(m)' = IsMember(m)
        BY DEF IsMember
    <2>3. ~Leaves(r)
        <3>1. Leaves(r) => member' = [member EXCEPT ![job[r].id] = NoRow]
            BY DEF Leaves
        <3>2. member \in [Ids -> MemberRow \cup {NoRow}]
            BY InvAt DEF TypeOK
        <3>. QED BY <3>1, <3>2 DEF IsMember
    <2>. QED BY <2>1, <2>2, <2>3 DEF SignsIn, Issues, Revokes, DB
<1>3. member'[m] = NewMember(r)
    <2>1. member \in [Ids -> MemberRow \cup {NoRow}]
          /\ member' = [member EXCEPT ![job[r].id] = NewMember(r)]
        BY <1>2, InvAt DEF TypeOK, Joins
    <2>. QED BY <2>1 DEF IsMember
<1>4. member'[m].via = IF job[r].op = "signup" THEN job[r].code ELSE NoInvite
    BY <1>3 DEF NewMember
<1>5. NoInvite \notin deleted
    BY InvAt, ConstantsOK DEF TypeOK
<1>6. Wrote(r, "accept") => job[r].code \notin deleted
    BY InvAt DEF Locked, IsInvite
<1>7. job[r].op = "signup" => Wrote(r, "accept") \/ job[r].code = NoInvite
    BY <1>2, InvAt DEF Shape, Wrote, Joins
<1>. QED BY <1>4, <1>5, <1>6, <1>7

\* Once a revocation has committed nobody joins with the invite, not even
\* who had found it active before.
THEOREM NobodyJoinsByRevokedInvite == Spec => RevokedInviteAdmitsNobody
<1>1. MembershipInv /\ [Next]_vars
      => [\A m \in Ids : ~IsMember(m) /\ IsMember(m)' => member'[m].via \notin deleted]_vars
    BY AdmittedByLiveInvite
<1>. QED BY <1>1, MembershipInvariant, PTL DEF Spec, RevokedInviteAdmitsNobody
=============================================================================

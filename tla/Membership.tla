---------------------------- MODULE Membership ----------------------------
(***************************************************************************)
(* How people come to be members of a family and leave it, at the grain of *)
(* the SQL statements the handlers execute.                                *)
(*                                                                         *)
(*   services/auth.py     signup, login                                    *)
(*   services/invite.py   create, revoke, redeem                           *)
(*   services/member.py   create, delete                                   *)
(*   db/models/family.py  the unique email, the foreign keys               *)
(*   providers.py         one transaction per HTTP request                 *)
(*                                                                         *)
(* As in RefreshTokens a request runs in a slot and the database is        *)
(* PostgreSQL at READ COMMITTED.  A handler executes few statements and in *)
(* a fixed order, so its uncommitted writes are the labels of those it has *)
(* done, job[r].wrote; Close carries them to the tables.  An INSERT whose  *)
(* unique email an open transaction inserts or deletes waits for it, and   *)
(* so does a statement for the row lock it needs: an UPDATE or DELETE of   *)
(* the same row, or the key-share lock by which the INSERT of a row that   *)
(* refers to a member conflicts with the DELETE of the member.             *)
(*                                                                         *)
(* An id stands for a member's UUID, and the id of a signup without invite *)
(* for the UUID of the family it founds as well.  An invite stands for its *)
(* code, the SHA-256 digest and the row the digest keys.  A member has an  *)
(* email here if it can sign in with it or keeps others from using it.     *)
(***************************************************************************)
EXTENDS Naturals

CONSTANTS
    Requests,    \* slots for concurrently served requests
    Ids,         \* UUIDs drawn for members and families
    Invites,     \* invite codes secrets.token_urlsafe can draw
    Emails,      \* normalized email addresses
    NoId, NoInvite, NoEmail, NoRow

VARIABLES
    families,    \* family table: ids of the committed rows
    member,      \* family_member table: committed rows by id
    invite,      \* family_invite table: rows by code, revoked ones included
    accepted,    \* invites whose committed row has accepted_at set
    deleted,     \* invites whose row a revocation has deleted
    lapsed,      \* invites whose expires_at has passed
    tokens,      \* members a committed refresh_token row refers to
    claims,      \* <<member, family>> of the access tokens clients hold
    pc,          \* where the handler of each request is
    job          \* the request's local state and uncommitted writes

vars == <<families, member, invite, accepted, deleted, lapsed, tokens, claims, pc, job>>
DB == <<families, member, invite, accepted, deleted, tokens>>

\* via and slot are history: the invite a member joined with, and the slot
\* that served the request.
MemberRow == [family : Ids, email : Emails \cup {NoEmail}, primary : BOOLEAN,
              via : Invites \cup {NoInvite}, slot : Requests]
InviteRow == [family : Ids, creator : Ids]

\* op      the operation
\* id      the member it is about: created, signed in, deleted or inviting
\* family  the family the handler acts on
\* email   the email of the body
\* code    the invite it redeems, creates or revokes
\* wrote   the statements it has executed, not yet committed
\* status  the outcome of the handler
Job == [op : {"none", "signup", "login", "create", "delete", "issue", "revoke"},
        id : Ids \cup {NoId}, family : Ids \cup {NoId},
        email : Emails \cup {NoEmail}, code : Invites \cup {NoInvite},
        wrote : SUBSET {"family", "accept", "member", "token", "invite",
                        "delete member", "delete invite"},
        status : {"ok", "bad request", "unauthorized", "not found", "conflict"}]

PCs == {"idle", "check email", "find invite", "accept", "add family", "add member",
        "find login", "add token", "add invite", "find member", "delete member",
        "find own invite", "delete invite", "reply", "close"}

ASSUME ConstantsOK ==
    /\ Requests # {}
    /\ NoId \notin Ids /\ NoInvite \notin Invites /\ NoEmail \notin Emails
    /\ NoRow \notin MemberRow \cup InviteRow

TypeOK ==
    /\ families \subseteq Ids
    /\ member \in [Ids -> MemberRow \cup {NoRow}]
    /\ invite \in [Invites -> InviteRow \cup {NoRow}]
    /\ accepted \subseteq Invites /\ deleted \subseteq Invites /\ lapsed \subseteq Invites
    /\ tokens \subseteq Ids
    /\ claims \subseteq Ids \X Ids
    /\ pc \in [Requests -> PCs]
    /\ job \in [Requests -> Job]

-----------------------------------------------------------------------------
(* What queries return and what statements wait for.                       *)

IsMember(m) == m \in Ids /\ member[m] # NoRow
IsInvite(i) == i \in Invites /\ invite[i] # NoRow /\ i \notin deleted

\* get_by_email on the committed rows.
HasEmail(m, e) == IsMember(m) /\ member[m].email = e
EmailTaken(e) == e # NoEmail /\ \E m \in Ids : HasEmail(m, e)

\* Mutant of Active: a redeemed invite is not told from an open one.
ActiveOnceRedeemed(i) == IsInvite(i) /\ i \notin lapsed

\* _active_filters with the digest of the code.
Active(i) == IsInvite(i) /\ i \notin accepted \cup lapsed

Wrote(q, w) == w \in job[q].wrote

\* The lock or the unique key r's statement needs is held by the open
\* transaction of q.
WaitsOn(r, q) ==
    /\ q # r
    /\ \/ /\ pc[r] \in {"accept", "delete invite"} /\ job[q].code = job[r].code
          /\ Wrote(q, "accept") \/ Wrote(q, "delete invite")
       \/ /\ pc[r] = "add member" /\ job[q].email = job[r].email /\ job[r].email # NoEmail
          /\ Wrote(q, "member")
       \/ /\ pc[r] = "add member" /\ job[r].email # NoEmail
          /\ Wrote(q, "delete member") /\ HasEmail(job[q].id, job[r].email)
       \/ /\ pc[r] \in {"add token", "add invite", "delete member"} /\ job[q].id = job[r].id
          /\ Wrote(q, "delete member")
       \/ /\ pc[r] = "delete member" /\ job[q].id = job[r].id
          /\ Wrote(q, "token") \/ Wrote(q, "invite")
Blocked(r) == \E q \in Requests : WaitsOn(r, q)

\* Values nothing refers to.
UnusedId(n) ==
    /\ n \notin families /\ ~IsMember(n) /\ \A c \in claims : n \notin {c[1], c[2]}
    /\ \A q \in Requests : n \notin {job[q].id, job[q].family}
UnusedInvite(i) == invite[i] = NoRow /\ \A q \in Requests : job[q].code # i

-----------------------------------------------------------------------------
IdleJob == [op |-> "none", id |-> NoId, family |-> NoId, email |-> NoEmail,
            code |-> NoInvite, wrote |-> {}, status |-> "ok"]

Init ==
    /\ families = {} /\ accepted = {} /\ deleted = {} /\ lapsed = {}
    /\ tokens = {} /\ claims = {}
    /\ member = [m \in Ids |-> NoRow]
    /\ invite = [i \in Invites |-> NoRow]
    /\ pc = [r \in Requests |-> "idle"]
    /\ job = [r \in Requests |-> IdleJob]

Goto(r, l) == pc' = [pc EXCEPT ![r] = l]

Start(r, j, l) ==
    /\ pc[r] = "idle"
    /\ job' = [job EXCEPT ![r] = j]
    /\ Goto(r, l)
    /\ UNCHANGED <<DB, claims, lapsed>>

\* A statement of r that only reads.
Read(r, j, l) ==
    /\ job' = [job EXCEPT ![r] = j]
    /\ Goto(r, l)
    /\ UNCHANGED <<DB, claims, lapsed>>

\* The handler of r raises a ServiceError.
Refuse(r, s) == Read(r, [job[r] EXCEPT !.status = s], "reply")

\* The statement w of r succeeds.
Write(r, w, l) == Read(r, [job[r] EXCEPT !.wrote = @ \cup {w}], l)

\* Mutant of Rollback: the transaction is left open, with its locks.
RollbackKeepsLocks(r) == Read(r, [job[r] EXCEPT !.op = "none"], "idle")

\* The transaction of r ends with nothing written.
Rollback(r) == Read(r, IdleJob, "idle")

-----------------------------------------------------------------------------
(* Arrival of a request.  The supply of Ids and Invites is the bound: a    *)
(* request that draws a UUID or a code takes an unused one when it comes.  *)

\* POST /auth/signup, with an invite code a member was given or without.
Signup(r) ==
    \E e \in Emails, n \in Ids, i \in {x \in Invites : invite[x] # NoRow} \cup {NoInvite} :
        /\ UnusedId(n)
        /\ Start(r, [IdleJob EXCEPT !.op = "signup", !.id = n, !.email = e, !.code = i],
                 "check email")

\* POST /auth/login with the password of the member the email belongs to.
Login(r) ==
    \E e \in Emails : Start(r, [IdleJob EXCEPT !.op = "login", !.email = e], "find login")

\* POST /family/members with an access token, or POST /internal/members
\* with whatever family_id the query names.
CreateMember(r) ==
    \E n, f \in Ids, e \in Emails \cup {NoEmail} :
        /\ UnusedId(n) /\ n # f
        /\ Start(r, [IdleJob EXCEPT !.op = "create", !.id = n, !.family = f, !.email = e],
                 IF e = NoEmail THEN "add member" ELSE "check email")

\* DELETE /family/members/{member_id}
DeleteMember(r) ==
    \E c \in claims, m \in Ids :
        Start(r, [IdleJob EXCEPT !.op = "delete", !.id = m, !.family = c[2]], "find member")

\* POST /family/invites
IssueInvite(r) ==
    \E c \in claims, i \in Invites :
        /\ UnusedInvite(i)
        /\ Start(r, [IdleJob EXCEPT !.op = "issue", !.id = c[1], !.family = c[2], !.code = i],
                 "add invite")

\* DELETE /family/invites/{invite_id}
RevokeInvite(r) ==
    \E c \in claims, i \in {x \in Invites : invite[x] # NoRow} :
        Start(r, [IdleJob EXCEPT !.op = "revoke", !.family = c[2], !.code = i],
              "find own invite")

-----------------------------------------------------------------------------
(* The statements of signup and of MemberService.create.                   *)

CheckEmail(r) ==
    /\ pc[r] = "check email"
    /\ IF EmailTaken(job[r].email) THEN Refuse(r, "conflict")
       ELSE Read(r, job[r], IF job[r].op = "create" THEN "add member"
                            ELSE IF job[r].code = NoInvite THEN "add family"
                            ELSE "find invite")

\* Mutant of FindInvite: the family is the one the client names.
FindInviteAnyFamily(r) ==
    /\ pc[r] = "find invite"
    /\ IF Active(job[r].code)
       THEN \E f \in families : Read(r, [job[r] EXCEPT !.family = f], "accept")
       ELSE Refuse(r, "bad request")

\* redeem: the SELECT of the active invite, which also fixes the family.
FindInvite(r) ==
    /\ pc[r] = "find invite"
    /\ IF Active(job[r].code)
       THEN Read(r, [job[r] EXCEPT !.family = invite[job[r].code].family], "accept")
       ELSE Refuse(r, "bad request")

\* Mutant of Accept: an UPDATE that matches no row goes unnoticed.
AcceptBlindly(r) ==
    /\ pc[r] = "accept"
    /\ ~Blocked(r)
    /\ IF IsInvite(job[r].code) THEN Write(r, "accept", "add member")
       ELSE Read(r, job[r], "add member")

\* Mutant of Accept: the UPDATE is left out.
AcceptUnmarked(r) ==
    /\ pc[r] = "accept"
    /\ Read(r, job[r], "add member")

\* redeem: UPDATE family_invite SET accepted_at = now WHERE id = ...  An
\* UPDATE that matches no row raises StaleDataError: a 500 and a rollback.
Accept(r) ==
    /\ pc[r] = "accept"
    /\ ~Blocked(r)
    /\ IF IsInvite(job[r].code) THEN Write(r, "accept", "add member") ELSE Rollback(r)

AddFamily(r) ==
    /\ pc[r] = "add family"
    /\ Read(r, [job[r] EXCEPT !.family = job[r].id, !.wrote = @ \cup {"family"}], "add member")

FamilyExists(r) == job[r].family \in families \/ Wrote(r, "family")

\* Mutant of AddMember: the email column is not unique.
AddMemberNoUnique(r) ==
    /\ pc[r] = "add member"
    /\ IF ~FamilyExists(r)
       THEN Read(r, [job[r] EXCEPT !.wrote = {}, !.status = "conflict"], "reply")
       ELSE Write(r, "member", IF job[r].op = "signup" THEN "add token" ELSE "reply")

\* INSERT family_member.  A violated unique email or foreign key is an
\* IntegrityError: the flush has rolled the transaction back, and the except
\* clause answers 409.
AddMember(r) ==
    /\ pc[r] = "add member"
    /\ ~Blocked(r)
    /\ IF EmailTaken(job[r].email) \/ ~FamilyExists(r)
       THEN Read(r, [job[r] EXCEPT !.wrote = {}, !.status = "conflict"], "reply")
       ELSE Write(r, "member", IF job[r].op = "signup" THEN "add token" ELSE "reply")

-----------------------------------------------------------------------------
(* The statements of the other operations.                                 *)

FindLogin(r) ==
    /\ pc[r] = "find login"
    /\ \/ /\ ~EmailTaken(job[r].email)
          /\ Refuse(r, "unauthorized")
       \/ \E m \in Ids :
          /\ HasEmail(m, job[r].email)
          /\ Read(r, [job[r] EXCEPT !.id = m, !.family = member[m].family], "add token")

\* INSERT refresh_token.  It refers to the member, who may have been deleted
\* since the SELECT: then it is a 500.
AddToken(r) ==
    /\ pc[r] = "add token"
    /\ ~Blocked(r)
    /\ IF IsMember(job[r].id) \/ Wrote(r, "member") THEN Write(r, "token", "reply")
       ELSE Rollback(r)

\* INSERT family_invite: both foreign keys come from the access token, which
\* nothing compares with the tables before.
AddInvite(r) ==
    /\ pc[r] = "add invite"
    /\ ~Blocked(r)
    /\ IF IsMember(job[r].id) /\ FamilyExists(r) THEN Write(r, "invite", "reply")
       ELSE Rollback(r)

FindMember(r) ==
    /\ pc[r] = "find member"
    /\ CASE ~IsMember(job[r].id)                        -> Refuse(r, "not found")
         [] IsMember(job[r].id)
            /\ member[job[r].id].family # job[r].family -> Refuse(r, "not found")
         [] OTHER -> IF member[job[r].id].primary THEN Refuse(r, "conflict")
                     ELSE Read(r, job[r], "delete member")

\* Mutant of Referred: refresh_token does not declare its foreign key.
ReferredByInvite(m) == \E i \in Invites : IsInvite(i) /\ invite[i].creator = m

Referred(m) == m \in tokens \/ \E i \in Invites : IsInvite(i) /\ invite[i].creator = m

\* delete: SELECT by id, which is a 500 if the row has gone, and DELETE,
\* which is a 500 if a row refers to it.
DeleteRow(r) ==
    /\ pc[r] = "delete member"
    /\ ~Blocked(r)
    /\ IF IsMember(job[r].id) /\ ~Referred(job[r].id) THEN Write(r, "delete member", "reply")
       ELSE Rollback(r)

\* get_in_family: revocation does not ask whether the invite is active.
FindOwnInvite(r) ==
    /\ pc[r] = "find own invite"
    /\ IF IsInvite(job[r].code) /\ invite[job[r].code].family = job[r].family
       THEN Read(r, job[r], "delete invite")
       ELSE Refuse(r, "not found")

\* A revocation that finds the row gone changes nothing, whether it ends in
\* a 500 (SELECT) or, having waited for the lock, in a DELETE of no row.
DeleteInvite(r) ==
    /\ pc[r] = "delete invite"
    /\ ~Blocked(r)
    /\ IF IsInvite(job[r].code) THEN Write(r, "delete invite", "reply") ELSE Rollback(r)

-----------------------------------------------------------------------------
(* The end of a request.                                                   *)

\* Mutant of Reply: a refused login is answered like an accepted one.
ReplyUnchecked(r) ==
    /\ pc[r] = "reply"
    /\ claims' = IF job[r].op \in {"signup", "login"}
                 THEN claims \cup {<<job[r].id, job[r].family>>} ELSE claims
    /\ Goto(r, "close")
    /\ UNCHANGED <<DB, lapsed, job>>

\* The response, with an access token for who signed in, leaves before the
\* transaction commits.
Reply(r) ==
    /\ pc[r] = "reply"
    /\ claims' = IF job[r].op \in {"signup", "login"} /\ job[r].status = "ok"
                 THEN claims \cup {<<job[r].id, job[r].family>>} ELSE claims
    /\ Goto(r, "close")
    /\ UNCHANGED <<DB, lapsed, job>>

\* Mutant of NewMember: whoever signs up is the primary member.
NewMemberPrimary(r) ==
    [family  |-> job[r].family, email |-> job[r].email, primary |-> job[r].op = "signup",
     via     |-> IF job[r].op = "signup" THEN job[r].code ELSE NoInvite, slot |-> r]

NewMember(r) ==
    [family  |-> job[r].family, email |-> job[r].email,
     primary |-> job[r].op = "signup" /\ job[r].code = NoInvite,
     via     |-> IF job[r].op = "signup" THEN job[r].code ELSE NoInvite, slot |-> r]

Close(r) ==
    /\ pc[r] = "close"
    /\ families' = IF Wrote(r, "family") THEN families \cup {job[r].family} ELSE families
    /\ member' = CASE Wrote(r, "member")        -> [member EXCEPT ![job[r].id] = NewMember(r)]
                   [] Wrote(r, "delete member") -> [member EXCEPT ![job[r].id] = NoRow]
                   [] OTHER                     -> member
    /\ invite' = IF Wrote(r, "invite")
                 THEN [invite EXCEPT ![job[r].code] =
                         [family |-> job[r].family, creator |-> job[r].id]]
                 ELSE invite
    /\ accepted' = IF Wrote(r, "accept") THEN accepted \cup {job[r].code} ELSE accepted
    /\ deleted' = IF Wrote(r, "delete invite") THEN deleted \cup {job[r].code} ELSE deleted
    /\ tokens' = IF Wrote(r, "token") THEN tokens \cup {job[r].id} ELSE tokens
    /\ job' = [job EXCEPT ![r] = IdleJob]
    /\ Goto(r, "idle")
    /\ UNCHANGED <<claims, lapsed>>

\* The connection fails in a statement or in the COMMIT, or the process dies.
Fail(r) == pc[r] # "idle" /\ Rollback(r)

\* Time passes the expires_at of an invite created with a ttl.
Lapse ==
    /\ \E i \in Invites \ lapsed : invite[i] # NoRow /\ lapsed' = lapsed \cup {i}
    /\ UNCHANGED <<DB, claims, pc, job>>

-----------------------------------------------------------------------------
Arrive(r) ==
    \/ Signup(r) \/ Login(r) \/ CreateMember(r) \/ DeleteMember(r)
    \/ IssueInvite(r) \/ RevokeInvite(r)

Handle(r) ==
    \/ CheckEmail(r) \/ FindInvite(r) \/ Accept(r) \/ AddFamily(r) \/ AddMember(r)
    \/ FindLogin(r) \/ AddToken(r) \/ AddInvite(r)
    \/ FindMember(r) \/ DeleteRow(r) \/ FindOwnInvite(r) \/ DeleteInvite(r)
    \/ Reply(r) \/ Close(r)

Next == Lapse \/ \E r \in Requests : Arrive(r) \/ Handle(r) \/ Fail(r)

Spec == Init /\ [][Next]_vars

\* A started handler keeps running, and PostgreSQL grants a lock to the
\* request that has waited longest; no deadlock detector is assumed.
FairSpec == Spec /\ \A r \in Requests : SF_vars(Handle(r))

-----------------------------------------------------------------------------
(* Properties.                                                             *)

Joined(m, i) == IsMember(m) /\ member[m].via = i

\* No two members share an email, although signup and member creation check
\* it in one statement and insert in another.
EmailUnique ==
    \A m, n \in Ids, e \in Emails : HasEmail(m, e) /\ HasEmail(n, e) => m = n

\* An invite is marked accepted exactly when somebody joined with it: a
\* signup that fails after redeem (a 409, a 500, a lost commit) gives the
\* invite back, and nobody joins without using it up.
AcceptedIffJoined ==
    \A i \in Invites : IsInvite(i) => (i \in accepted <=> \E m \in Ids : Joined(m, i))

\* Every family has exactly one primary member and every member a family:
\* no signup leaves a family behind without its founder, no deletion removes
\* the founder, nobody who joins becomes a second one.
FamilyHasItsPrimary ==
    /\ \A f \in families : \E m \in Ids : IsMember(m) /\ member[m].family = f /\ member[m].primary
    /\ \A m \in Ids : IsMember(m) => member[m].family \in families
    /\ \A m, n \in Ids :
         /\ IsMember(m) /\ member[m].primary
         /\ IsMember(n) /\ member[n].primary
         /\ member[m].family = member[n].family
         => m = n

\* Whoever joins with an invite lands in the family of the member who issued
\* it, whatever the client sent and whatever became of the invite since.  (The
\* issuer can be gone: a login that is answered but not committed leaves a
\* member with an access token and no refresh_token row to hold its row.)
JoinsInvitersFamily ==
    \A m \in Ids, i \in Invites :
        Joined(m, i) /\ IsMember(invite[i].creator)
        => member[m].family = member[invite[i].creator].family

\* Two members who joined with one invite were served by different slots:
\* only signups that overlapped in time can share it.
SharedInviteIsConcurrent ==
    \A m, n \in Ids :
        /\ m # n /\ IsMember(m) /\ IsMember(n)
        /\ member[m].via = member[n].via /\ member[m].via # NoInvite
        => member[m].slot # member[n].slot

\* A member who has signed in stays: the refresh tokens of a member and the
\* invites it issued never outlive it, though a sign-in can overlap its
\* deletion.
NoDanglingReference ==
    /\ \A m \in tokens : IsMember(m)
    /\ \A i \in Invites : IsInvite(i) => IsMember(invite[i].creator)

\* Once a revocation has committed, no signup that held the code - not even
\* one that had found it active before - joins the family.
RevokedInviteAdmitsNobody ==
    [][\A m \in Ids : ~IsMember(m) /\ IsMember(m)' => member'[m].via \notin deleted]_vars

\* Every accepted request is answered and its transaction ends: the order in
\* which the handlers take their locks (invite, email, member) has no cycle.
EveryRequestCloses ==
    \A r \in Requests : pc[r] # "idle" ~> pc[r] = "idle"
=============================================================================

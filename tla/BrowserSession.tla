--------------------------- MODULE BrowserSession ---------------------------
(***************************************************************************)
(* A browser in front of RefreshTokens: the one cookie its tabs share, the *)
(* answers on their way to it, and what becomes of a session when answers  *)
(* are late or lost.                                                       *)
(*                                                                         *)
(*   routers/auth.py   login, refresh, logout; the refresh cookie          *)
(*   config.py         refresh_cookie_path                                 *)
(*   providers.py      the answer leaves before the transaction commits    *)
(*                                                                         *)
(* The actions of RefreshTokens are taken as they are; each also says what *)
(* happens on the wire.  A request is served in slot r and its answer      *)
(* travels in wire[r], also while the slot is still committing.            *)
(***************************************************************************)
EXTENDS RefreshTokens

VARIABLES
    jar,         \* value of the refresh cookie in the browser
    wire,        \* the request the browser has open in each slot
    out,         \* history: tokens whose logout has been confirmed
    excused,     \* history: lineages of which an answer or a commit was lost
                 \* or which two open requests were about
    early        \* history: lineages of a token that a logout looked for
                 \* before its row was committed

bvars == <<vars, jar, wire, out, excused, early>>

\* tok     the cookie sent
\* sets    whether the answer changes the cookie
\* cookie  to what: a new token or, after a logout, nothing
Wire == [state : {"none", "open", "answer"}, tok : TokenOrNone,
         sets : BOOLEAN, cookie : TokenOrNone]
Quiet == [state |-> "none", tok |-> NoToken, sets |-> FALSE, cookie |-> NoToken]

BrowserTypeOK ==
    /\ TypeOK
    /\ jar \in held \cup {NoToken}
    /\ wire \in [Requests -> Wire]
    /\ out \subseteq held
    /\ excused \subseteq Tokens /\ early \subseteq Tokens

\* The lineage of t, also when its row is not committed yet.
SessionOf(t) ==
    IF Stored(t) THEN row[t].session
    ELSE IF \E q \in Requests : job[q].new = t /\ job[q].ins # NoRow
         THEN job[CHOOSE q \in Requests : job[q].new = t].ins.session
         ELSE t

Lineage(t) == IF t = NoToken THEN {} ELSE {SessionOf(t)}

BInit ==
    /\ Init
    /\ jar = NoToken /\ wire = [r \in Requests |-> Quiet]
    /\ out = {} /\ excused = {} /\ early = {}

-----------------------------------------------------------------------------
(* Requests of the tabs.  A tab may send while another one waits.          *)

Open(r, t) ==
    /\ wire[r].state = "none"
    /\ wire' = [wire EXCEPT ![r] = [Quiet EXCEPT !.state = "open", !.tok = t]]
    /\ excused' = excused \cup
         {s \in Lineage(t) : \E q \in Requests : wire[q].state # "none" /\ s \in Lineage(wire[q].tok)}
    /\ UNCHANGED <<jar, out, early>>

\* The cookie is sent under the name the handlers look for.
SendLogin(r) == Login(r) /\ Open(r, NoToken)
SendRefresh(r) == Refresh(r) /\ job'[r].tok = jar /\ Open(r, jar)
SendLogout(r) == Logout(r) /\ job'[r].tok = jar /\ Open(r, jar)

-----------------------------------------------------------------------------
(* Answers.                                                                *)

\* Mutant of Answer: refresh does not set the cookie.
AnswerKeepsCookie(r) ==
    [wire[r] EXCEPT !.state = "answer",
                    !.sets = job[r].status = "ok" /\ (job[r].tok = NoToken \/ job[r].ins = NoRow),
                    !.cookie = IF job[r].ins # NoRow THEN job[r].new ELSE NoToken]

\* Mutant of Answer: logout does not clear the cookie.
AnswerKeepsDeadCookie(r) ==
    [wire[r] EXCEPT !.state = "answer", !.sets = job[r].ins # NoRow,
                    !.cookie = IF job[r].ins # NoRow THEN job[r].new ELSE NoToken]

\* A success sets the cookie to the new token, or deletes it (logout); a 401
\* leaves it alone.
Answer(r) ==
    [wire[r] EXCEPT !.state = "answer", !.sets = job[r].status = "ok",
                    !.cookie = IF job[r].ins # NoRow THEN job[r].new ELSE NoToken]

\* The lineages whose change is lost when r's answered transaction does not
\* commit; the token that was sent and will have no row counts as one.
Uncommitted(r) ==
    Lineage(job[r].tok) \cup (IF job[r].ins # NoRow THEN {job[r].new} ELSE {})

\* A step of the handler or the end of its transaction: the answer leaves in
\* Reply; a 500, or a connection that breaks, if it ends before that.
Serve(r) ==
    /\ \/ Handle(r) /\ excused' = excused
       \/ Fail(r) /\ excused' = IF pc[r] = "close" THEN excused \cup Uncommitted(r) ELSE excused
    /\ wire' = IF wire[r].state = "open"
               THEN CASE pc'[r] = "close" -> [wire EXCEPT ![r] = Answer(r)]
                      [] pc'[r] = "idle"  -> [wire EXCEPT ![r].state = "answer"]
                      [] OTHER            -> wire
               ELSE wire
    /\ early' = early \cup {s \in Lineage(job[r].tok) : LookupLogout(r) /\ ~Known(r)}
    /\ UNCHANGED <<jar, out>>

\* The browser receives the answer and stores the cookie.
Deliver(r) ==
    /\ wire[r].state = "answer"
    /\ jar' = IF wire[r].sets THEN wire[r].cookie ELSE jar
    /\ out' = IF wire[r].sets /\ wire[r].cookie = NoToken /\ wire[r].tok # NoToken
              THEN out \cup {wire[r].tok} ELSE out
    /\ wire' = [wire EXCEPT ![r] = Quiet]
    /\ UNCHANGED <<vars, excused, early>>

\* The answer is lost, or the tab gives up waiting.
Lose(r) ==
    /\ wire[r].state # "none"
    /\ wire' = [wire EXCEPT ![r] = Quiet]
    /\ excused' = excused \cup Lineage(wire[r].tok)
    /\ UNCHANGED <<vars, jar, out, early>>

BNext ==
    \/ Tick /\ UNCHANGED <<jar, wire, out, excused, early>>
    \/ \E r \in Requests :
         SendLogin(r) \/ SendRefresh(r) \/ SendLogout(r) \/ Serve(r) \/ Deliver(r) \/ Lose(r)

BSpec == BInit /\ [][BNext]_bvars

-----------------------------------------------------------------------------
(* Properties.                                                             *)

\* The browser's own requests look like the theft of its token - reuse, which
\* burns the session - only if an answer about that session was lost, two of
\* its requests were open at once, or a commit failed after the answer.  A
\* browser that sends one request at a time and sees every answer stays
\* signed in, although the answers come before the commits.
ReuseHasACause ==
    [][\A r \in Requests : LookupDead(r) => Session(r) \in excused]_bvars

Settled == \A r \in Requests : pc[r] = "idle" /\ wire[r].state = "none"

\* When nothing is under way the cookie is one the server would exchange
\* (until it expires), unless one of the accidents above has happened to its
\* lineage: a confirmed logout, in particular, leaves no dead token in it.
JarIsGood ==
    Settled /\ jar # NoToken => Live(jar) \/ SessionOf(jar) \in excused

\* "Revoke the refresh token's whole lineage and clear the cookie"
\* (routers/auth.py): when the browser has been told that it is signed out, no
\* token of that session is left live, then or later - unless one of the
\* accidents above happened or the logout was so early that the row of its
\* token, which the browser had been sent, was not committed yet.
LogoutEndsSession ==
    Settled => \A t \in out : SessionOf(t) \notin excused \cup early =>
        \A u \in Tokens : Live(u) => row[u].session # SessionOf(t)
=============================================================================

--------------------------- MODULE ContextBundle ---------------------------
(***************************************************************************)
(* The context bundle of a family, GET /internal/families/{id}/context,    *)
(* read while other requests change the tables.                            *)
(*                                                                         *)
(*   services/context.py          FamilyContextLoader.load                 *)
(*   db/models/family.py, child.py   relationships loaded "selectin"       *)
(*   db/repositories              list_by_family, list_active              *)
(*   services/member.py, policy.py   what changes members and policies     *)
(*                                                                         *)
(* The loader executes one SELECT after another, at READ COMMITTED each    *)
(* with a snapshot of its own.  The first finds the family and brings its  *)
(* members, children and policies into the session; then each list is read *)
(* again.  A row that is in the session already keeps the attributes and   *)
(* the 1:1 profile it was loaded with, but whether it is listed is decided *)
(* by the second query.  (That a policy brings its child along is left     *)
(* out: its 1:1 profile is then read earlier than here, never later.)      *)
(*                                                                         *)
(* What the tables or a bundle say is a set of facts, <<kind, id>> or, for *)
(* the is_active of a policy, <<"flag", id, value>>.                       *)
(***************************************************************************)
EXTENDS FamilyTables

CONSTANTS
    Members,     \* UUIDs drawn for members
    Ghost        \* a family_id without a family

VARIABLES
    member,      \* family_member: the family of each committed row
    backgrounds, \* family_member_profile: the members that have a row
    active,      \* policies whose is_active is set
    pc,          \* where the loader is
    fam,         \* the family it loads
    loaded,      \* the objects in its session
    fresh,       \* those whose 1:1 profile is still to be loaded
    bundle,      \* the facts of the answer so far
    ever,        \* history: facts committed at some time during the load
    always       \* history: facts committed all through the load

db == <<child, profiles, entry, policy, member, backgrounds, active>>
loader == <<pc, fam, loaded, fresh, bundle>>
vars == <<child, profiles, entry, policy, member, backgrounds, active, pc, fam, loaded, fresh,
          bundle, ever, always>>

ASSUME BundleOK == Ghost \notin Families

\* The rows of f, as the bundle describes them.
MembersOf(f) == {m \in Members : member[m] = f}
ChildrenOf(f) == {c \in Children : child[c] = f}
PoliciesOf(f) == {p \in Policies : policy[p] # NoRow /\ policy[p].family = f}

Tagged(kind, S) == {<<kind, x>> : x \in S}
Flags(on, off) == {<<"flag", p, TRUE>> : p \in on} \cup {<<"flag", p, FALSE>> : p \in off}

Facts(f) ==
    Tagged("member", MembersOf(f))
    \cup Tagged("member profile", MembersOf(f) \cap backgrounds)
    \cup Tagged("child", ChildrenOf(f))
    \cup Tagged("reading profile", ChildrenOf(f) \cap profiles)
    \cup Tagged("policy", PoliciesOf(f) \cap active)
    \cup Flags(PoliciesOf(f) \cap active, PoliciesOf(f) \ active)

Empty == [members |-> {}, backgrounds |-> {}, children |-> {}, profiles |-> {},
          on |-> {}, off |-> {}]

TypeOK ==
    /\ TablesTypeOK
    /\ member \in [Members -> Families \cup {NoFamily}]
    /\ backgrounds \subseteq {m \in Members : member[m] # NoFamily}
    /\ active \subseteq {p \in Policies : policy[p] # NoRow}
    /\ fam \in Families \cup {Ghost, NoFamily}
    /\ loaded \in [members : SUBSET Members, backgrounds : SUBSET loaded.members,
                   children : SUBSET Children, profiles : SUBSET loaded.children,
                   on : SUBSET Policies, off : SUBSET (Policies \ loaded.on)]
    /\ fresh \subseteq loaded.members \cup loaded.children

Init ==
    /\ TablesInit
    /\ member = [m \in Members |-> NoFamily] /\ backgrounds = {} /\ active = {}
    /\ pc = "idle" /\ fam = NoFamily /\ loaded = Empty
    /\ fresh = {} /\ bundle = {} /\ ever = {} /\ always = {}

-----------------------------------------------------------------------------
(* What other requests commit in the meantime.  A UUID is drawn once: one  *)
(* the loader may have met is not drawn again.                             *)

Unmet(kind, x) == <<kind, x>> \notin ever

AddMember(m, f) ==
    /\ member[m] = NoFamily /\ Unmet("member", m)
    /\ member' = [member EXCEPT ![m] = f]
    /\ UNCHANGED <<tables, backgrounds, active>>

DropMember(m) ==
    /\ member[m] # NoFamily
    /\ member' = [member EXCEPT ![m] = NoFamily]
    /\ backgrounds' = backgrounds \ {m}
    /\ UNCHANGED <<tables, active>>

AddBackground(m) ==
    /\ member[m] # NoFamily
    /\ backgrounds' = backgrounds \cup {m}
    /\ UNCHANGED <<tables, member, active>>

\* PATCH of a policy's is_active
Toggle(p) ==
    /\ policy[p] # NoRow
    /\ active' = IF p \in active THEN active \ {p} ELSE active \cup {p}
    /\ UNCHANGED <<tables, member, backgrounds>>

ChangePolicies(p) ==
    \/ /\ DropPolicy(p)
       /\ active' = active \ {p}
    \/ \E f \in Families, c \in Children \cup {NoChild} :
         /\ \A b \in BOOLEAN : <<"flag", p, b>> \notin ever
         /\ AddPolicy(p, f, c)
         /\ active' \in {active, active \cup {p}}

Commit ==
    /\ UNCHANGED loader
    /\ \/ \E m \in Members :
            DropMember(m) \/ AddBackground(m) \/ \E f \in Families : AddMember(m, f)
       \/ \E p \in Policies : Toggle(p)
       \/ /\ \E p \in Policies : ChangePolicies(p)
          /\ UNCHANGED <<member, backgrounds>>
       \/ /\ \E c \in Children :
               DropChild(c) \/ \E f \in Families : Unmet("child", c) /\ AddChild(c, f)
          /\ UNCHANGED <<member, backgrounds, active>>
    /\ ever' = IF pc = "idle" THEN {} ELSE ever \cup Facts(fam)'
    /\ always' = IF pc = "idle" THEN {} ELSE always \cap Facts(fam)'

-----------------------------------------------------------------------------
(* The loader.                                                             *)

Request ==
    /\ pc = "idle"
    /\ fam' \in Families \cup {Ghost}
    /\ pc' = "family"
    /\ ever' = Facts(fam') /\ always' = Facts(fam')
    /\ UNCHANGED <<db, loaded, fresh, bundle>>

Idle ==
    /\ pc' = "idle" /\ fam' = NoFamily /\ loaded' = Empty
    /\ fresh' = {} /\ bundle' = {} /\ ever' = {} /\ always' = {}
    /\ UNCHANGED db

\* A statement of the loader at l: what it brings into the session, the rows
\* whose 1:1 profile the next statement loads, the facts it adds.
Select(l, objects, new, facts, next) ==
    /\ pc = l /\ pc' = next
    /\ loaded' = objects /\ fresh' = new /\ bundle' = bundle \cup facts
    /\ UNCHANGED <<db, fam, ever, always>>

\* get_one_or_none(id=family_id): None is a 404.
FindFamily ==
    \/ pc = "family" /\ fam \notin Families /\ Idle
    \/ fam \in Families /\ Select("family", loaded, {}, {}, "members")

\* The members, first through the family and then as list_by_family.
SelectMembers(l, next, listed) ==
    LET rows == MembersOf(fam)
    IN  Select(l, [loaded EXCEPT !.members = @ \cup rows], rows \ loaded.members,
               IF listed THEN Tagged("member", rows) ELSE {}, next)

SelectBackgrounds(l, next, listed) ==
    LET known == loaded.backgrounds \cup (fresh \cap backgrounds)
    IN  Select(l, [loaded EXCEPT !.backgrounds = known], {},
               IF listed THEN {<<"member profile", m>> : m \in {x \in known : <<"member", x>> \in bundle}}
               ELSE {}, next)

SelectChildren(l, next, listed) ==
    LET rows == ChildrenOf(fam)
    IN  Select(l, [loaded EXCEPT !.children = @ \cup rows], rows \ loaded.children,
               IF listed THEN Tagged("child", rows) ELSE {}, next)

SelectProfiles(l, next, listed) ==
    LET known == loaded.profiles \cup (fresh \cap profiles)
    IN  Select(l, [loaded EXCEPT !.profiles = known], {},
               IF listed THEN {<<"reading profile", c>> : c \in {x \in known : <<"child", x>> \in bundle}}
               ELSE {}, next)

\* The session after a query that returns the policies in rows.
WithPolicies(rows) ==
    LET new == rows \ (loaded.on \cup loaded.off)
    IN  [loaded EXCEPT !.on = @ \cup (new \cap active), !.off = @ \cup (new \ active)]

LoadPolicies ==
    Select("policies", WithPolicies(PoliciesOf(fam)), {}, {}, "list members")

\* Mutant of ListPolicies: the filter on is_active is left out.
ListAllPolicies ==
    LET rows == PoliciesOf(fam)
        now == WithPolicies(rows)
    IN  Select("list policies", now, {},
               Tagged("policy", rows) \cup Flags(rows \cap now.on, rows \cap now.off), "reply")

\* Mutant of ListPolicies: only the policies of the whole family are listed.
ListFamilyPolicies ==
    LET rows == {p \in PoliciesOf(fam) \cap active : policy[p].child = NoChild}
        now == WithPolicies(rows)
    IN  Select("list policies", now, {},
               Tagged("policy", rows) \cup Flags(rows \cap now.on, rows \cap now.off), "reply")

\* list_active: the query selects on is_active, the answer shows the
\* attribute of the object in the session.
ListPolicies ==
    LET rows == PoliciesOf(fam) \cap active
        now == WithPolicies(rows)
    IN  Select("list policies", now, {},
               Tagged("policy", rows) \cup Flags(rows \cap now.on, rows \cap now.off), "reply")

\* The answer is sent and the transaction, which has written nothing, ends.
Reply == pc = "reply" /\ Idle

Load ==
    \/ FindFamily
    \/ SelectMembers("members", "member profiles", FALSE)
    \/ SelectBackgrounds("member profiles", "children", FALSE)
    \/ SelectChildren("children", "reading profiles", FALSE)
    \/ SelectProfiles("reading profiles", "policies", FALSE)
    \/ LoadPolicies
    \/ SelectMembers("list members", "list member profiles", TRUE)
    \/ SelectBackgrounds("list member profiles", "list children", TRUE)
    \/ SelectChildren("list children", "list reading profiles", TRUE)
    \/ SelectProfiles("list reading profiles", "list policies", TRUE)
    \/ ListPolicies
    \/ Reply

Next == Commit \/ Request \/ Load

Spec == Init /\ [][Next]_vars

-----------------------------------------------------------------------------
(* Properties.                                                             *)

\* "It never crosses families" (services/context.py), and it invents nothing:
\* whatever the answer says of the family was so, committed, at some time
\* during the load, stale objects of the session included.
NothingInvented == bundle \subseteq ever

\* What was so all through the load is in the answer: a member, child or
\* active policy that nobody touched is never missing, nor is the 1:1 profile
\* of one, however the lists around it change between the statements.
NothingMissed ==
    pc = "reply" => {x \in always : x[1] # "flag" \/ x[3]} \subseteq bundle
=============================================================================

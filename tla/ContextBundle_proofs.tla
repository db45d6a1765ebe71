------------------------ MODULE ContextBundle_proofs ------------------------
(***************************************************************************)
(* Proofs about ContextBundle, for any numbers of families, members,       *)
(* children and policies, and any changes of the tables during the load.   *)
(*                                                                         *)
(* The invariant has a part about the tables and what they have said since *)
(* the load began (Histories), one about the objects in the session of the *)
(* loader (Session) and one about what can no longer be missed (Covered).  *)
(***************************************************************************)
EXTENDS ContextBundle, FamilyTables_proofs

PCs == {"idle", "family", "members", "member profiles", "children", "reading profiles",
        "policies", "list members", "list member profiles", "list children",
        "list reading profiles", "list policies", "reply"}

LoadsMembers == {"member profiles", "list member profiles"}
LoadsChildren == {"reading profiles", "list reading profiles"}

\* What the loader may have met has been of its family all along, or is gone:
\* no id is drawn twice.
Histories ==
    /\ TablesInv
    /\ member \in [Members -> Families \cup {NoFamily}]
    /\ backgrounds \subseteq {m \in Members : member[m] # NoFamily}
    /\ active \subseteq {p \in Policies : policy[p] # NoRow}
    /\ pc \in PCs /\ fam \in Families \cup {Ghost, NoFamily}
    /\ pc = "idle" => ever = {} /\ always = {}
    /\ pc # "idle" => Facts(fam) \subseteq ever /\ always \subseteq Facts(fam)
    /\ \A m \in Members : <<"member", m>> \in ever => member[m] \in {fam, NoFamily}
    /\ \A c \in Children : <<"child", c>> \in ever => child[c] \in {fam, NoFamily}
    /\ \A m \in Members : <<"member profile", m>> \in always => <<"member", m>> \in always
    /\ \A c \in Children : <<"reading profile", c>> \in always => <<"child", c>> \in always

\* Every object in the session was loaded from a row of the family.
Session ==
    /\ loaded \in [members : SUBSET Members, backgrounds : SUBSET Members,
                   children : SUBSET Children, profiles : SUBSET Children,
                   on : SUBSET Policies, off : SUBSET Policies]
    /\ pc = "idle" => loaded = Empty /\ fresh = {} /\ bundle = {}
    /\ loaded.backgrounds \subseteq loaded.members /\ loaded.profiles \subseteq loaded.children
    /\ loaded.on \cap loaded.off = {}
    /\ fresh \subseteq (IF pc \in LoadsMembers THEN loaded.members
                        ELSE IF pc \in LoadsChildren THEN loaded.children ELSE {})
    /\ \A m \in loaded.members : <<"member", m>> \in ever
    /\ \A m \in loaded.backgrounds : <<"member profile", m>> \in ever
    /\ \A c \in loaded.children : <<"child", c>> \in ever
    /\ \A c \in loaded.profiles : <<"reading profile", c>> \in ever
    /\ \A p \in loaded.on : <<"flag", p, TRUE>> \in ever
    /\ \A p \in loaded.off : <<"flag", p, FALSE>> \in ever /\ <<"flag", p, TRUE>> \notin always
    /\ bundle \subseteq ever

\* What is true all through the load is in the bundle once its list has been
\* read; a 1:1 profile that is has come with the object or is about to.
Covered ==
    /\ \A m \in loaded.members : <<"member profile", m>> \in always
         => m \in loaded.backgrounds \/ (pc \in LoadsMembers /\ m \in fresh)
    /\ \A c \in loaded.children : <<"reading profile", c>> \in always
         => c \in loaded.profiles \/ (pc \in LoadsChildren /\ c \in fresh)
    /\ pc \in {"list member profiles", "list children", "list reading profiles",
               "list policies", "reply"}
       => \A m \in Members : <<"member", m>> \in always
            => <<"member", m>> \in bundle /\ m \in loaded.members
    /\ pc \in {"list children", "list reading profiles", "list policies", "reply"}
       => \A m \in Members : <<"member profile", m>> \in always
            => <<"member profile", m>> \in bundle
    /\ pc \in {"list reading profiles", "list policies", "reply"}
       => \A c \in Children : <<"child", c>> \in always
            => <<"child", c>> \in bundle /\ c \in loaded.children
    /\ pc \in {"list policies", "reply"}
       => \A c \in Children : <<"reading profile", c>> \in always
            => <<"reading profile", c>> \in bundle
    /\ pc = "reply"
       => /\ \A p \in Policies : <<"policy", p>> \in always => <<"policy", p>> \in bundle
          /\ \A p \in Policies : <<"flag", p, TRUE>> \in always => <<"flag", p, TRUE>> \in bundle

BundleInv == Histories /\ Session /\ Covered

-----------------------------------------------------------------------------
(* Facts.                                                                  *)

\* A fact is of one kind, and each kind is about one table.
LEMMA FactsAre ==
    ASSUME NEW f
    PROVE  /\ \A m : <<"member", m>> \in Facts(f) <=> m \in MembersOf(f)
           /\ \A m : <<"member profile", m>> \in Facts(f) <=> m \in MembersOf(f) /\ m \in backgrounds
           /\ \A c : <<"child", c>> \in Facts(f) <=> c \in ChildrenOf(f)
           /\ \A c : <<"reading profile", c>> \in Facts(f) <=> c \in ChildrenOf(f) /\ c \in profiles
           /\ \A p : <<"policy", p>> \in Facts(f) <=> p \in PoliciesOf(f) /\ p \in active
           /\ \A p : <<"flag", p, TRUE>> \in Facts(f) <=> p \in PoliciesOf(f) /\ p \in active
           /\ \A p : <<"flag", p, FALSE>> \in Facts(f) <=> p \in PoliciesOf(f) /\ p \notin active
BY DEF Facts, Tagged, Flags

\* Rows that stay say what they said.
LEMMA SameFacts ==
    ASSUME UNCHANGED db
    PROVE  /\ \A f : Facts(f)' = Facts(f) /\ MembersOf(f)' = MembersOf(f)
                     /\ ChildrenOf(f)' = ChildrenOf(f) /\ PoliciesOf(f)' = PoliciesOf(f)
           /\ UNCHANGED <<child, profiles, entry, policy, member, backgrounds, active>>
BY DEF db, Facts, MembersOf, ChildrenOf, PoliciesOf

\* The rows of a family are those the tables have.
LEMMA RowsAre ==
    ASSUME NEW f
    PROVE  MembersOf(f) \subseteq Members /\ ChildrenOf(f) \subseteq Children
           /\ PoliciesOf(f) \subseteq Policies
BY DEF MembersOf, ChildrenOf, PoliciesOf

-----------------------------------------------------------------------------
(* A commit of another request.                                            *)

\* It adds a row only under an id the loader has not met.
LEMMA CommitTables ==
    ASSUME Histories, Commit
    PROVE  /\ TablesInv'
           /\ member' \in [Members -> Families \cup {NoFamily}]
           /\ backgrounds' \subseteq {m \in Members : member'[m] # NoFamily}
           /\ active' \subseteq {p \in Policies : policy'[p] # NoRow}
           /\ \A m \in Members : member'[m] \in {member[m], NoFamily} \/ <<"member", m>> \notin ever
           /\ \A c \in Children : child'[c] \in {child[c], NoFamily} \/ <<"child", c>> \notin ever
<1>. DEFINE Goal ==
           /\ TablesInv'
           /\ member' \in [Members -> Families \cup {NoFamily}]
           /\ backgrounds' \subseteq {m \in Members : member'[m] # NoFamily}
           /\ active' \subseteq {p \in Policies : policy'[p] # NoRow}
           /\ \A m \in Members : member'[m] \in {member[m], NoFamily} \/ <<"member", m>> \notin ever
           /\ \A c \in Children : child'[c] \in {child[c], NoFamily} \/ <<"child", c>> \notin ever
<1>1. /\ TablesInv /\ member \in [Members -> Families \cup {NoFamily}]
      /\ backgrounds \subseteq {m \in Members : member[m] # NoFamily}
      /\ active \subseteq {p \in Policies : policy[p] # NoRow}
      /\ child \in [Children -> Families \cup {NoFamily}]
      /\ policy \in [Policies -> PolicyRow \cup {NoRow}]
    BY DEF Histories, TablesInv, TablesTypeOK
<1>2. ASSUME UNCHANGED tables
      PROVE  TablesInv' /\ UNCHANGED <<child, profiles, entry, policy>>
    BY <1>1, <1>2, TablesStep DEF tables
<1>3. ASSUME NEW m \in Members, DropMember(m)
      PROVE  Goal
    BY <1>1, <1>2, <1>3 DEF DropMember
<1>4. ASSUME NEW m \in Members, AddBackground(m)
      PROVE  Goal
    BY <1>1, <1>2, <1>4 DEF AddBackground
<1>5. ASSUME NEW m \in Members, NEW f \in Families, AddMember(m, f)
      PROVE  Goal
    BY <1>1, <1>2, <1>5, TablesOK DEF AddMember, Unmet
<1>6. ASSUME NEW p \in Policies, Toggle(p)
      PROVE  Goal
    BY <1>1, <1>2, <1>6 DEF Toggle
<1>7. ASSUME NEW p \in Policies, ChangePolicies(p), UNCHANGED <<member, backgrounds>>
      PROVE  Goal
    <2>1. CASE DropPolicy(p) /\ active' = active \ {p}
        <3>1. TablesInv'
            BY <1>1, <2>1, DropPolicyInv
        <3>2. child' = child /\ \A q \in Policies : q # p => policy'[q] = policy[q]
            BY <1>1, <2>1 DEF DropPolicy
        <3>. QED BY <1>1, <1>7, <2>1, <3>1, <3>2
    <2>2. CASE ~(DropPolicy(p) /\ active' = active \ {p})
        <3>1. PICK f \in Families, c \in Children \cup {NoChild} :
                AddPolicy(p, f, c) /\ active' \in {active, active \cup {p}}
            BY <1>7, <2>2 DEF ChangePolicies
        <3>2. TablesInv'
            BY <1>1, <3>1, AddPolicyInv
        <3>3. /\ child' = child /\ \A q \in Policies : q # p => policy'[q] = policy[q]
              /\ policy'[p] = [family |-> f, child |-> c]
            BY <1>1, <3>1 DEF AddPolicy
        <3>4. policy'[p] # NoRow
            BY <3>3, TablesOK DEF PolicyRow
        <3>. QED BY <1>1, <1>7, <3>1, <3>2, <3>3, <3>4
    <2>. QED BY <2>1, <2>2
<1>8. ASSUME NEW c \in Children, DropChild(c), UNCHANGED <<member, backgrounds, active>>
      PROVE  Goal
    <2>1. TablesInv'
        BY <1>1, <1>8, DropChildInv
    <2>2. policy' = policy /\ \A d \in Children : child'[d] \in {child[d], NoFamily}
        BY <1>1, <1>8 DEF DropChild
    <2>. QED BY <1>1, <1>8, <2>1, <2>2
<1>9. ASSUME NEW c \in Children, NEW f \in Families, Unmet("child", c), AddChild(c, f),
             UNCHANGED <<member, backgrounds, active>>
      PROVE  Goal
    <2>1. TablesInv'
        BY <1>1, <1>9, AddChildInv
    <2>2. policy' = policy /\ \A d \in Children : child'[d] = child[d] \/ <<"child", d>> \notin ever
        BY <1>1, <1>9 DEF AddChild, Unmet
    <2>. QED BY <1>1, <1>9, <2>1, <2>2
<1>. HIDE DEF Goal
<1>10. Goal
    BY <1>3, <1>4, <1>5, <1>6, <1>7, <1>8, <1>9 DEF Commit
<1>. QED BY <1>10 DEF Goal

\* The loader sees what has changed at its next statement: until then the
\* history grows and what has been so throughout shrinks.
LEMMA CommitStep ==
    ASSUME BundleInv, Commit
    PROVE  BundleInv'
<1>1. pc' = pc /\ fam' = fam /\ loaded' = loaded /\ fresh' = fresh /\ bundle' = bundle
    BY DEF Commit, loader
<1>2. PICK F : F = Facts(fam)'
    OBVIOUS
<1>3. /\ pc = "idle" => ever' = {} /\ always' = {} /\ ever = {} /\ always = {}
      /\ pc # "idle" => ever' = ever \cup F /\ always' = always \cap F
    BY <1>2 DEF Commit, BundleInv, Histories
<1>4. ever \subseteq ever' /\ always' \subseteq always
    BY <1>3
<1>5. /\ \A m \in Members : <<"member", m>> \in F <=> member'[m] = fam
      /\ \A m \in Members : <<"member profile", m>> \in F <=> member'[m] = fam /\ m \in backgrounds'
      /\ \A c \in Children : <<"child", c>> \in F <=> child'[c] = fam
      /\ \A c \in Children : <<"reading profile", c>> \in F <=> child'[c] = fam /\ c \in profiles'
    BY <1>1, <1>2 DEF Facts, Tagged, Flags, MembersOf, ChildrenOf
<1>6. Histories'
    <2>1. /\ pc # "idle" => F \subseteq ever' /\ always' \subseteq F
          /\ pc = "idle" => ever' = {} /\ always' = {}
        BY <1>3
    <2>2. \A m \in Members : <<"member", m>> \in ever' => member'[m] \in {fam, NoFamily}
        BY <1>3, <1>5, CommitTables DEF BundleInv, Histories
    <2>3. \A c \in Children : <<"child", c>> \in ever' => child'[c] \in {fam, NoFamily}
        BY <1>3, <1>5, CommitTables DEF BundleInv, Histories
    <2>4. /\ \A m \in Members : <<"member profile", m>> \in always' => <<"member", m>> \in always'
          /\ \A c \in Children : <<"reading profile", c>> \in always' => <<"child", c>> \in always'
        BY <1>3, <1>5 DEF BundleInv, Histories
    <2>. QED BY <1>1, <1>2, <2>1, <2>2, <2>3, <2>4, CommitTables DEF BundleInv, Histories
<1>7. Session'
    BY <1>1, <1>4 DEF BundleInv, Session
<1>8. Covered'
    BY <1>1, <1>4 DEF BundleInv, Covered
<1>. QED BY <1>6, <1>7, <1>8 DEF BundleInv


-----------------------------------------------------------------------------
(* A statement of the loader.                                              *)

\* What the tables say while the loader is at work has been so at some time of
\* the load, and what has been so all through the load they say.
LEMMA SeenNow ==
    ASSUME Histories, pc # "idle"
    PROVE  /\ \A m \in MembersOf(fam) : <<"member", m>> \in ever
           /\ \A m \in MembersOf(fam) \cap backgrounds : <<"member profile", m>> \in ever
           /\ \A c \in ChildrenOf(fam) : <<"child", c>> \in ever
           /\ \A c \in ChildrenOf(fam) \cap profiles : <<"reading profile", c>> \in ever
           /\ \A p \in PoliciesOf(fam) \cap active :
                <<"policy", p>> \in ever /\ <<"flag", p, TRUE>> \in ever
           /\ \A p \in PoliciesOf(fam) \ active :
                <<"flag", p, FALSE>> \in ever /\ <<"flag", p, TRUE>> \notin always
           /\ \A m : <<"member", m>> \in always => m \in MembersOf(fam)
           /\ \A m : <<"member profile", m>> \in always => m \in MembersOf(fam) \cap backgrounds
           /\ \A c : <<"child", c>> \in always => c \in ChildrenOf(fam)
           /\ \A c : <<"reading profile", c>> \in always => c \in ChildrenOf(fam) \cap profiles
           /\ \A p : <<"policy", p>> \in always => p \in PoliciesOf(fam) \cap active
           /\ \A p : <<"flag", p, TRUE>> \in always => p \in PoliciesOf(fam) \cap active
<1>1. Facts(fam) \subseteq ever /\ always \subseteq Facts(fam)
    BY DEF Histories
<1>. QED BY <1>1, FactsAre

\* A statement that changes nothing but the loader leaves the histories as
\* they are.
LEMMA HistoriesStay ==
    ASSUME Histories, UNCHANGED <<db, fam, ever, always>>, pc # "idle", pc' \in PCs \ {"idle"}
    PROVE  Histories'
<1>1. TablesInv'
    BY TablesStep DEF Histories, db, tables
<1>2. Facts(fam)' = Facts(fam)
    BY DEF db, Facts, MembersOf, ChildrenOf, PoliciesOf
<1>. QED BY <1>1, <1>2 DEF Histories, db

\* A Select is such a statement.
LEMMA SelectStays ==
    ASSUME BundleInv, NEW l, NEW objects, NEW new, NEW facts, NEW next,
           Select(l, objects, new, facts, next), l # "idle", next \in PCs \ {"idle"}
    PROVE  Histories' /\ ever' = ever /\ always' = always /\ pc = l /\ pc' = next
           /\ loaded' = objects /\ fresh' = new /\ bundle' = bundle \cup facts
BY HistoriesStay DEF BundleInv, Select

\* The members are read: those that are new to the session wait for their
\* profiles.
LEMMA SelectMembersStep ==
    ASSUME BundleInv, NEW l, NEW next, NEW listed \in BOOLEAN, SelectMembers(l, next, listed),
           \/ l = "members" /\ next = "member profiles" /\ listed = FALSE
           \/ l = "list members" /\ next = "list member profiles" /\ listed = TRUE
    PROVE  BundleInv'
<1>. DEFINE rows == MembersOf(fam)
            facts == IF listed THEN Tagged("member", rows) ELSE {}
<1>1. /\ Histories' /\ ever' = ever /\ always' = always /\ pc = l /\ pc' = next
      /\ loaded' = [loaded EXCEPT !.members = @ \cup rows]
      /\ fresh' = rows \ loaded.members /\ bundle' = bundle \cup facts
    BY SelectStays DEF SelectMembers, PCs
<1>2. /\ rows \subseteq Members
      /\ \A m \in rows : <<"member", m>> \in ever
      /\ \A m : <<"member", m>> \in always => m \in rows
    BY <1>1, RowsAre, SeenNow DEF BundleInv
<1>3. facts \subseteq ever /\ (listed => \A m \in rows : <<"member", m>> \in facts)
    BY <1>2 DEF Tagged
<1>. HIDE DEF rows, facts
<1>4. /\ loaded'.members = loaded.members \cup rows
      /\ loaded'.backgrounds = loaded.backgrounds
      /\ loaded'.children = loaded.children /\ loaded'.profiles = loaded.profiles
      /\ loaded'.on = loaded.on /\ loaded'.off = loaded.off
      /\ loaded' \in [members : SUBSET Members, backgrounds : SUBSET Members,
                      children : SUBSET Children, profiles : SUBSET Children,
                      on : SUBSET Policies, off : SUBSET Policies]
    BY <1>1, <1>2 DEF BundleInv, Session
<1>5. Session'
    BY <1>1, <1>2, <1>3, <1>4 DEF BundleInv, Session, LoadsMembers, LoadsChildren
<1>6. Covered'
    BY <1>1, <1>2, <1>3, <1>4 DEF BundleInv, Covered, LoadsMembers, LoadsChildren
<1>. QED BY <1>1, <1>5, <1>6 DEF BundleInv

\* Their profiles are read, of the members that are still there: such a
\* member is still of the family.
LEMMA SelectBackgroundsStep ==
    ASSUME BundleInv, NEW l, NEW next, NEW listed \in BOOLEAN, SelectBackgrounds(l, next, listed),
           \/ l = "member profiles" /\ next = "children" /\ listed = FALSE
           \/ l = "list member profiles" /\ next = "list children" /\ listed = TRUE
    PROVE  BundleInv'
<1>. DEFINE known == loaded.backgrounds \cup (fresh \cap backgrounds)
            facts == IF listed
                     THEN {<<"member profile", m>> : m \in {x \in known : <<"member", x>> \in bundle}}
                     ELSE {}
<1>1. /\ Histories' /\ ever' = ever /\ always' = always /\ pc = l /\ pc' = next
      /\ loaded' = [loaded EXCEPT !.backgrounds = known]
      /\ fresh' = {} /\ bundle' = bundle \cup facts
    BY SelectStays DEF SelectBackgrounds, PCs
<1>2. fresh \subseteq loaded.members /\ loaded.members \subseteq Members
      /\ loaded.backgrounds \subseteq loaded.members
    BY <1>1 DEF BundleInv, Session, LoadsMembers
<1>3. known \subseteq loaded.members
    BY <1>2
<1>4. \A m \in fresh \cap backgrounds : m \in MembersOf(fam) \cap backgrounds
    BY <1>2 DEF BundleInv, Session, Histories, MembersOf
<1>5. \A m \in known : <<"member profile", m>> \in ever
    BY <1>1, <1>4, SeenNow DEF BundleInv, Session
<1>6. \A m \in loaded.members : <<"member profile", m>> \in always => m \in known
    BY <1>1, SeenNow DEF BundleInv, Covered
<1>7. /\ facts \subseteq ever
      /\ listed => \A m \in known : <<"member", m>> \in bundle => <<"member profile", m>> \in facts
    BY <1>5
<1>. HIDE DEF known, facts
<1>8. /\ loaded'.members = loaded.members
      /\ loaded'.backgrounds = known
      /\ loaded'.children = loaded.children /\ loaded'.profiles = loaded.profiles
      /\ loaded'.on = loaded.on /\ loaded'.off = loaded.off
      /\ loaded' \in [members : SUBSET Members, backgrounds : SUBSET Members,
                      children : SUBSET Children, profiles : SUBSET Children,
                      on : SUBSET Policies, off : SUBSET Policies]
    BY <1>1, <1>2, <1>3 DEF BundleInv, Session
<1>9. Session'
    BY <1>1, <1>3, <1>5, <1>7, <1>8 DEF BundleInv, Session, LoadsMembers, LoadsChildren
<1>10. listed => \A m \in Members : <<"member profile", m>> \in always => <<"member profile", m>> \in facts
    BY <1>1, <1>6, <1>7 DEF BundleInv, Histories, Covered
<1>11. Covered'
    BY <1>1, <1>6, <1>8, <1>10 DEF BundleInv, Covered, LoadsMembers, LoadsChildren
<1>. QED BY <1>1, <1>9, <1>11 DEF BundleInv

\* The children are read as the members are.
LEMMA SelectChildrenStep ==
    ASSUME BundleInv, NEW l, NEW next, NEW listed \in BOOLEAN, SelectChildren(l, next, listed),
           \/ l = "children" /\ next = "reading profiles" /\ listed = FALSE
           \/ l = "list children" /\ next = "list reading profiles" /\ listed = TRUE
    PROVE  BundleInv'
<1>. DEFINE rows == ChildrenOf(fam)
            facts == IF listed THEN Tagged("child", rows) ELSE {}
<1>1. /\ Histories' /\ ever' = ever /\ always' = always /\ pc = l /\ pc' = next
      /\ loaded' = [loaded EXCEPT !.children = @ \cup rows]
      /\ fresh' = rows \ loaded.children /\ bundle' = bundle \cup facts
    BY SelectStays DEF SelectChildren, PCs
<1>2. /\ rows \subseteq Children
      /\ \A c \in rows : <<"child", c>> \in ever
      /\ \A c : <<"child", c>> \in always => c \in rows
    BY <1>1, RowsAre, SeenNow DEF BundleInv
<1>3. facts \subseteq ever /\ (listed => \A c \in rows : <<"child", c>> \in facts)
    BY <1>2 DEF Tagged
<1>. HIDE DEF rows, facts
<1>4. /\ loaded'.members = loaded.members
      /\ loaded'.backgrounds = loaded.backgrounds
      /\ loaded'.children = loaded.children \cup rows /\ loaded'.profiles = loaded.profiles
      /\ loaded'.on = loaded.on /\ loaded'.off = loaded.off
      /\ loaded' \in [members : SUBSET Members, backgrounds : SUBSET Members,
                      children : SUBSET Children, profiles : SUBSET Children,
                      on : SUBSET Policies, off : SUBSET Policies]
    BY <1>1, <1>2 DEF BundleInv, Session
<1>5. Session'
    BY <1>1, <1>2, <1>3, <1>4 DEF BundleInv, Session, LoadsMembers, LoadsChildren
<1>6. Covered'
    BY <1>1, <1>2, <1>3, <1>4 DEF BundleInv, Covered, LoadsMembers, LoadsChildren
<1>. QED BY <1>1, <1>5, <1>6 DEF BundleInv

\* Their reading profiles are read: a child has one as long as it is stored.
LEMMA SelectProfilesStep ==
    ASSUME BundleInv, NEW l, NEW next, NEW listed \in BOOLEAN, SelectProfiles(l, next, listed),
           \/ l = "reading profiles" /\ next = "policies" /\ listed = FALSE
           \/ l = "list reading profiles" /\ next = "list policies" /\ listed = TRUE
    PROVE  BundleInv'
<1>. DEFINE known == loaded.profiles \cup (fresh \cap profiles)
            facts == IF listed
                     THEN {<<"reading profile", c>> : c \in {x \in known : <<"child", x>> \in bundle}}
                     ELSE {}
<1>1. /\ Histories' /\ ever' = ever /\ always' = always /\ pc = l /\ pc' = next
      /\ loaded' = [loaded EXCEPT !.profiles = known]
      /\ fresh' = {} /\ bundle' = bundle \cup facts
    BY SelectStays DEF SelectProfiles, PCs
<1>2. fresh \subseteq loaded.children /\ loaded.children \subseteq Children
      /\ loaded.profiles \subseteq loaded.children
    BY <1>1 DEF BundleInv, Session, LoadsMembers, LoadsChildren
<1>3. known \subseteq loaded.children
    BY <1>2
<1>4. \A c \in fresh \cap profiles : c \in ChildrenOf(fam) \cap profiles
    BY <1>2 DEF BundleInv, Session, Histories, TablesInv, TablesConsistent, IsChild, ChildrenOf
<1>5. \A c \in known : <<"reading profile", c>> \in ever
    BY <1>1, <1>4, SeenNow DEF BundleInv, Session
<1>6. \A c \in loaded.children : <<"reading profile", c>> \in always => c \in known
    BY <1>1, SeenNow DEF BundleInv, Covered
<1>7. /\ facts \subseteq ever
      /\ listed => \A c \in known : <<"child", c>> \in bundle => <<"reading profile", c>> \in facts
    BY <1>5
<1>. HIDE DEF known, facts
<1>8. /\ loaded'.members = loaded.members
      /\ loaded'.backgrounds = loaded.backgrounds
      /\ loaded'.children = loaded.children /\ loaded'.profiles = known
      /\ loaded'.on = loaded.on /\ loaded'.off = loaded.off
      /\ loaded' \in [members : SUBSET Members, backgrounds : SUBSET Members,
                      children : SUBSET Children, profiles : SUBSET Children,
                      on : SUBSET Policies, off : SUBSET Policies]
    BY <1>1, <1>2, <1>3 DEF BundleInv, Session
<1>9. Session'
    BY <1>1, <1>3, <1>5, <1>7, <1>8 DEF BundleInv, Session, LoadsMembers, LoadsChildren
<1>10. listed => \A c \in Children : <<"reading profile", c>> \in always => <<"reading profile", c>> \in facts
    BY <1>1, <1>6, <1>7 DEF BundleInv, Histories, Covered
<1>11. Covered'
    BY <1>1, <1>6, <1>8, <1>10 DEF BundleInv, Covered, LoadsMembers, LoadsChildren
<1>. QED BY <1>1, <1>9, <1>11 DEF BundleInv

\* A query for policies adds those that are new to the session, as their
\* rows now are.
LEMMA WithPoliciesIs ==
    ASSUME BundleInv, pc # "idle", NEW rows \in SUBSET PoliciesOf(fam)
    PROVE  LET now == WithPolicies(rows)
           IN  /\ now \in [members : SUBSET Members, backgrounds : SUBSET Members,
                           children : SUBSET Children, profiles : SUBSET Children,
                           on : SUBSET Policies, off : SUBSET Policies]
               /\ now.members = loaded.members /\ now.backgrounds = loaded.backgrounds
               /\ now.children = loaded.children /\ now.profiles = loaded.profiles
               /\ now.on \cap now.off = {} /\ rows \subseteq now.on \cup now.off
               /\ \A p \in now.on : <<"flag", p, TRUE>> \in ever
               /\ \A p \in now.off : <<"flag", p, FALSE>> \in ever /\ <<"flag", p, TRUE>> \notin always
<1>. DEFINE now == WithPolicies(rows)
            new == rows \ (loaded.on \cup loaded.off)
<1>1. loaded \in [members : SUBSET Members, backgrounds : SUBSET Members,
                  children : SUBSET Children, profiles : SUBSET Children,
                  on : SUBSET Policies, off : SUBSET Policies]
      /\ loaded.on \cap loaded.off = {} /\ rows \subseteq Policies
    BY RowsAre DEF BundleInv, Session
<1>2. /\ now.members = loaded.members /\ now.backgrounds = loaded.backgrounds
      /\ now.children = loaded.children /\ now.profiles = loaded.profiles
      /\ now.on = loaded.on \cup (new \cap active)
      /\ now.off = loaded.off \cup (new \ active)
      /\ now \in [members : SUBSET Members, backgrounds : SUBSET Members,
                  children : SUBSET Children, profiles : SUBSET Children,
                  on : SUBSET Policies, off : SUBSET Policies]
    BY <1>1 DEF WithPolicies
<1>3. /\ \A p \in new \cap active : <<"flag", p, TRUE>> \in ever
      /\ \A p \in new \ active : <<"flag", p, FALSE>> \in ever /\ <<"flag", p, TRUE>> \notin always
    BY SeenNow DEF BundleInv
<1>4. /\ \A p \in loaded.on : <<"flag", p, TRUE>> \in ever
      /\ \A p \in loaded.off : <<"flag", p, FALSE>> \in ever /\ <<"flag", p, TRUE>> \notin always
    BY DEF BundleInv, Session
<1>5. now.on \cap now.off = {} /\ rows \subseteq now.on \cup now.off
    BY <1>1, <1>2
<1>6. /\ \A p \in now.on : <<"flag", p, TRUE>> \in ever
      /\ \A p \in now.off : <<"flag", p, FALSE>> \in ever /\ <<"flag", p, TRUE>> \notin always
    BY <1>2, <1>3, <1>4
<1>. HIDE DEF now
<1>7. now = WithPolicies(rows)
    BY DEF now
<1>. QED BY <1>2, <1>5, <1>6, <1>7

\* The policies come with the family.
LEMMA LoadPoliciesStep ==
    ASSUME BundleInv, LoadPolicies
    PROVE  BundleInv'
<1>. DEFINE now == WithPolicies(PoliciesOf(fam))
<1>1. /\ Histories' /\ ever' = ever /\ always' = always /\ pc = "policies" /\ pc' = "list members"
      /\ loaded' = now /\ fresh' = {} /\ bundle' = bundle \cup {}
    BY HistoriesStay DEF BundleInv, Select, LoadPolicies, PCs
<1>2. /\ now \in [members : SUBSET Members, backgrounds : SUBSET Members,
                  children : SUBSET Children, profiles : SUBSET Children,
                  on : SUBSET Policies, off : SUBSET Policies]
      /\ now.members = loaded.members /\ now.backgrounds = loaded.backgrounds
      /\ now.children = loaded.children /\ now.profiles = loaded.profiles
      /\ now.on \cap now.off = {}
      /\ \A p \in now.on : <<"flag", p, TRUE>> \in ever
      /\ \A p \in now.off : <<"flag", p, FALSE>> \in ever /\ <<"flag", p, TRUE>> \notin always
    BY <1>1, WithPoliciesIs
<1>. HIDE DEF now
<1>3. Session'
    BY <1>1, <1>2 DEF BundleInv, Session, LoadsMembers, LoadsChildren
<1>4. Covered'
    BY <1>1, <1>2 DEF BundleInv, Covered, LoadsMembers, LoadsChildren
<1>. QED BY <1>1, <1>3, <1>4 DEF BundleInv

\* list_active: a policy that has been active all through the load is listed
\* and no object of the session says otherwise.
LEMMA ListPoliciesStep ==
    ASSUME BundleInv, ListPolicies
    PROVE  BundleInv'
<1>. DEFINE rows == PoliciesOf(fam) \cap active
            now == WithPolicies(rows)
            facts == Tagged("policy", rows) \cup Flags(rows \cap now.on, rows \cap now.off)
<1>1. /\ Histories' /\ ever' = ever /\ always' = always /\ pc = "list policies" /\ pc' = "reply"
      /\ loaded' = now /\ fresh' = {} /\ bundle' = bundle \cup facts
    BY HistoriesStay DEF BundleInv, Select, ListPolicies, PCs
<1>2. /\ now \in [members : SUBSET Members, backgrounds : SUBSET Members,
                  children : SUBSET Children, profiles : SUBSET Children,
                  on : SUBSET Policies, off : SUBSET Policies]
      /\ now.members = loaded.members /\ now.backgrounds = loaded.backgrounds
      /\ now.children = loaded.children /\ now.profiles = loaded.profiles
      /\ now.on \cap now.off = {} /\ rows \subseteq now.on \cup now.off
      /\ \A p \in now.on : <<"flag", p, TRUE>> \in ever
      /\ \A p \in now.off : <<"flag", p, FALSE>> \in ever /\ <<"flag", p, TRUE>> \notin always
    BY <1>1, WithPoliciesIs
<1>3. /\ \A p \in rows : <<"policy", p>> \in ever
      /\ \A p : <<"policy", p>> \in always => p \in rows
      /\ \A p : <<"flag", p, TRUE>> \in always => p \in rows
    BY <1>1, SeenNow DEF BundleInv
<1>. HIDE DEF rows, now
<1>4. facts \subseteq ever
    BY <1>2, <1>3 DEF Tagged, Flags
<1>5. /\ \A p : <<"policy", p>> \in always => <<"policy", p>> \in facts
      /\ \A p : <<"flag", p, TRUE>> \in always => <<"flag", p, TRUE>> \in facts
    BY <1>2, <1>3 DEF Tagged, Flags
<1>. HIDE DEF facts
<1>6. Session'
    BY <1>1, <1>2, <1>4 DEF BundleInv, Session, LoadsMembers, LoadsChildren
<1>7. Covered'
    BY <1>1, <1>2, <1>5 DEF BundleInv, Covered, LoadsMembers, LoadsChildren
<1>. QED BY <1>1, <1>6, <1>7 DEF BundleInv

\* The family is found: its rows are read next.
LEMMA FoundStep ==
    ASSUME BundleInv, Select("family", loaded, {}, {}, "members")
    PROVE  BundleInv'
<1>1. /\ Histories' /\ ever' = ever /\ always' = always /\ pc = "family" /\ pc' = "members"
      /\ loaded' = loaded /\ fresh' = {} /\ bundle' = bundle \cup {}
    BY HistoriesStay DEF BundleInv, Select, PCs
<1>2. Session'
    BY <1>1 DEF BundleInv, Session, LoadsMembers, LoadsChildren
<1>3. Covered'
    BY <1>1 DEF BundleInv, Covered, LoadsMembers, LoadsChildren
<1>. QED BY <1>1, <1>2, <1>3 DEF BundleInv

\* A load begins with an empty session: all that the tables say is both the
\* first of what has been so and all that can be so throughout.
LEMMA RequestStep ==
    ASSUME BundleInv, Request
    PROVE  BundleInv'
<1>1. /\ pc = "idle" /\ pc' = "family" /\ fam' \in Families \cup {Ghost}
      /\ loaded' = Empty /\ fresh' = {} /\ bundle' = {}
      /\ UNCHANGED <<child, profiles, entry, policy, member, backgrounds, active>>
    BY DEF Request, BundleInv, Session, db
<1>2. ever' = Facts(fam)' /\ always' = Facts(fam)'
    BY <1>1 DEF Request, Facts, Tagged, Flags, MembersOf, ChildrenOf, PoliciesOf
<1>3. /\ \A m \in Members : <<"member", m>> \in ever' => member'[m] = fam'
      /\ \A c \in Children : <<"child", c>> \in ever' => child'[c] = fam'
      /\ \A m \in Members : <<"member profile", m>> \in always' => <<"member", m>> \in always'
      /\ \A c \in Children : <<"reading profile", c>> \in always' => <<"child", c>> \in always'
    BY <1>1, <1>2 DEF Facts, Tagged, Flags, MembersOf, ChildrenOf
<1>4. TablesInv'
    BY <1>1, TablesStep DEF BundleInv, Histories, tables
<1>5. Histories'
    BY <1>1, <1>2, <1>3, <1>4 DEF BundleInv, Histories, PCs
<1>6. Session'
    BY <1>1 DEF Session, Empty, LoadsMembers, LoadsChildren
<1>7. Covered'
    BY <1>1 DEF Covered, Empty
<1>. QED BY <1>5, <1>6, <1>7 DEF BundleInv

\* A load that has ended leaves nothing behind.
LEMMA IdleStep ==
    ASSUME BundleInv, Idle
    PROVE  BundleInv'
<1>1. /\ pc' = "idle" /\ fam' = NoFamily /\ loaded' = Empty
      /\ fresh' = {} /\ bundle' = {} /\ ever' = {} /\ always' = {}
      /\ UNCHANGED <<child, profiles, entry, policy, member, backgrounds, active>>
    BY DEF Idle, db
<1>2. TablesInv'
    BY <1>1, TablesStep DEF BundleInv, Histories, tables
<1>3. Histories'
    BY <1>1, <1>2 DEF BundleInv, Histories, PCs
<1>4. Session'
    BY <1>1 DEF Session, Empty, LoadsMembers, LoadsChildren
<1>5. Covered'
    BY <1>1 DEF Covered, Empty
<1>. QED BY <1>3, <1>4, <1>5 DEF BundleInv

-----------------------------------------------------------------------------
(* The invariant.                                                          *)

\* It holds before the first load.
LEMMA BundleInit == Init => BundleInv
<1>. SUFFICES ASSUME Init PROVE BundleInv
    OBVIOUS
<1>1. TablesInv
    BY TablesInitInv DEF Init
<1>2. Histories
    BY <1>1 DEF Init, Histories, TablesInit, PCs
<1>3. Session
    BY DEF Init, Session, Empty, LoadsMembers, LoadsChildren
<1>4. Covered
    BY DEF Init, Covered, Empty
<1>. QED BY <1>2, <1>3, <1>4 DEF BundleInv

\* Every commit of another request and every statement of the loader keeps it.
LEMMA BundleNext == BundleInv /\ [Next]_vars => BundleInv'
<1>. SUFFICES ASSUME BundleInv, [Next]_vars PROVE BundleInv'
    OBVIOUS
<1>1. CASE Commit
    BY <1>1, CommitStep
<1>2. CASE Request
    BY <1>2, RequestStep
<1>3. CASE FindFamily
    BY <1>3, IdleStep, FoundStep DEF FindFamily
<1>4. CASE SelectMembers("members", "member profiles", FALSE)
    BY <1>4, SelectMembersStep
<1>5. CASE SelectBackgrounds("member profiles", "children", FALSE)
    BY <1>5, SelectBackgroundsStep
<1>6. CASE SelectChildren("children", "reading profiles", FALSE)
    BY <1>6, SelectChildrenStep
<1>7. CASE SelectProfiles("reading profiles", "policies", FALSE)
    BY <1>7, SelectProfilesStep
<1>8. CASE LoadPolicies
    BY <1>8, LoadPoliciesStep
<1>9. CASE SelectMembers("list members", "list member profiles", TRUE)
    BY <1>9, SelectMembersStep
<1>10. CASE SelectBackgrounds("list member profiles", "list children", TRUE)
    BY <1>10, SelectBackgroundsStep
<1>11. CASE SelectChildren("list children", "list reading profiles", TRUE)
    BY <1>11, SelectChildrenStep
<1>12. CASE SelectProfiles("list reading profiles", "list policies", TRUE)
    BY <1>12, SelectProfilesStep
<1>13. CASE ListPolicies
    BY <1>13, ListPoliciesStep
<1>14. CASE Reply
    BY <1>14, IdleStep DEF Reply
<1>15. CASE UNCHANGED vars
    <2>1. UNCHANGED <<child, profiles, entry, policy, member, backgrounds, active, pc, fam,
                      loaded, fresh, bundle, ever, always>>
        BY <1>15 DEF vars
    <2>2. TablesInv' /\ Facts(fam)' = Facts(fam)
        BY <2>1, TablesStep
        DEF BundleInv, Histories, tables, Facts, MembersOf, ChildrenOf, PoliciesOf
    <2>3. Histories'
        BY <2>1, <2>2 DEF BundleInv, Histories
    <2>4. Session'
        BY <2>1 DEF BundleInv, Session
    <2>5. Covered'
        BY <2>1 DEF BundleInv, Covered
    <2>. QED BY <2>3, <2>4, <2>5 DEF BundleInv
<1>. QED BY <1>1, <1>2, <1>3, <1>4, <1>5, <1>6, <1>7, <1>8, <1>9, <1>10, <1>11, <1>12, <1>13,
            <1>14, <1>15 DEF Next, Load

\* It holds in every reachable state, whatever the other requests commit
\* between two statements of the loader.
THEOREM BundleInvariant == Spec => []BundleInv
BY BundleInit, BundleNext, PTL DEF Spec

-----------------------------------------------------------------------------
(* What follows from it.                                                   *)

\* The tables the loader reads are consistent at every moment: a member's
\* profile has its member, a child has its reading profile.
THEOREM TablesUnderLoadConsistent == Spec => []TablesConsistent
<1>1. BundleInv => TablesConsistent
    BY DEF BundleInv, Histories, TablesInv
<1>. QED BY <1>1, BundleInvariant, PTL

\* FamilyContextLoader.load invents nothing and crosses no families: all it
\* answers was committed of that family at some time during the load.
THEOREM BundleInventsNothing == Spec => []NothingInvented
<1>1. BundleInv => NothingInvented
    BY DEF BundleInv, Session, NothingInvented
<1>. QED BY <1>1, BundleInvariant, PTL

\* What stood all through the load is in the answer, whatever changes around
\* it between the statements.
THEOREM BundleMissesNothing == Spec => []NothingMissed
<1>1. BundleInv => NothingMissed
    <2>. SUFFICES ASSUME BundleInv, pc = "reply", NEW x \in always, x[1] # "flag" \/ x[3]
                  PROVE  x \in bundle
        BY DEF NothingMissed
    <2>1. x \in Facts(fam)
        BY DEF BundleInv, Histories
    <2>2. CASE x \in Tagged("member", MembersOf(fam))
        BY <2>2, RowsAre DEF Tagged, BundleInv, Covered
    <2>3. CASE x \in Tagged("member profile", MembersOf(fam) \cap backgrounds)
        BY <2>3, RowsAre DEF Tagged, BundleInv, Covered
    <2>4. CASE x \in Tagged("child", ChildrenOf(fam))
        BY <2>4, RowsAre DEF Tagged, BundleInv, Covered
    <2>5. CASE x \in Tagged("reading profile", ChildrenOf(fam) \cap profiles)
        BY <2>5, RowsAre DEF Tagged, BundleInv, Covered
    <2>6. CASE x \in Tagged("policy", PoliciesOf(fam) \cap active)
        BY <2>6, RowsAre DEF Tagged, BundleInv, Covered
    <2>7. CASE x \in Flags(PoliciesOf(fam) \cap active, PoliciesOf(fam) \ active)
        <3>1. PICK p \in PoliciesOf(fam) : x = <<"flag", p, TRUE>> \/ x = <<"flag", p, FALSE>>
            BY <2>7 DEF Flags
        <3>2. <<"flag", p, FALSE>>[1] = "flag" /\ <<"flag", p, FALSE>>[3] = FALSE
            OBVIOUS
        <3>3. x # <<"flag", p, FALSE>>
            BY <3>2, Zenon
        <3>. QED BY <3>1, <3>3, RowsAre DEF BundleInv, Covered
    <2>. QED BY <2>1, <2>2, <2>3, <2>4, <2>5, <2>6, <2>7 DEF Facts
<1>. QED BY <1>1, BundleInvariant, PTL

\* Every variable keeps its type: the session holds a 1:1 profile only with
\* its owner and no policy twice.
THEOREM BundleTypeOK == Spec => []TypeOK
<1>1. BundleInv => TypeOK
    <2>. SUFFICES ASSUME BundleInv PROVE TypeOK
        OBVIOUS
    <2>1. loaded \in [members : SUBSET Members, backgrounds : SUBSET loaded.members,
                      children : SUBSET Children, profiles : SUBSET loaded.children,
                      on : SUBSET Policies, off : SUBSET (Policies \ loaded.on)]
        BY DEF BundleInv, Session
    <2>2. fresh \subseteq loaded.members \cup loaded.children
        BY DEF BundleInv, Session
    <2>. QED BY <2>1, <2>2 DEF BundleInv, Histories, TablesInv, TypeOK
<1>. QED BY <1>1, BundleInvariant, PTL
=============================================================================

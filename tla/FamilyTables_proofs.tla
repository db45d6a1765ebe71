------------------------ MODULE FamilyTables_proofs ------------------------
(***************************************************************************)
(* Theorems about FamilyTables, for any sets of families, children,        *)
(* reading-history entries and policies.                                   *)
(***************************************************************************)
EXTENDS FamilyTables, TLAPS

TablesInv == TablesTypeOK /\ TablesConsistent

\* Nothing is stored at first.
LEMMA TablesInitInv == TablesInit => TablesInv
BY TablesOK DEF TablesInit, TablesInv, TablesTypeOK, TablesConsistent, IsChild

\* create in services/child.py stores the child and its seeded profile in one
\* transaction, and no row names a child that is not stored.
LEMMA AddChildInv ==
    ASSUME TablesInv, NEW c \in Children, NEW f \in Families, AddChild(c, f)
    PROVE  TablesInv'
<1>1. TablesTypeOK'
  BY DEF TablesInv, TablesTypeOK, AddChild
<1>2. \A d \in Children : IsChild(d)' <=> IsChild(d) \/ d = c
  BY TablesOK DEF TablesInv, TablesTypeOK, AddChild, IsChild
<1>3. (profiles = {d \in Children : IsChild(d)})'
  BY <1>2 DEF TablesInv, TablesConsistent, AddChild
<1>4. (\A e \in Entries : entry[e] # NoChild => IsChild(entry[e]))'
  BY <1>2 DEF TablesInv, TablesTypeOK, TablesConsistent, AddChild
<1>5. (\A p \in Policies : policy[p] # NoRow /\ policy[p].child # NoChild
                           => InFamily(policy[p].child, policy[p].family))'
  BY DEF TablesInv, TablesTypeOK, TablesConsistent, AddChild, InFamily, IsChild
<1> QED BY <1>1, <1>3, <1>4, <1>5 DEF TablesInv, TablesConsistent

\* delete in services/child.py cascades to the profile; the foreign keys of
\* entries and policies refuse it when a row would be left that names the child.
LEMMA DropChildInv ==
    ASSUME TablesInv, NEW c \in Children, DropChild(c)
    PROVE  TablesInv'
<1>1. TablesTypeOK'
  BY DEF TablesInv, TablesTypeOK, DropChild
<1>2. \A d \in Children : d # c => child'[d] = child[d]
  BY DEF TablesInv, TablesTypeOK, DropChild
<1>3. child'[c] = NoFamily
  BY DEF TablesInv, TablesTypeOK, DropChild
<1>4. (profiles = {d \in Children : IsChild(d)})'
  BY <1>2, <1>3 DEF TablesInv, TablesConsistent, DropChild, IsChild
<1>5. (\A e \in Entries : entry[e] # NoChild => IsChild(entry[e]))'
  BY <1>2 DEF TablesInv, TablesTypeOK, TablesConsistent, DropChild, Referenced, IsChild
<1>6. (\A p \in Policies : policy[p] # NoRow /\ policy[p].child # NoChild
                           => InFamily(policy[p].child, policy[p].family))'
  BY <1>2 DEF TablesInv, TablesConsistent, DropChild, Referenced, InFamily, IsChild
<1> QED BY <1>1, <1>4, <1>5, <1>6 DEF TablesInv, TablesConsistent

\* add_reading_history stores an entry of a child that exists.
LEMMA AddEntryInv ==
    ASSUME TablesInv, NEW e \in Entries, NEW c \in Children, AddEntry(e, c)
    PROVE  TablesInv'
<1>1. TablesTypeOK'
  BY DEF TablesInv, TablesTypeOK, AddEntry
<1>2. TablesConsistent'
  BY DEF TablesInv, TablesTypeOK, TablesConsistent, AddEntry, InFamily, IsChild
<1> QED BY <1>1, <1>2 DEF TablesInv

\* delete_reading_history takes one entry away.
LEMMA DropEntryInv ==
    ASSUME TablesInv, NEW e \in Entries, DropEntry(e)
    PROVE  TablesInv'
<1>1. TablesTypeOK'
  BY DEF TablesInv, TablesTypeOK, DropEntry
<1>2. TablesConsistent'
  BY DEF TablesInv, TablesTypeOK, TablesConsistent, DropEntry, InFamily, IsChild
<1> QED BY <1>1, <1>2 DEF TablesInv

\* create in services/policy.py scopes a policy to a child of its family.
LEMMA AddPolicyInv ==
    ASSUME TablesInv, NEW p \in Policies, NEW f \in Families,
           NEW c \in Children \cup {NoChild}, AddPolicy(p, f, c)
    PROVE  TablesInv'
<1>1. TablesTypeOK'
  BY DEF TablesInv, TablesTypeOK, AddPolicy, PolicyRow
<1>2. policy' = [policy EXCEPT ![p] = [family |-> f, child |-> c]]
  BY DEF AddPolicy
<1>3. (\A q \in Policies : policy[q] # NoRow /\ policy[q].child # NoChild
                           => InFamily(policy[q].child, policy[q].family))'
  <2> SUFFICES ASSUME NEW q \in Policies, policy'[q] # NoRow, policy'[q].child # NoChild
               PROVE  /\ policy'[q].child \in Children
                      /\ child[policy'[q].child] # NoFamily
                      /\ child[policy'[q].child] = policy'[q].family
    BY DEF AddPolicy, InFamily, IsChild
  <2>1. CASE q = p
    <3>1. policy'[q].child = c /\ policy'[q].family = f
      BY <2>1, <1>2 DEF TablesInv, TablesTypeOK
    <3>2. InFamily(c, f)
      BY <3>1 DEF AddPolicy
    <3> QED BY <3>1, <3>2 DEF InFamily, IsChild
  <2>2. CASE q # p
    <3>1. policy'[q] = policy[q]
      BY <2>2, <1>2 DEF TablesInv, TablesTypeOK
    <3> QED BY <3>1 DEF TablesInv, TablesConsistent, InFamily, IsChild
  <2> QED BY <2>1, <2>2
<1>4. (profiles = {d \in Children : IsChild(d)})'
      /\ (\A e \in Entries : entry[e] # NoChild => IsChild(entry[e]))'
  BY DEF TablesInv, TablesConsistent, AddPolicy, IsChild
<1> QED BY <1>1, <1>3, <1>4 DEF TablesInv, TablesConsistent

\* delete in services/policy.py takes one policy away.
LEMMA DropPolicyInv ==
    ASSUME TablesInv, NEW p \in Policies, DropPolicy(p)
    PROVE  TablesInv'
<1>1. TablesTypeOK'
  BY DEF TablesInv, TablesTypeOK, DropPolicy
<1>2. \A q \in Policies : policy'[q] # NoRow => policy'[q] = policy[q]
  BY DEF TablesInv, TablesTypeOK, DropPolicy
<1>3. (\A q \in Policies : policy[q] # NoRow /\ policy[q].child # NoChild
                           => InFamily(policy[q].child, policy[q].family))'
  BY <1>2 DEF TablesInv, TablesConsistent, DropPolicy, InFamily, IsChild
<1>4. (profiles = {d \in Children : IsChild(d)})'
      /\ (\A e \in Entries : entry[e] # NoChild => IsChild(entry[e]))'
  BY DEF TablesInv, TablesConsistent, DropPolicy, IsChild
<1> QED BY <1>1, <1>3, <1>4 DEF TablesInv, TablesConsistent

\* One step per operation of the two services.
LEMMA TablesStep == TablesInv /\ [TablesNext]_tables => TablesInv'
<1> SUFFICES ASSUME TablesInv, [TablesNext]_tables PROVE TablesInv'
  OBVIOUS
<1>1. CASE UNCHANGED tables
  BY <1>1 DEF tables, TablesInv, TablesTypeOK, TablesConsistent, InFamily, IsChild
<1>2. ASSUME NEW c \in Children, DropChild(c) PROVE TablesInv'
  BY <1>2, DropChildInv
<1>3. ASSUME NEW c \in Children, NEW f \in Families, AddChild(c, f) PROVE TablesInv'
  BY <1>3, AddChildInv
<1>4. ASSUME NEW e \in Entries, DropEntry(e) PROVE TablesInv'
  BY <1>4, DropEntryInv
<1>5. ASSUME NEW e \in Entries, NEW c \in Children, AddEntry(e, c) PROVE TablesInv'
  BY <1>5, AddEntryInv
<1>6. ASSUME NEW p \in Policies, DropPolicy(p) PROVE TablesInv'
  BY <1>6, DropPolicyInv
<1>7. ASSUME NEW p \in Policies, NEW f \in Families, NEW c \in Children \cup {NoChild},
             AddPolicy(p, f, c)
      PROVE  TablesInv'
  BY <1>7, AddPolicyInv
<1> QED BY <1>1, <1>2, <1>3, <1>4, <1>5, <1>6, <1>7 DEF TablesNext

\* Every stored child has its profile, and no entry or scoped policy names a
\* child that is missing or, for a policy, of another family: the ownership
\* check of _resolve_child and the foreign keys of models/child.py and
\* models/family.py are enough, whatever the order of the operations.
THEOREM TablesStayConsistent == TablesSpec => []TablesConsistent
<1>1. TablesInv => TablesConsistent
  BY DEF TablesInv
<1> QED BY <1>1, TablesInitInv, TablesStep, PTL DEF TablesSpec
=============================================================================

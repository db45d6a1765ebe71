--------------------------- MODULE FamilyTables ---------------------------
(***************************************************************************)
(* What the children of the families promise, whatever the interleaving of *)
(* the requests: four tables that change by whole operations.              *)
(*                                                                         *)
(*   db/models/child.py    child_profile, child_reading_profile,           *)
(*                         reading_history                                 *)
(*   db/models/family.py   family_reading_policy                           *)
(*   services/child.py     create, delete, add/delete_reading_history      *)
(*   services/policy.py    create, delete                                  *)
(*                                                                         *)
(* ChildRecords refines this module and ContextBundle reads its tables     *)
(* while they change.                                                      *)
(***************************************************************************)

CONSTANTS
    Families,    \* ids of the committed families
    Children,    \* UUIDs drawn for children
    Entries,     \* UUIDs drawn for reading-history entries
    Policies,    \* UUIDs drawn for reading policies
    NoFamily, NoChild, NoRow

VARIABLES
    child,       \* child_profile: the family of each committed row
    profiles,    \* child_reading_profile: the children that have a row
    entry,       \* reading_history: the child of each committed row
    policy       \* family_reading_policy: the committed rows

tables == <<child, profiles, entry, policy>>

PolicyRow == [family : Families, child : Children \cup {NoChild}]

ASSUME TablesOK ==
    NoFamily \notin Families /\ NoChild \notin Children /\ NoRow \notin PolicyRow

TablesTypeOK ==
    /\ child \in [Children -> Families \cup {NoFamily}]
    /\ profiles \subseteq Children
    /\ entry \in [Entries -> Children \cup {NoChild}]
    /\ policy \in [Policies -> PolicyRow \cup {NoRow}]

IsChild(c) == c \in Children /\ child[c] # NoFamily
InFamily(c, f) == IsChild(c) /\ child[c] = f

\* A row whose foreign key, which has no cascade, keeps the child.
Referenced(c) ==
    (\E e \in Entries : entry[e] = c)
    \/ \E p \in Policies : policy[p] # NoRow /\ policy[p].child = c

TablesInit ==
    /\ child = [c \in Children |-> NoFamily] /\ profiles = {}
    /\ entry = [e \in Entries |-> NoChild] /\ policy = [p \in Policies |-> NoRow]

AddChild(c, f) ==
    /\ ~IsChild(c)
    /\ child' = [child EXCEPT ![c] = f]
    /\ profiles' = profiles \cup {c}
    /\ UNCHANGED <<entry, policy>>

DropChild(c) ==
    /\ IsChild(c) /\ ~Referenced(c)
    /\ child' = [child EXCEPT ![c] = NoFamily]
    /\ profiles' = profiles \ {c}
    /\ UNCHANGED <<entry, policy>>

AddEntry(e, c) ==
    /\ entry[e] = NoChild /\ IsChild(c)
    /\ entry' = [entry EXCEPT ![e] = c]
    /\ UNCHANGED <<child, profiles, policy>>

DropEntry(e) ==
    /\ entry[e] # NoChild
    /\ entry' = [entry EXCEPT ![e] = NoChild]
    /\ UNCHANGED <<child, profiles, policy>>

\* Mutant of AddPolicy: _resolve_child looks the child up by its id alone.
AddPolicyForAnyChild(p, f, c) ==
    /\ policy[p] = NoRow /\ (c = NoChild \/ IsChild(c))
    /\ policy' = [policy EXCEPT ![p] = [family |-> f, child |-> c]]
    /\ UNCHANGED <<child, profiles, entry>>

AddPolicy(p, f, c) ==
    /\ policy[p] = NoRow /\ (c = NoChild \/ InFamily(c, f))
    /\ policy' = [policy EXCEPT ![p] = [family |-> f, child |-> c]]
    /\ UNCHANGED <<child, profiles, entry>>

DropPolicy(p) ==
    /\ policy[p] # NoRow
    /\ policy' = [policy EXCEPT ![p] = NoRow]
    /\ UNCHANGED <<child, profiles, entry>>

TablesNext ==
    \/ \E c \in Children : DropChild(c) \/ \E f \in Families : AddChild(c, f)
    \/ \E e \in Entries : DropEntry(e) \/ \E c \in Children : AddEntry(e, c)
    \/ \E p \in Policies :
         DropPolicy(p) \/ \E f \in Families, c \in Children \cup {NoChild} : AddPolicy(p, f, c)

TablesSpec == TablesInit /\ [][TablesNext]_tables

-----------------------------------------------------------------------------
(* Properties.                                                             *)

\* Every child has its one reading profile and no profile outlives its
\* child; reading history belongs to a child that exists; a scoped policy
\* names a child of the policy's own family.
TablesConsistent ==
    /\ profiles = {c \in Children : IsChild(c)}
    /\ \A e \in Entries : entry[e] # NoChild => IsChild(entry[e])
    /\ \A p \in Policies :
         policy[p] # NoRow /\ policy[p].child # NoChild
         => InFamily(policy[p].child, policy[p].family)
=============================================================================

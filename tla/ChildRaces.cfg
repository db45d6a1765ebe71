CONSTANTS
    Requests = {r1, r2}
    Families = {f1, f2}
    Ghost = Ghost
    Children = {c1, c2}
    Entries = {e1}
    Policies = {p1}
    NoFamily = NoFamily
    NoChild = NoChild
    NoRow = NoRow
SPECIFICATION Spec
SYMMETRY Symmetry
INVARIANTS
    NeverCrossesFamilies
    ErrorsExplained
    NoDeadlock
PROPERTY ImplementsTables

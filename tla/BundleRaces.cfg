CONSTANTS
    Families = {f1, f2}
    Children = {c1, c2}
    Entries = {}
    Policies = {p1}
    Members = {m1}
    Ghost = Ghost
    NoFamily = NoFamily
    NoChild = NoChild
    NoRow = NoRow
SPECIFICATION Spec
SYMMETRY Symmetry
INVARIANTS
    TablesConsistent
    NothingInvented
    NothingMissed

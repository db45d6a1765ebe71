CONSTANTS
    Requests = {r1}
    Tokens = {t1, t2, t3, t4}
    Members = {m1, m2}
    RefreshTTL = 1
    MaxTime = 2
    NoToken = NoToken
    NoRow = NoRow
SPECIFICATION Spec
SYMMETRY Symmetry
INVARIANT LineageIdentity
PROPERTY ImplementsLineages

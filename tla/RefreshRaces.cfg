CONSTANTS
    Requests = {r1, r2}
    Tokens = {t1, t2, t3}
    Members = {m1}
    RefreshTTL = 1
    MaxTime = 1
    NoToken = NoToken
    NoRow = NoRow
SPECIFICATION Spec
SYMMETRY Symmetry
INVARIANTS
    TypeOK
    ForksAreConcurrent
    SealedStaysDead
    SpentHasSuccessor

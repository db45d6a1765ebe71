CONSTANTS
    Requests = {r1, r2}
    Tokens = {t1, t2}
    Members = {m1}
    RefreshTTL = 1
    MaxTime = 1
    NoToken = NoToken
    NoRow = NoRow
SPECIFICATION BSpec
SYMMETRY Symmetry
INVARIANTS
    JarIsGood
    LogoutEndsSession
PROPERTY ReuseHasACause

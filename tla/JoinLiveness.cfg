CONSTANTS
    Requests = {r1, r2}
    Ids = {p1, p2, p3}
    Invites = {i1}
    Emails = {e1, e2}
    NoId = NoId
    NoInvite = NoInvite
    NoEmail = NoEmail
    NoRow = NoRow
SPECIFICATION FoundedFairSpec
PROPERTY EveryRequestCloses

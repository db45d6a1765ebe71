CONSTANTS
    Requests = {r1, r2}
    Ids = {p1, p2, p3}
    Invites = {i1}
    Emails = {e1, e2, e3}
    NoId = NoId
    NoInvite = NoInvite
    NoEmail = NoEmail
    NoRow = NoRow
SPECIFICATION Spec
SYMMETRY Symmetry
INVARIANTS
    TypeOK
    EmailUnique
    AcceptedIffJoined
    FamilyHasItsPrimary
    JoinsInvitersFamily
    SharedInviteIsConcurrent
    NoDanglingReference
PROPERTY RevokedInviteAdmitsNobody

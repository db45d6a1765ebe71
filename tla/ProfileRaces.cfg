CONSTANTS
    Requests = {r1, r2, r3}
    Members = {m1, m2}
    Primary = {m2}
    NoMember = NoMember
SPECIFICATION FairSpec
INVARIANTS
    TypeOK
    ProfilesHaveMembers
    ErrorsExplained
PROPERTIES
    TakenAlong
    EveryRequestCloses

SPECIFICATION Spec
CONSTANTS
    r1 = r1
    r2 = r2
    k1 = k1
    n1 = n1
    n2 = n2
    s1 = s1
    s2 = s2
    Request <- MCRequest
    NoRequest = NoRequest
    Key <- MCKey
    KeyOf <- MCKeyOf
    IssuedAt <- MCIssuedAt
    ExpiresAt <- MCExpiresAt
    Skew = 0
    Node <- MCNode
    Server <- MCServer
    Tiers = {"single_store"}
    Quorum = 1
    Offset <- Synchronized
    Ahead = 0
    Absent = Absent
    MaxInflight = 1
    MaxClock = 3
    MaxFailovers = 1
INVARIANT NeverAdmitsReplay
CHECK_DEADLOCK FALSE

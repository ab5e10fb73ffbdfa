SPECIFICATION ProxySpec
CONSTANTS
    r1 = r1
    r2 = r2
    r3 = r3
    k1 = k1
    k2 = k2
    k3 = k3
    good1 = good1
    good2 = good2
    forged1 = forged1
    forged3 = forged3
    misdirected3 = misdirected3
    alice = alice
    Request <- MCRequest
    NoRequest = NoRequest
    Key <- MCKey
    KeyOf <- MCKeyOf
    IssuedAt <- MCIssuedAt
    ExpiresAt <- MCExpiresAt
    Skew = 0
    Absent = Absent
    PruneEvery = 1
    MaxEntries = 2
    MaxClock = 3
    Msg <- MCMsg
    NoMsg = NoMsg
    BodyOf <- MCBodyOf
    RequestOf <- MCRequestOf
    SignerOf <- MCSignerOf
    Signed <- MCSigned
    Signer <- MCSigner
    Config <- MCConfig
INVARIANTS
    DispatchedAtMostOnce
    OnlyAuthenticBurnsNonce
    UnboundAssertionNeverDispatches

SPECIFICATION ProxySpec
CONSTANTS
    r1 = r1
    r2 = r2
    r3 = r3
    k1 = k1
    k2 = k2
    k3 = k3
    good1 = good1
    good2 = good2
    forged1 = forged1
    forged3 = forged3
    misdirected3 = misdirected3
    alice = alice
    Request <- LiveRequest
    NoRequest = NoRequest
    Key <- LiveKey
    KeyOf <- LiveKeyOf
    IssuedAt <- LiveIssuedAt
    ExpiresAt <- LiveExpiresAt
    Skew = 0
    Absent = Absent
    PruneEvery = 1
    MaxEntries = 1
    MaxClock = 1
    Msg <- LiveMsg
    NoMsg = NoMsg
    BodyOf <- LiveBodyOf
    RequestOf <- LiveRequestOf
    SignerOf <- LiveSignerOf
    Signed <- LiveSigned
    Signer <- MCSigner
    Config <- MCConfig
INVARIANT NeverPanics

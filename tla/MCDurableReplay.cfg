SPECIFICATION StoresSpec
CONSTANTS
    r1 = r1
    r2 = r2
    r3 = r3
    k1 = k1
    k2 = k2
    Request <- MCRequest
    Key <- MCKey
    KeyOf <- MCKeyOf
    IssuedAt <- MCIssuedAt
    ExpiresAt <- MCExpiresAt
    Skew = 1
    NoRequest = NoRequest
    Absent = Absent
    PruneEvery = 2
    MaxEntries = 1
    MaxClock = 5
    EtcdCallers = {c1, c2}
    EtcdKeys = {k1}
    Windows = {0, 1, 2}
    MaxLeases = 2
    MaxEtcdTime = 3
    NoKey = NoKey
    NoCall = NoCall
INVARIANTS
    AtMostOnce
    Remembered
    RefusalLeavesNoTrace
    CapacityDrains
    LeasesAreReturned
PROPERTIES
    KeepsContract
    EtcdIsAtomic

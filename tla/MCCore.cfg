SPECIFICATION CoreSpec
CHECK_DEADLOCK FALSE
CONSTANTS
    MaxSafeInteger = 3
    I64Max = 7
    MaxParseDepth = 2
    ServerSigner = {s1, s2}
    Hash = {h1, h2}
    k1 = k1
    k2 = k2
    c1 = c1
    c2 = c2
    Never = Never
    Binding = {k1}
    Caller = {c1, c2}
    Window = 2
    NegativeTtl = 1
    MaxClock = 2
    MaxChanges = 2
    MaxBack = 1
    Says <- MCSays
    Table <- MCTable
    Replaces <- MCReplaces
    Forever = Forever
    Verifier = {"n1", "n2"}
    Signed <- MCSigned
    ClockSkew = 1
    MaxStoreEntries = 1
    LastInstant = 4
SYMMETRY Symmetry
INVARIANTS
    StalenessBounded
    PushTakesEffect
    PipelineIsExact
    
    
    
    GrantsAreNarrow
    

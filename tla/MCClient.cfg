SPECIFICATION MCSpec
CONSTANTS
    ServerSigner = {"s1", "s2"}
    Hash = {1, 2, 3}
    Route <- MCRoutes
    signer_policy <- MCSignerPolicy
    Id = {"a", "b"}
    Nonce = {"m", "n"}
    Ttl = 2
    MaxTime = 3
    MaxCalls = 2
    Answers <- MCAnswers
    TableId = {"a", "b"}
    TableNonce = {"m", "n"}
    TableTime = 3
    request_lifetime_secs = 2
    I64Max = 4
    MaxRequests = 3
    Ttls = {1, 2}
    SdkSettings <- MCSdkSettings
    SdkCalls = 2
    SdkTtl = 1
    SdkTime = 2
    SdkBodyLength = 2
    CliSetups <- MCCliSetups
    CliLines = 2
    Server = {"h", "i"}
    ServerVersions = {"draft-02"}
    AdvertTtl = 2
    DiscoveryTime = 3
    DiscoveryExchanges = 2
INVARIANTS
    NonceWindowsDisjoint
    AnswersAreEarned
    
    
    
    DiscoveryIsSound
CHECK_DEADLOCK FALSE

SPECIFICATION EdgeSpec
CHECK_DEADLOCK FALSE
CONSTANTS
    CommandLines <- MCCommandLines
    Builds <- MCBuilds
    MaxAssertedIdentityLen = 2
    MaxAge = 2
    Skew = 1
    MaxResponseAge = 2
    Configs <- MCConfigs
    Hosts <- MCHosts
    FallbackMaxFd = 5
    HardCapFd = 8
    Threads = {t1, t2}
    Margin = 1
    Lifetimes = {0, 2}
    MaxTime = 3
    MaxVersion = 2
    Sources <- MCSources
    Vaults <- MCVaults
    MaxReplacements = 2
    MaxFileBytes = 2
    MaxLinks = 3
    Trees <- MCTrees
    Root <- MCRoot
    Forwarded <- MCForwarded
    InputLines <- MCLines
    MaxLines = 2
INVARIANTS
    
    
    KmsSigningIsSafe
    CustodyIsHonest
    EdgeFunctionsAgree
    

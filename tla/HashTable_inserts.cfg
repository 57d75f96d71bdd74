SPECIFICATION FairSpec

CONSTANTS
    ann = ann
    bob = bob
    k1 = k1
    k2 = k2
    k3 = k3
    NULL = NULL
    Clients = {ann, bob}
    Keys = {k1, k2, k3}
    Buckets = {0, 1}
    Bucket <- MCBucket
    Level <- High
    Work <- SharedWork
    MaxCommands = 2
    InitChain <- OnlyK2
    InitLevel = 0
    Serial = TRUE

INVARIANTS
    TypeOK
    
    ChainsOK

    
    

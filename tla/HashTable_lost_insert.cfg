SPECIFICATION Spec

CONSTANTS
    ann = ann
    bob = bob
    k1 = k1
    k2 = k2
    k3 = k3
    NULL = NULL
    Clients = {ann, bob}
    Keys = {k1, k2, k3}
    Buckets = {0, 1}
    Bucket <- MCBucket
    Level <- Low
    Work <- LostWork
    MaxCommands = 1
    InitChain <- Empty
    InitLevel = 0
    Serial = FALSE

INVARIANTS
    KeptKeys

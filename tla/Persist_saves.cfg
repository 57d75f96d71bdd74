SPECIFICATION FairSpec

CONSTANTS
    ann = ann
    bob = bob
    k1 = k1
    k2 = k2
    v1 = v1
    v2 = v2
    v3 = v3
    v4 = v4
    v5 = v5
    NULL = NULL
    EMPTY = EMPTY
    PIECE = PIECE
    Clients = {ann, bob}
    Keys = {k1, k2}
    Vals = {v1, v2, v3, v4, v5}
    Work <- MCWork
    MaxCommands <- MCMaxCommands
    InitList <- MCInitList
    InitSaved <- MCInitSaved
    Order <- MCOrder
    MaxSaves = 1
    MaxCrashes = 1

INVARIANTS
    TypeOK
    RingsOK
    LinesHonest
PROPERTIES
    Atomic
    ReadBack
    

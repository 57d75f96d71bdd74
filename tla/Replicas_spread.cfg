SPECIFICATION FairSpec

CONSTANTS
    ann = ann
    bob = bob
    k1 = k1
    k2 = k2
    NULL = NULL
    N = 3
    Clients = {ann, bob}
    Keys = {k1, k2}
    Home <- MCHome
    Level <- MCLevel
    Writes <- MCWrites
    Sizes = {2, 3}
    MaxCalls <- MCMaxCalls
    MaxEarly <- MCMaxEarly
    MaxRoute = 3

INVARIANTS
    TypeOK
    ExecutedOnce
    Converged
    
    

PROPERTIES
    Spread

SPECIFICATION FairSpec

CONSTANTS
    ann = ann
    bob = bob
    N = 3
    Total = 7
    Clients = {ann, bob}
    Home <- Apart
    Named = {1, 2, 3, 4, 6}
    MaxCommands = 2

INVARIANTS
    TypeOK
    Partitioned
    OneHop
    OwnAnswer

PROPERTIES
    Reachable
    Answered

SPECIFICATION Spec

CONSTANTS
    ann = ann
    bob = bob
    N = 2
    Total = 5
    Clients = {ann, bob}
    Home <- Together
    Named = {3}
    MaxCommands = 1

INVARIANTS
    OwnAnswer

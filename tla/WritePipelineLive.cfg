SPECIFICATION FairSpec
CONSTANTS
    alice = alice
    bob = bob
    None = None
    Users = {alice, bob}
    MaxBatches = 3
    Author <- TakingTurns
    kMaxPendingWrites = 1
    MaxFaults = 2
PROPERTIES
    WritesAreAnswered
CHECK_DEADLOCK FALSE

SPECIFICATION Spec
CONSTANTS
    alice = alice
    bob = bob
    None = None
    Users = {alice, bob}
    MaxBatches = 4
    Author <- TakingTurns
    kMaxPendingWrites = 2
    MaxFaults = 3
INVARIANTS
    TypeOK
    AssertionsHold
    OwnCredentials
    InFlightIsPipeline
    IdleOnlyWhenDrained
    AcknowledgedInOrder
PROPERTIES
    KeepsPromise
CHECK_DEADLOCK FALSE

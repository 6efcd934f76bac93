SPECIFICATION Spec
CONSTANTS
    alice = alice
    bob = bob
    None = None
    Users = {alice}
    MaxBatches = 4
    Author <- Alone
    kMaxPendingWrites = 10
    MaxFaults = 0
INVARIANTS
    RejectedWereRefused
CHECK_DEADLOCK FALSE

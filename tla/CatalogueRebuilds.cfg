SPECIFICATION Spec
CONSTANTS
    None = None
    x1 = x1
    x2 = x2
    x3 = x3
    east = east
    west = west
    Ids = {x1, x2, x3}
    Cities = {east, west}
    Feed <- TwoCities
    Counts = {0, 1, 2, 3}
    Stores <- SomeStores
    MaxRuns = 2
CHECK_DEADLOCK FALSE
INVARIANTS TypeOK RebuildsConverge CitiesListStoredSpots

SPECIFICATION FairSpec
CONSTANTS
    None = None
    x1 = x1
    x2 = x2
    x3 = x3
    east = east
    west = west
    Ids = {x1, x2}
    Cities = {east}
    Feed <- OneCity
    Counts = {0, 2}
    Stores <- OldSpot
    MaxRuns = 2
CHECK_DEADLOCK FALSE
PROPERTY RebuildsEnd

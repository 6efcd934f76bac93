SPECIFICATION SerialSpec
CONSTANTS
    None = None
    phone = phone
    search = search
    c1 = c1
    Devices = {phone}
    Screens = {search}
    Cells = {c1}
    Closures = {t1, t2, t3, t4, t5}
    Spots = {x1, x2}
    DeviceOf <- OnPhone
    KindOf <- CityKind
    ScreenOf <- CellsOnSearch
    SavedFavorites <- AnySaved
    MaxRestarts = 1
CHECK_DEADLOCK FALSE
SYMMETRY Symmetry
INVARIANT CacheAgrees
PROPERTY TogglesAreAtomic

SPECIFICATION Spec
CONSTANTS
    None = None
    phone = phone
    tablet = tablet
    search = search
    profile = profile
    c1 = c1
    c2 = c2
    Devices = {phone}
    Screens = {profile}
    Cells = {c1, c2}
    Closures = {t1, t2, t3, t4}
    Spots = {x1, x2}
    DeviceOf <- OnPhone
    KindOf <- FavoritesKind
    ScreenOf <- CellsOnProfile
    SavedFavorites <- AnySaved
    MaxRestarts = 1
CHECK_DEADLOCK FALSE
SYMMETRY SpotsClosuresCells
INVARIANTS NoOrphanedHud FavoritesScreenOnlyRemoves SucceededRemovalUncovers

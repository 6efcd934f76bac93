SPECIFICATION FairSpec
CONSTANTS
    None = None
    phone = phone
    tablet = tablet
    search = search
    profile = profile
    c1 = c1
    c2 = c2
    Devices = {phone}
    Screens = {search}
    Cells = {c1}
    Closures = {t1, t2, t3}
    Spots = {x1}
    DeviceOf <- OnPhone
    KindOf <- CityKind
    ScreenOf <- CellsOnSearch
    SavedFavorites <- AnySaved
    MaxRestarts = 1
CHECK_DEADLOCK FALSE
PROPERTIES TapsSettle AckedRemovalUncovers

SPECIFICATION Spec
CONSTANTS
    None = None
    phone = phone
    tablet = tablet
    search = search
    profile = profile
    c1 = c1
    c2 = c2
    Devices = {phone, tablet}
    Screens = {search, profile}
    Cells = {c1, c2}
    Closures = {t1, t2, t3, t4}
    Spots = {x1, x2}
    DeviceOf <- DeviceEach
    KindOf <- TabKinds
    ScreenOf <- OneCellEach
    SavedFavorites <- AllSaved
    MaxRestarts = 0
CHECK_DEADLOCK FALSE
SYMMETRY SpotsAndClosures
INVARIANTS NoDuplicates WriteIsOneToggle

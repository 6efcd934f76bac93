SPECIFICATION FairSpec
CONSTANTS
    Accounts = {admin, newcomer}
    Registered = {admin}
    Administrators = {admin}
    Pictures = {sea}
    MaxFailures = 1
    MaxDeaths = 1
    MaxLoads = 1
    None = None
INVARIANTS
    TypeOK
    RebuildIsForAdministrators
    HudKeepsSignOutFromReads
    DocumentsAreOwn
    RegisteredHaveDocuments
PROPERTIES
    UncoveredProfileIsCurrent
    RegistrationEnds
    ProfileOpens
CHECK_DEADLOCK FALSE

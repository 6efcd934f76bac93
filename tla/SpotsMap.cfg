SPECIFICATION Spec
CONSTANTS
    Steps <- SmallAndLargeSteps
    Highest <- AboveTheCard
    Lowest <- FootOfScreen
INVARIANTS
    TypeOK
    FollowsFinger
PROPERTY
    OpensAsDragged

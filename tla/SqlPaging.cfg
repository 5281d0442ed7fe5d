SPECIFICATION FairSpec
CONSTANTS
    Rows <- MCRows
    PageSizes <- MCPageSizes
    MaxChanges = 2
    MaxPages = 8
INVARIANTS
    TypeOK
    QuietWalkIsExact
    InsertsSkipNothing
    DeletesRepeatNothing
    WalkIsShort
    OnlyTwoOrdersFail
PROPERTIES
    WalkEnds

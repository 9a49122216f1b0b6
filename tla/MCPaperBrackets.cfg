\* Lots under each kind of plan, long and short, every mark and amendment.
\* An empty book has nothing left to do.
CHECK_DEADLOCK FALSE
SPECIFICATION Spec
CONSTANTS
    NoWater = NoWater
    Histories <- Books
    Prices = {7, 8, 9, 10, 11, 12}
    Amounts = {1}
    MaxMarks = 3
    MaxRestarts = 1
INVARIANTS
    IInv
    PositionMatchesLots
    ReplayRestoresPosition
    TrailKeepsUp
    FullProtectionCloses
PROPERTIES
    ExposureOnlyShrinks
    ProtectionOnlyTightens
    NothingDueIsLeft
    ViewsForetellMarks

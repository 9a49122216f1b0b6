\* A trailing stop released by a target loosens what an operator tightened.
\* An empty book has nothing left to do.
CHECK_DEADLOCK FALSE
SPECIFICATION Spec
CONSTANTS
    NoWater = NoWater
    Histories <- ReleasedLot
    Prices = {8, 9, 10, 11, 12}
    Amounts = {1}
    MaxMarks = 3
    MaxRestarts = 0
PROPERTIES
    ProtectionOnlyTightens

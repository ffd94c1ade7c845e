SPECIFICATION BackfillSpec
CONSTANTS
    k1 = k1
    k2 = k2
    k3 = k3
    k4 = k4
    r1 = r1
    r2 = r2
    r3 = r3
    r4 = r4
    NoRun = NoRun
    Null = Null
    Hub = {1}
    FallBackDays = {0}
    MaxDays = 7
    Run = {r1, r2}
    Client = {c1, c2}
    Key = {k1, k2}
    Request <- TwoDays
    KeysOf <- TwoDaysKeys
    RunOf <- TwoDaysRun
    Plans <- OnePlan
    Value = {a}
    Faults = {}
SYMMETRY Symmetry
INVARIANTS
    ReportsAreComplete
    UnitsStartInOrder

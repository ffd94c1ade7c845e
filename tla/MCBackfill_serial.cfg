SPECIFICATION BackfillSpec
CONSTANTS
    k1 = k1
    k2 = k2
    k3 = k3
    k4 = k4
    r1 = r1
    r2 = r2
    r3 = r3
    r4 = r4
    NoRun = NoRun
    Null = Null
    Hub = {1}
    FallBackDays = {0}
    MaxDays = 7
    Run = {r1, r2, r3, r4}
    Client = {c1}
    Key = {k1, k2, k3, k4}
    Request <- Mixed
    KeysOf <- MixedKeys
    RunOf <- MixedRun
    Plans <- MixedPlans
    Value = {a}
    Faults = {"abort"}
INVARIANTS
    BackfillTypeOK
    ReportsAreComplete
    UnitsStartInOrder
    NewRowsCountedOnce
    VerificationAgrees

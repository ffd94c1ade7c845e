SPECIFICATION Spec
CONSTANTS
    h1 = h1
    h2 = h2
    Hour = 4
    DayHours = 2
    SwitchHour = 1
    LastDay = 3
    Ahead <- MCAhead
    Decimal <- MCDecimal
    Precision = 3
    Whole = 2
    Places = 1
    TradingHub = {h1, h2}
    NoHub = NoHub
    Today = 3
    Slot = 2
    MaxBatchRows = 6
    Malformed = Malformed
    FrameRow <- MCFrameRow
    Capacity = 2
    MaxCharge = 1
    MaxDischarge = 1
    ChargeNum = 1
    ChargeDen = 2
    DischargeNum = 1
    DischargeDen = 2
    InitialSoc = 1
    TerminalSoc = 1
    Tol = 1
    FileRow <- MCFileRow
    MaxSpan = 2
    Power <- MCPower
    Level <- MCLevel
INVARIANTS
    TypeOK
    WallTimesRoundTrip
    EncodingIsCanonical
    FetchedBatchesFit
    InputsTileTheDays
    ActivityAddsUp
    EnergyIsConserved

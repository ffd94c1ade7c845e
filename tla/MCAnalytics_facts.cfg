SPECIFICATION Spec
CONSTANTS
    k1 = k1
    k2 = k2
    k3 = k3
    lmp = lmp
    load = load
    Run = {r1, r2, r3}
    Key = {k1, k2}
    Value = {a, b}
    Null = Null
    Product = {lmp}
    ProductOf <- OneProduct
    MaxClock = 1
SYMMETRY Symmetry
INVARIANTS
    TypeOK
    FactsAreACut
    FactsAreKnown
    HistoryIsComplete
    QuietBuildsPass
PROPERTIES
    FactsNeverRegress

SPECIFICATION FairSpec
CONSTANTS
    k1 = k1
    k2 = k2
    k3 = k3
    lmp = lmp
    load = load
    Run = {r1, r2}
    Key = {k1, k3}
    Value = {a, b}
    Null = Null
    Product = {lmp, load}
    ProductOf <- TwoProducts
    MaxClock = 1
PROPERTIES
    FactsCatchUp

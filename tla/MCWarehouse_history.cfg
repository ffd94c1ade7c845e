SPECIFICATION Spec
CONSTANTS
    q1 = q1
    q2 = q2
    k1 = k1
    k2 = k2
    Run = {r1, r2, r3}
    Client = {c1}
    Request = {q1}
    Key = {k1, k2}
    KeysOf <- TwoKeys
    Value = {a, b}
    NoRun = NoRun
    Null = Null
    Faults = {"abort"}
SYMMETRY Symmetry
INVARIANTS
    HistoryReconstructsBatches
    TransitionsHaveOneContent
    CountsDescribeRows

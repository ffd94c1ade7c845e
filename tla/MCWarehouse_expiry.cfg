SPECIFICATION Spec
CONSTANTS
    q1 = q1
    q2 = q2
    k1 = k1
    k2 = k2
    Run = {r1}
    Client = {c1, c2}
    Request = {q1, q2}
    Key = {k1, k2}
    KeysOf <- TwoRequests
    Value = {a, b}
    NoRun = NoRun
    Null = Null
    Faults = {"abort", "late_error", "expire"}
SYMMETRY Symmetry
PROPERTIES
    HistoryIsAppendOnly
    BindingIsPermanent

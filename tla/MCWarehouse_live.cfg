SPECIFICATION FairSpec
CONSTANTS
    q1 = q1
    q2 = q2
    k1 = k1
    k2 = k2
    Run = {r1, r2}
    Client = {c1}
    Request = {q1}
    Key = {k1}
    KeysOf <- OneKey
    Value = {a}
    NoRun = NoRun
    Null = Null
    Faults = {"abort"}
PROPERTIES
    GateIsReleased
    SubmittedRunsResolve

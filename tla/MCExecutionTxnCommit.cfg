SPECIFICATION MCSpec
CONSTANTS
    r1 = r1
    r2 = r2
    Run = {r1, r2}
    LastWriteVer = {1}
    DBVersion = {1, 2}
    EventID = {1, 2}
    RangeID = {1, 2, 3}
    Nil = Nil
    Host = {h1, h2}
    Proc = {p1, p2}
    Requests <- AllRequests
SYMMETRY Symmetry
PROPERTY
    LeaseLossIsReported

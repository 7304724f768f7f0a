SPECIFICATION LiveSpec
CONSTANTS
    Targets = {t1, t2}
    Broadcasts = {p1, p2}
    MaxPool = 1
    Ids = {d1, d2, d3, d4}
    Inbound = {i1, i2}
INVARIANTS
    TypeOK
    NoSharedConn
    NoConnLeak
PROPERTIES
    HandlersDoNotHang

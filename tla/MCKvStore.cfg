\* Three calls at once on one key of each of the stores, every fault.
SPECIFICATION FairSpec
CONSTANTS
    NoValue = NoValue
    Callers = {c1, c2, c3}
    Values = {v1, v2}
    Backends = {"sled", "redis", "sql"}
    RefusalCap = 2
INVARIANTS
    TypeOK
    RefusedAtMostOnce
PROPERTIES
    ImplementsKvContract
    CallsReturn

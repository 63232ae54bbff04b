SPECIFICATION FairSpec
CONSTANTS
    Request = {r1, r2}
    Item = {a, b}
    PoolSize = 1
    MaxCalls = 2
    MaxCallbacks = 1
    MaxFaults = 2
INVARIANTS
    TypeOK
    OkMeansDurable
    PanicNeverCommits
PROPERTIES
    IsAtomicWork
    RequestsEnd

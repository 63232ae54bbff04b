SPECIFICATION FairSpec
CONSTANTS
    Request = {p1, p2}
    Nobody = Nobody
    User = {u}
    Address = {a, b}
    Preloaded = {a}
    NoAddress = NoAddress
    MaxRequests = 4
    MaxFaults = 1
INVARIANTS
    TypeOK
    SessionsExclusive
    ClosedOnlyDuringReset
    ListedKeysSign
    NoHiddenKeys
PROPERTIES
    RemovedKeysNeverSign
    RequestsReply

CONSTANTS
    Request = {p1, p2}
    Chosen = {"app", "app2", "usr", "acc", "hsm", "slt", "slt2", "slt3"}
    Resource = {"app", "app2", "usr", "acc", "hsm", "slt", "slt2", "slt3"}
    Preloaded = {"app", "app2", "usr", "hsm", "slt"}
    KindOf <- MCKindOf
    ParentsOf <- MCParentsOf
    AddressOf <- MCAddressOf
    SlotOf <- MCSlotOf
    PreloadedIid <- MCPreloadedIid
    FirstIid <- MCFirstIid
    NoResource = NoResource
    MaxRequests = 3
    MaxFaults = 2
SPECIFICATION FairSpec
INVARIANTS
    OneSlotPerApplication
    TransactionalRowsProtected
    UnprotectedOnlyWhileDeleted
PROPERTIES
    RequestsReply

CONSTANTS
    Request = {p1}
    Chosen = {"app", "usr", "usr2", "acc", "acc2", "hsm", "slt", "slt2"}
    Resource = {"app", "usr", "usr2", "acc", "acc2", "hsm", "slt", "slt2"}
    Preloaded = {}
    KindOf <- MCKindOf
    ParentsOf <- MCParentsOf
    AddressOf <- MCAddressOf
    SlotOf <- MCSlotOf
    PreloadedIid <- MCPreloadedIid
    FirstIid <- MCFirstIid
    NoResource = NoResource
    MaxRequests = 7
    MaxFaults = 1
SPECIFICATION Spec
INVARIANTS
    TypeOK
    DependenciesUnbroken
    EntriesTrue

CONSTANTS
    Request = {p1, p2}
    Chosen = {"app", "usr", "hsm", "slt"}
    Resource = {"app", "usr", "hsm", "slt"}
    Preloaded = {"app", "hsm"}
    KindOf <- MCKindOf
    ParentsOf <- MCParentsOf
    AddressOf <- MCAddressOf
    SlotOf <- MCSlotOf
    PreloadedIid <- MCPreloadedIid
    FirstIid <- MCFirstIid
    NoResource = NoResource
    MaxRequests = 2
    MaxFaults = 0
SPECIFICATION Spec
INVARIANTS
    DependenciesUnbroken

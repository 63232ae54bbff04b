CONSTANTS
    Request = {p1}
    Chosen = {"app", "usr", "acc"}
    Resource = {"app", "usr", "acc"}
    Preloaded = {"app", "usr"}
    KindOf <- MCKindOf
    ParentsOf <- MCParentsOf
    AddressOf <- MCAddressOf
    SlotOf <- MCSlotOf
    PreloadedIid <- MCPreloadedIid
    FirstIid <- MCFirstIid
    NoResource = NoResource
    MaxRequests = 4
    MaxFaults = 0
SPECIFICATION Spec
INVARIANTS
    RemovableOnceChildless

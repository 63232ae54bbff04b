SPECIFICATION Spec
CONSTANTS
    Client = {p1, p2}
    Address = {a, b}
    Pin = {x, y}
    ModuleKind = {"AKV", "LKV"}
    NoSlot = NoSlot
    NoCall = NoCall
    MaxCalls = 3
    MaxFaults = 1
INVARIANTS
    TypeOK
    VersionNamesOneState
    CommitsOverWhatItSaw
PROPERTIES
    IsSlotObject

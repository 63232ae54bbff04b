CONSTANTS
    Process = {p1, p2}
    Binary = {2, 3}
    Target = {1, 2}
    MaxRuns = 4
    MaxFaults = 1
SPECIFICATION FairSpec
INVARIANTS
    TypeOK
    CleanMarkNamesSchema
    DirtyMarkLocatesSchema
PROPERTIES
    OkMeansUpgraded
    UpgradesNeverDowngrade
    UndisturbedRunsSucceed

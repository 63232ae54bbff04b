CONSTANTS
    root = root
    second = second
    user = user
    app = app
    other = other
    key = key
    Request = {p1, p2}
    Replica = {r1, r2}
    Id = {root, second, user, drawn1, drawn2}
    NoId = NoId
    Anonymous = {drawn1, drawn2}
    Host <- MCHost
    Flag <- MCFlag
    PageLimit = 2
    Application = {app, other}
    NoApplication = NoApplication
    Address = {key}
    NoAddress = NoAddress
    Calls <- MCCalls
    InitialUsers <- MCUsers
    InitialAccounts <- MCAccounts
    MaxBatch = 2
    MaxRequests = 2
    MaxFaults = 1
SPECIFICATION FairSpec
INVARIANTS
    TypeOK
    ExecutedWasGranted
    BatchAnsweredInOrder
PROPERTIES
    LastAdministratorStays
    RequestsReply
    AdministratorsComeFromOne
    ReplicasComeUp

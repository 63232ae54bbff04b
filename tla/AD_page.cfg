CONSTANTS
    Request = {p1}
    Replica = {r1}
    Id = {i1, i2, i3, anonymous}
    NoId = NoId
    Anonymous = {anonymous}
    Host <- MCHost
    Flag <- MCFlag
    PageLimit = 2
    MaxFaults = 1
SPECIFICATION AdminSpec
PROPERTIES
    OwnAdministratorStarts

SPECIFICATION Spec
CONSTANTS
    Request = {p1, p2}
    Nobody = Nobody
    User = {u}
    Address = {a, b}
    Preloaded = {a}
    NoAddress = NoAddress
    MaxRequests = 2
    MaxFaults = 0
PROPERTIES
    NoAccountWithoutKey

SPECIFICATION Spec
CONSTANTS
    Sessions = {s1, s2}
    Devices = {v1, v2}
    Users = {u1, u2}
    Addresses = {a1}
    MaxOrgs = 2
    MaxSites = 1
    MaxZones = 2
    MaxSensors = 1
    Missing = Missing
    Null = Null
    Unused = Unused
SYMMETRY SymmetricRows
CHECK_DEADLOCK FALSE
INVARIANTS
    TypeOK
    CapturesHaveTheirSensors
    StartsComplete
    AddressesStayUnique
    OnlyUploadsAreOrphaned
PROPERTY
    NothingChangesHands

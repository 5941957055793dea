SPECIFICATION Spec
CONSTANTS
    Orgs = {o1, o2}
    Hosts = {h1}
    Sessions = {s1, s2}
    Talks = {{h1}}
    None = None
    Absent = Absent
    Scannable = {h1}
    MaxRequests = 2
    Faults = {"restart", "connection", "sniffer"}
CHECK_DEADLOCK FALSE
SYMMETRY OrgSymmetry
INVARIANTS
    TypeOK
    NoDanglingRows
PROPERTIES
    EvidentDevicesStay
    OthersKeepTheirData

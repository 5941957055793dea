SPECIFICATION Spec
CONSTANTS
    OtProtocols = {"modbus-tcp"}
    InsecureProtocols = {"ftp", "modbus-tcp"}
    NoKeyword = None
    None = None
    Scans = {s1, s2}
    d1 = d1
    d2 = d2
    Services <- TheServices
    Os <- TheSystems
    Cves = {c1}
    Devices = {d1, d2}
    Requests <- Overlapping
    Interval = 1
    Ttl = 1
    Window = 2
    Cap = 1
SYMMETRY SymmetricScans
CHECK_DEADLOCK FALSE
INVARIANTS
    TypeOK
    ReportedFindingsAreStored
    OnlyRacesDuplicate

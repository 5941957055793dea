SPECIFICATION Spec
CONSTANTS
    OtProtocols = {"modbus-tcp"}
    InsecureProtocols = {"ftp", "modbus-tcp"}
    NoKeyword = None
    None = None
    Scans = {s1, s2}
    d1 = d1
    d2 = d2
    Services <- TheServices
    Os <- TheSystems
    Cves = {c1}
    Devices = {d1}
    Requests <- Alone
    Interval = 2
    Ttl = 1
    Window = 3
    Cap = 1
CHECK_DEADLOCK FALSE
INVARIANTS
    StaleAnswersAreNotRedated
    CallsAreSpaced
PROPERTY
    ScansEnd

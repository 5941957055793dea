SPECIFICATION Spec
CONSTANTS
    Orgs = {o1, o2}
    Hosts = {h1}
    Sessions = {s1, s2}
    Talks = {{h1}}
    None = None
    Absent = Absent
    Scannable = {}
    MaxRequests = 1
    Faults = {}
CHECK_DEADLOCK FALSE
INVARIANT
    OnlyItsOwnRequestsStopIt

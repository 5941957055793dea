SPECIFICATION FairSpec
CONSTANTS
    Orgs = {o1}
    Hosts = {h1, h2}
    Sessions = {s1, s2}
    Talks = {}
    None = None
    Absent = Absent
    Scannable = {}
    MaxRequests = 1
    Faults = {"connection"}
CHECK_DEADLOCK FALSE
PROPERTY
    PcapEnds

SPECIFICATION Spec
CONSTANTS
    Runs = {r1, r2}
    Uploads = {r1, r2}
    Headers <- OneHeader
    Names <- OneName
    Vendor <- AVendor
    Claims <- OneClaim
    Profinet = profinet
    OtPorts = {modbus}
    ItPorts = {}
    None = None
CHECK_DEADLOCK FALSE
SYMMETRY SymmetricRuns
INVARIANTS
    TypeOK
    OtServersAreKnown
    ServicesHaveOneRow
PROPERTY
    CertaintyGrows

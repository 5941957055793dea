SPECIFICATION Spec
CONSTANTS
    Users = {u1, u2, u3, u4}
    Names = {root, admin}
    SuperName = root
    AdminName = admin
    None = None
    MaxOrgs = 2
    MaxStarts = 3
    MaxConcurrent = 2
CHECK_DEADLOCK FALSE
SYMMETRY UserSymmetry
INVARIANTS
    TypeOK
    RowsAreSound
    TenantsApart
    ASuperAdminRemains
PROPERTY
    LastAdminStays

SPECIFICATION Spec
CONSTANTS
    Users = {u1, u2}
    Names = {root, admin}
    SuperName = root
    AdminName = admin
    None = None
    MaxOrgs = 1
    MaxStarts = 2
    MaxConcurrent = 1
CHECK_DEADLOCK FALSE
SYMMETRY UserSymmetry
INVARIANTS
    SuperAdminsHaveNoOrganization

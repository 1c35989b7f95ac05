SPECIFICATION Spec
CONSTANTS
    admin = admin
    viewer = viewer
    unknown = unknown
    Edits = {e1, e2, e3}
    Registration = Registration
    NoOne = NoOne
    Ids <- TwoAndUnknown
    Roles <- TwoRoles
    Lists <- SomeLists
    InitialRoles <- StartsAdmin
SYMMETRY Symmetric
CHECK_DEADLOCK FALSE
INVARIANTS
    TypeOK
    RolesAreOfLastEdits
PROPERTIES
    GrantsSpec

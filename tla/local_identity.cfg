\* A new installation, two identities, two actors.
SPECIFICATION Spec
CONSTANTS
    a1 = a1  a2 = a2  a3 = a3
    default = default  other = other  anonymous = anonymous  n1 = n1
    Actors = {a1, a2}
    Default = default
    Others = {other}
    FirstName = anonymous
    Names = {n1}
    MaxKeys = 2
    MaxOps = 5
    MaxCrashes = 1
SYMMETRY Symmetry
INVARIANTS TypeOK NeverAnotherKey SavedNameStays StartsAgain
PROPERTIES KeyIsKept
CHECK_DEADLOCK FALSE

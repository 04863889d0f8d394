SPECIFICATION Spec
CONSTANTS
    Runs = {r1, r2}
    Kinds = {"cr", "csr"}
    Other = other
    MaxUid = 3
SYMMETRY RunSymmetry
INVARIANTS
    CreateInv
    FilesMatch
PROPERTY
    KeyBeforeRequest
CHECK_DEADLOCK FALSE

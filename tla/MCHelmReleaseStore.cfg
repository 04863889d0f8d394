SPECIFICATION Spec
CONSTANTS
    Crds = {c1, c2}
    Runs = {r1}
    MaxRevision = 1
    StoreMayFail = TRUE
    HelmConcurrent = FALSE
SYMMETRY RunAndCrdSymmetry
PROPERTY
    CrdsUntouched

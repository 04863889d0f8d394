SPECIFICATION Spec
CONSTANTS
    Crds = {c1, c2}
    Runs = {r1, r2, r3}
    MaxRevision = 3
    StoreMayFail = FALSE
    HelmConcurrent = FALSE
SYMMETRY RunAndCrdSymmetry
INVARIANTS
    ReleaseInv
    ReleaseWithoutCrds
PROPERTY
    CrdsUntouched

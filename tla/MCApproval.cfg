SPECIFICATION Spec
CONSTANTS
    Users = {u1, u2, u3}
    MaxVersion = 5
SYMMETRY UserSymmetry
INVARIANTS
    ApprovalInv
    SuccessDecides
    OneDecider
    DeniedNeverSigned
PROPERTY
    ImplementsDecision

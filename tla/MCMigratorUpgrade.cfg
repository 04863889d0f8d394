SPECIFICATION FairSpec
CONSTANTS
    o1 = o1
    o2 = o2
    o3 = o3
    Absent = Absent
    NoObj = NoObj
    NoCrd = NoCrd
    NCrds = 2
    Objs = {o1, o2, o3}
    CrdOf <- TwoCrds
    Versions = {"v1beta1", "v1"}
    Target = "v1"
    StorageMoves <- UpgradesOfTwo
    Migrators = {m1, m2}
    SkipCheck = {m2}
INVARIANTS
    UpgradeInv
    SafeToUpgrade
PROPERTY
    RunEnds

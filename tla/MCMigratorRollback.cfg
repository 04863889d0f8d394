SPECIFICATION Spec
CONSTANTS
    o1 = o1
    o2 = o2
    o3 = o3
    Absent = Absent
    NoObj = NoObj
    NoCrd = NoCrd
    NCrds = 1
    Objs = {o1, o2}
    CrdOf <- OneCrd
    Versions = {"v1alpha2", "v1beta1", "v1"}
    Target = "v1"
    StorageMoves <- Rollbacks
    Migrators = {m1, m2}
    SkipCheck = {m2}
INVARIANTS
    StorageVersionListed
    CoverInv
    StoredVersionsCover
PROPERTIES
    ImplementsStoredVersions

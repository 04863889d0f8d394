SPECIFICATION MCSpec
CONSTANTS
    c1 = c1
    c2 = c2
    Certs = {c1, c2}
    Revisions = {0, 1}
    MaxVersion = 3
    MaxRequests = 2
    Namespaces <- MCNamespaces
    NsOf <- MCNsOf
    Labelled = {c1}
    ArgLists <- MCArgLists
    Subject = c1
    DecodedField <- FieldIntoInternal
    EncodedField <- FieldFromInternal
    v1 = "1.0"
    v2 = "2.0"
    Versions = {"1.0", "2.0"}
    Clusters <- MCClusters
    Blocks = {"CERTIFICATE", "PRIVATE KEY", "other"}
    MaxPEMs = 3
INVARIANTS
    RenewsSelection
    MarkNotLost
    ReportFits
    ConvertKeeps
    ConvertWhole
    VersionReported
    RevocationReported
PROPERTY
    NeverUndone
CHECK_DEADLOCK FALSE

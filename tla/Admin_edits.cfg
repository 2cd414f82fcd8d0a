SPECIFICATION Spec
CONSTANTS
    c1 = c1
    bad = bad
    x1 = x1
    x2 = x2
    Text = {c1, bad}
    CIDR = {c1}
    RuleID <- RuleIDs
    Handler = {x1, x2}
    Request <- AllRequests
    FileConfig <- TwoFiles
    DiskFails = TRUE
SYMMETRY Symmetry
INVARIANT TypeOK
INVARIANT AloneMeansPersisted
INVARIANT BootRestores
INVARIANT FileDisjoint
PROPERTY AlonePatchTouchesOnlyItsFields

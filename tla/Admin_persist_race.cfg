SPECIFICATION SpecNoCrash
CONSTANTS
    c1 = c1
    bad = bad
    x1 = x1
    x2 = x2
    Text = {c1, bad}
    CIDR = {c1}
    RuleID <- RuleIDs
    Handler = {x1, x2}
    Request <- DenyRequests
    FileConfig <- OneFile
    DiskFails = FALSE
SYMMETRY Symmetry
INVARIANT AcknowledgedMeansPersisted

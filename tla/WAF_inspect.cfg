SPECIFICATION Spec
CONSTANTS
    ta = ta
    tb = tb
    tn = tn
    pa = pa
    pb = pb
    NoJob = NoJob
    NoOverride = NoOverride
    NoBody = NoBody
    RuleID <- RuleIDs
    Pattern <- Patterns
    Text <- Texts
    Matches <- Matching
    HeaderName <- Headers
    HeaderTarget <- HTargets
    canonical <- Canonical
    RulesFile <- Files
    Request <- Requests
    maxBodyBytes = 2
    logOnly = FALSE
    Goroutine = {g1}
    Caller = {p1, p2}
    Job <- Jobs
SYMMETRY Symmetry
INVARIANT BlockJustified
INVARIANT PassJustified
INVARIANT BodyForwardedWhole
PROPERTY OverridesAtomic

SPECIFICATION FairSpec
CONSTANTS
    Yaml <- AllYaml
    Version = {"v1", "v2"}
    Rules = {"r1", "r2"}
    DB = {"d1", "d2"}
    Missing = Missing
    Broken = Broken
    Unreadable = {Missing, Broken}
INVARIANT IdleMeansCurrent
INVARIANT FailedReloadKeepsStateIfOpenable
PROPERTY SighupApplied
\* A killed process stops.
CHECK_DEADLOCK FALSE

SPECIFICATION Spec
CONSTANTS
    N = 2
    Aux = {"admin"}
    Conn = {c1, c2}
CHECK_DEADLOCK FALSE
INVARIANT NoServiceUntilAllBound
INVARIANT DrainedStaysIdle
INVARIANT CleanDrain
PROPERTY SignalEnds
PROPERTY StartErrorEnds

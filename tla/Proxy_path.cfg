SPECIFICATION Spec
CONSTANTS
    r1 = r1
    r2 = r2
    N = 2
    failureThreshold = 2
    downCooldown = 1
    Request = {r1}
    Kind <- Gets
    Flaky = {0}
    Secure = {}
    basePath <- SomePath
INVARIANT RetrySendsSamePath

SPECIFICATION FairSpec
CONSTANTS
    r1 = r1
    r2 = r2
    N = 2
    failureThreshold = 2
    downCooldown = 1
    Request = {r1, r2}
    Kind <- HandshakesAndUploads
    Flaky = {0}
    Secure = {1}
    basePath <- NoPath
INVARIANT OneRetryElsewhere
 
PROPERTY EveryRequestAnswered
PROPERTY RepairedComesBack

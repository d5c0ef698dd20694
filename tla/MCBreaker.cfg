SPECIFICATION FairSpec
CONSTANTS
    Requests = {r1, r2, r3}
    NoRequest = NoRequest
    failureThreshold = 2
    maxAttempts = 4
    initialBackoff = 2
    maxBackoff = 7
    Mqwebs = {"up", "down", "certRejected"}
    clientCertMode = TRUE
INVARIANTS
    ProbeAccounted
    OneProbe
    BackoffDoubles
PROPERTIES
    RecoversUnlessLost

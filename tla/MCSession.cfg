SPECIFICATION FairSpec
CONSTANTS
    Requests = {r1, r2, r3}
    NoRequest = NoRequest
    maxAttempts = 2
    MaxTokens = 3
INVARIANTS
    LoginOnlyWhenNeeded
    FreshAfterSeen
PROPERTIES
    RequestsReturn

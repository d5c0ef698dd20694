SPECIFICATION FairSpec
CONSTANTS
    MaxGeneration = 2
    Secrets = {"missing", "malformed", "wrong", "good"}
    Mqwebs = {"up", "down"}
    Apis = {"up", "down"}
    Webhooks = TRUE
INVARIANTS
    ReadyMeansPinged
    NeverStuck
PROPERTIES
    EventuallyReady
    Settles
    RotationNoticed
    DeletionSucceeds

SPECIFICATION Spec
CONSTANTS
    MaxGeneration = 1
    Secrets = {"wrong", "good"}
    Mqwebs = {"up"}
    Apis = {"up"}
    Webhooks = TRUE
PROPERTIES NoHotLoop

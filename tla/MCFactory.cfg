SPECIFICATION Spec
CONSTANTS
    Workers = {c, w1}
    connWorker = c
    NoEntry = NoEntry
    MaxConnections = 1
    MaxGeneration = 2
    MaxVersion = 2
INVARIANTS FreshClient CacheBounded

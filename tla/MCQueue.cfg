SPECIFICATION Spec
CONSTANTS
    Attributes = {"MAXDEPTH"}
    Checked = {"MAXDEPTH"}
    Unset = "unset"
    NoObject = NoObject
    Kind = "Queue"
    Values <- TwoValues
    Foreign <- SecondValue
    Malformed = {}
    Refused <- SecondValue
    Specs <- QueueSpecs
    Annotations <- Plain
    Conns = {"ready"}
    Mqwebs = {"up", "rejecting"}
    Apis = {"up", "down"}
    Foregrounds = {FALSE}
    Webhooks = TRUE
INVARIANTS
    CleanupBeforeRelease
    NeverWedged
    SyncedMeansApplied
PROPERTIES
    AdoptionRespected
    KeepsPromise

SPECIFICATION Spec
CONSTANTS
    Attributes = {"GET", "PUT", "INQ"}
    Checked = {"GET", "PUT", "INQ"}
    Unset = "unset"
    NoObject = NoObject
    Kind = "AuthorityRecord"
    Values <- AuthorityValues
    Foreign <- Others
    Malformed = {}
    Refused = {}
    Specs <- RecordSpecs
    Annotations <- ObserveOnly
    Conns = {"notReady", "badCert", "ready"}
    Mqwebs = {"up"}
    Apis = {"up"}
    Foregrounds = {TRUE}
    Webhooks = TRUE
INVARIANTS
    SyncedMeansGranted
PROPERTIES
    NeverAdopts

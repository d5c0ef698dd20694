SPECIFICATION FairSpec
CONSTANTS
    Attributes = {"MCAUSER"}
    Checked = {"MCAUSER"}
    Unset = "unset"
    NoObject = NoObject
    Kind = "ChannelAuthRule"
    Values <- TwoValues
    Foreign = {}
    Malformed <- SecondValue
    Refused = {}
    Specs <- RuleSpecs
    Annotations <- Plain
    Conns = {"missing", "ready"}
    Mqwebs = {"up", "down", "rejecting"}
    Apis = {"up"}
    Foregrounds = {FALSE}
    Webhooks = TRUE
PROPERTIES
    EventuallySynced
    EventuallyReleased

CONSTANTS
    c1 = c1
    c2 = c2
    rule = rule
    NoObject = NoObject
    Channels <- BothChannels
    AuthRules <- OneRule
    Plans <- TwoPlans
    MaxCreates = 3
    MaxFaults = 1
SPECIFICATION Spec
INVARIANTS ConnectionOutlivesDependents NoOrphanObject
PROPERTIES SurvivorHeals TearsDown
CHECK_DEADLOCK FALSE

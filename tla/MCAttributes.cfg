CONSTANTS
    o1 = o1
    o2 = o2
    Objects = {o1, o2}
    Candidates <- MCCandidates
    AloneSpecs <- MCAloneSpecs
    SharedSpecs <- MCSharedSpecs
    MaxChanges = 2
SPECIFICATION FairSpec
INVARIANTS
    TypeOK
    DefineAnswersRealDrift
    ComparedWereDisplayed
    SyncedMeansStored
    FoldKeepsMeaning
    WarnedIsIgnored
PROPERTY
    Settles

CONSTANTS
    o1 = o1
    o2 = o2
    Objects = {o1, o2}
    Candidates <- MCCandidates
    AloneSpecs <- MCNumberSpecs
    SharedSpecs <- MCSharedSpecs
    MaxChanges = 0
SPECIFICATION Spec
INVARIANT
    DefineOnlyOnDrift

CONSTANTS
    d1 = d1
    d2 = d2
    crd = crd
    ReleaseObject = ReleaseObject
    NsObject = NsObject
    Dep = {d1, d2}
    HelmDeps = {d1}
    PinnedDeps = {d2}
    NsDeps = {d1}
    Outside = {crd}
    NumFiles = 2
    Parallelism = 0
    NumCPU = 2
    Faults = TRUE
    Interrupts = TRUE
    Plans <- FaultyPlans
    FlagSets <- AllFlags
SPECIFICATION Spec
INVARIANTS BackendCoversWork LeftoversHaveCause PremisesHold GreenMeansGood

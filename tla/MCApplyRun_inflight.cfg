CONSTANTS
    d1 = d1
    d2 = d2
    crd = crd
    ReleaseObject = ReleaseObject
    NsObject = NsObject
    Dep = {d1, d2}
    HelmDeps = {}
    PinnedDeps = {}
    NsDeps = {}
    Outside = {}
    NumFiles = 2
    Parallelism = 2
    NumCPU = 1
    Faults = FALSE
    Interrupts = FALSE
    Plans <- QuickPlans
    FlagSets <- FailFasts
SPECIFICATION Spec
INVARIANT InFlightRunToCompletion

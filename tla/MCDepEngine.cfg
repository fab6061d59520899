CONSTANTS
    c1 = c1
    c2 = c2
    d1 = d1
    d2 = d2
    d3 = d3
    Callers = {c1, c2}
    Dep = {d1, d2, d3}
    HelmDeps = {d1}
    BlindDeps = {d3}
    Lists <- MixedLists
    Parallelism = 2
    NumCPU = 2
    Faults = TRUE
    Crashes = TRUE
SPECIFICATION FairSpec
INVARIANTS DependenciesFirst PrerequisitesOutlive CacheTruth PremisesReady
PROPERTY EveryCallReturns

CONSTANTS
    c1 = c1
    c2 = c2
    d1 = d1
    d2 = d2
    d3 = d3
    Callers = {c1, c2}
    Dep = {d1, d2, d3}
    HelmDeps = {}
    BlindDeps = {d3}
    Lists <- CachedLists
    Parallelism = 1
    NumCPU = 2
    Faults = FALSE
    Crashes = FALSE
SPECIFICATION Spec
INVARIANT CachedIsHealthy

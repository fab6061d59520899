CONSTANTS
    c1 = c1
    c2 = c2
    d1 = d1
    d2 = d2
    d3 = d3
    Callers = {c1}
    Dep = {d1, d2, d3}
    HelmDeps = {d1}
    BlindDeps = {d3}
    Lists <- SuiteLists
    Parallelism = 1
    NumCPU = 2
    Faults = TRUE
    Crashes = FALSE
SPECIFICATION Spec
INVARIANT CleanOnFail

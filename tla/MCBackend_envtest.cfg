CONSTANTS
    Types = {"envtest"}
    MaxPings = 1
    Faults = FALSE
SPECIFICATION Spec
INVARIANT EnvtestTornDown

CONSTANTS
    None = None
    Types = {"envtest", "kind", "k3d", "kubeconfig"}
    MaxPings = 4
    Faults = TRUE
    Unreliable = TRUE
    Proc = {"me", "other"}
    Me = "me"
    Pieces = 2
    MaxCrashes = 1
SPECIFICATION BothSpec
INVARIANTS NothingLeftBehind KeptClusterIsWhole HandleMeansStable CacheIsWhole FoundUnlessRefused
PROPERTIES StartReturns

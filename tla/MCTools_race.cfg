CONSTANTS
    None = None
    Proc = {"one", "other"}
    Pieces = 2
    MaxCrashes = 0
    Unreliable = TRUE
SPECIFICATION ToolSpec
INVARIANT DownloadIsAtomic

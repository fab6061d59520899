CONSTANTS
    p1 = p1
    p2 = p2
    Forwarder = Forwarder
    Pods = {p1, p2}
    Interval = 2
    Pause = 1
    Grace = 1
    MaxTimeout = 5
    MaxRetries = 2
    Calls <- SomeCalls
SPECIFICATION FairSpec
INVARIANTS HeldIsNoticed StopsInTime VerdictHasEvidence PatternDecides StoppedOnce
PROPERTIES CallEnds

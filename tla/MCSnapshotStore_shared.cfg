CONSTANTS
    p = p
    q = q
    s = s
    t = t
    k1 = k1
    k2 = k2
    k3 = k3
    Proc = {p, q}
    Suite = {s, t}
    Key = {k1, k2, k3}
    Value = {1, 2}
    FileOf <- Together
    Asserts <- TwoAndOne
    MaxRuns = 2
    Faults = FALSE
SPECIFICATION Spec
PROPERTY OnlyFirstRunWrites

CONSTANTS
    a = a
    b = b
    c = c
    u = u
    deep = deep
    nested = nested
    flat = flat
    loop = loop
    empty = empty
    missing = missing
    NoFile = NoFile
    Name = {a, b, c, u}
    File = {deep, nested, flat, loop, empty, missing}
    Content <- Files
    Lists <- AllLists
    MaxRefDepth = 2
SPECIFICATION Spec
INVARIANTS PrerequisitesFirst BatchesAreRounds RefusedForCause RefsResolved

\* A call in progress can always finish and a crashed process restart.
SPECIFICATION StoreSpec
CONSTANTS
    g = g
    g2 = g2
    a = a
    b = b
    c = c
    d = d
    Id = {g, g2, a, b, c, d}
    Content <- MCContent
    Preds <- MCPreds
    Key <- MCKey
    Refused = {b}
INVARIANTS
    MirrorConsistent
    ReplayIsTopological
    CrashLosesNothing

CONSTANTS
    p1 = p1
    p2 = p2
    r1 = r1
    r2 = r2
    s1 = s1
    s2 = s2
    NoProc = NoProc
    NoScope = NoScope
    Procs <- MCProcs
    Rows <- MCRows
    Scopes <- MCScopes
    ScopeAt <- MCScopeAt
    MaxBatch = 2
    MaxCrashes = 2
    Mixes <- MCMixes
SPECIFICATION FairSpec
INVARIANTS
    IndexIsSound
PROPERTIES
    NeverBackwards
    EveryBatchTaken

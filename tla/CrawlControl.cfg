CONSTANTS
    p1 = p1
    p2 = p2
    Procs <- MCProcs
    Users <- MCAlone
    Jobs <- MCJobs
    MaxFailures = 2
    MaxSpawns = 2
    MaxMishaps = 2
    ActAfterRace = FALSE
SPECIFICATION FairSpec
CHECK_DEADLOCK FALSE
INVARIANTS
    ControlIsSound
    CancelSticks
PROPERTIES
    SelfHeals

CONSTANTS
    r1 = r1
    r2 = r2
    Cleaners <- MCCleaners
    Roots <- MCRoots
    Tools <- MCTools
    Hidden <- MCHidden
    Global <- MCGlobal
    Skills <- MCSkills
    Content <- MCContent
    Topics <- MCTopics
    Fold <- MCFold
    StartDisks <- MCStartDisks
    MaxRuns = 2
    MaxAdds = 1
    MaxKills = 1
SPECIFICATION Spec
SYMMETRY Symmetry
CHECK_DEADLOCK FALSE
INVARIANTS
    LastCopyStays
    LocksFollowDisk
    ScannersAgree
    OffersAgree

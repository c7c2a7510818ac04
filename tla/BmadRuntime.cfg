CONSTANTS
    s1 = s1
    s2 = s2
    r1 = r1
    r2 = r2
    Setups <- MCOneSetup
    Renderers <- MCRenderers
    Roots <- MCRoots
    Tools = {}
    Hidden = {}
    Global <- MCGlobal
    Skills <- MCSkills
    Content <- MCContent
    Fold <- MCFold
    Keys <- MCKeys
    TemplateKeys = {"core"}
    Seconds = {1}
    StartDisks <- MCStartDisks
    StartTrees <- MCStartTrees
    Selections <- MCSelections
    Skill = "new"
    Sources <- MCSources
    Blank <- MCBlank
    Links <- MCLinks
    Used <- MCUsed
    Spots <- MCSpots
    MaxSetups = 2
    MaxRenders = 2
    MaxEdits = 1
    MaxStarts = 3
    MaxFaults = 1
    ActAfterRace = FALSE
SPECIFICATION Spec
SYMMETRY Symmetry
CHECK_DEADLOCK FALSE
INVARIANTS
    EditsSurvive
    SetupSettles
    StatusIsHonest
    SnapshotsHold

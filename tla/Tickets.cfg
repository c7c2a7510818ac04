CONSTANTS
    p1 = p1
    p2 = p2
    Procs <- MCProcs
    Trees <- MCTrees
    MarkAs <- MCMarks
    MaxCommands = 2
    MaxEdits = 1
    ActAfterOverlap = FALSE
SPECIFICATION TicketsSpec
SYMMETRY Symmetry
CHECK_DEADLOCK FALSE
INVARIANTS
    TreeStaysSound
    MarksStand
    NoStall
    RefFinds

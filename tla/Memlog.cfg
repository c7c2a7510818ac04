CONSTANTS
    w1 = w1
    w2 = w2
    topic = topic
    Writers <- MCWriters
    Fields <- MCFields
    MaxCommands = 3
    MaxMishaps = 2
SPECIFICATION LogSpec
SYMMETRY Symmetry
CHECK_DEADLOCK FALSE
INVARIANTS
    NeverHalfWritten
    AckedIsKept
PROPERTIES
    AppendOnly

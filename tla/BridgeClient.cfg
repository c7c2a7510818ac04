CONSTANTS
    a = a
    b = b
    NoCaller = NoCaller
    Callers <- MCTwo
    Recyclers <- MCTwo
    Large <- MCOne
SPECIFICATION FairSpec
CHECK_DEADLOCK FALSE
INVARIANTS
    CallsAreSound
PROPERTIES
    ImplementsContract
    EveryCallReturns

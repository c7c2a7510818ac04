CONSTANTS
    k1 = k1
    f1 = f1
    a = a
    b = b
    c = c
    None = None
    Keys <- MCKeys
    Fingerprints <- MCFingerprints
    Values <- MCCalls
    MaxKeys = 2
    Calls <- MCCalls
    KeyOf <- MCKeyOf
    FpOf <- MCFpOf
    ReplaySafe <- MCReplaySafe
    Searches = {}
SPECIFICATION Spec
CHECK_DEADLOCK FALSE
INVARIANTS
    CallsAreSound
    NoCallIsStuck
PROPERTIES
    OnlyItsOwnFailureRecycles
    KeepsPromise

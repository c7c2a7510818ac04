CONSTANTS
    k1 = k1
    k2 = k2
    k3 = k3
    k4 = k4
    f1 = f1
    f2 = f2
    v1 = v1
    v2 = v2
    None = None
    Keys <- MCKeys
    Fingerprints <- MCFingerprints
    Values <- MCValues
    MaxKeys = 2
SPECIFICATION Spec
SYMMETRY Symmetry
INVARIANTS
    TableIsSound
PROPERTIES
    EvictionIsOrderly

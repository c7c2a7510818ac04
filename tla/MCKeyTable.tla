------------------------------ MODULE MCKeyTable ------------------------------
(* KeyTable on a small instance: four keys, a cap of two, so that eviction   *)
(* has to choose among settled keys and can meet a table full of claims.     *)
EXTENDS KeyTable, TLC

CONSTANTS k1, k2, k3, k4, f1, f2, v1, v2

MCKeys == {k1, k2, k3, k4}
MCFingerprints == {f1, f2}
MCValues == {v1, v2}

Symmetry ==
    Permutations(MCKeys) \cup Permutations(MCFingerprints) \cup Permutations(MCValues)

=============================================================================

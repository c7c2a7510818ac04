------------------------------- MODULE MCMemlog -------------------------------
(* Memlog on a small instance: two processes, four commands, two mishaps.    *)
EXTENDS Memlog

CONSTANTS w1, w2, topic

MCWriters == {w1, w2}
MCFields == {topic}
Symmetry == Permutations(MCWriters)

=============================================================================

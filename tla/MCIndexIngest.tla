---------------------------- MODULE MCIndexIngest ----------------------------
(* IndexIngest with two processes and two containers, a row that moves to    *)
(* the other container after the first batch, and three mixes of calls: both *)
(* processes forget; one forgets while the other wipes; one wipes and runs   *)
(* ingest_pending.                                                           *)
EXTENDS IndexIngest, TLC

CONSTANTS p1, p2, r1, r2, s1, s2

MCProcs == {p1, p2}
MCRows == {r1}
MCTwoRows == {r1, r2}
MCScopes == {s1, s2}
MCScopeAt ==
    [n \in 1..MaxBatch |-> [r \in Rows |-> IF r = r1 /\ n = 1 THEN s1 ELSE s2]]

MCMixes == {
    (p1 :> {"forget"}) @@ (p2 :> {"forget"}),
    (p1 :> {"forget"}) @@ (p2 :> {"wipe"}),
    (p1 :> {"pending", "wipe"}) @@ (p2 :> {})}

=============================================================================

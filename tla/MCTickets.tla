------------------------------ MODULE MCTickets ------------------------------
(* Tickets on an initiative of two epics: a with two entries, b with one, a  *)
(* leaf file without an id beside it.  The trees differ in what waits for    *)
(* what and in what is settled; those that do not load are left out by TicketsInit. *)
EXTENDS Tickets

CONSTANTS p1, p2

MCProcs == {p1, p2}

Entry(type, stem, after) ==
    [type |-> type, stem |-> stem, refine |-> FALSE, hitl |-> FALSE, after |-> after]
Leaf(id, tracker, status) ==
    [type |-> "story", id |-> id, tracker |-> tracker, status |-> status, mirrored |-> "",
     refined |-> TRUE, hitl |-> FALSE, halted |-> FALSE, after |-> {}]
Epic(after) == [status |-> "in-progress", tracker |-> "", after |-> after]

\* What entries 1 of a and b wait for, the gates of a, the leaf files of b;
\* entry 2 of a always waits for entry 1.
MkTree(a1, b1, ga, leaves) ==
    [entry |-> [f \in {"a", "b"} |->
                  IF f = "a"
                  THEN (1 :> Entry("story", "one", a1)) @@ (2 :> Entry("bug", "two", {IdRef(1)}))
                  ELSE (1 :> Entry("story", "three", b1))],
     leaf |-> [f \in {"a", "b"} |-> IF f = "b" THEN leaves ELSE [s \in {} |-> Cut]],
     plan |-> [f \in {"a", "b"} |-> [s \in {} |-> Cut]],
     container |-> [f \in {"a", "b"} |-> Epic(IF f = "a" THEN ga ELSE {})],
     number |-> [f \in {"a", "b"} |-> IF f = "a" THEN 1 ELSE 2]]

Loose == "loose" :> Leaf(0, "", "done")
Three == "three" :> Leaf(1, "T-9", "in-review")

\* A chain through both epics, one epic after the other, a tracker id, a
\* gate; then three in which something waits for itself, two of them through
\* an epic.
MCTrees ==
    {MkTree({}, {CrossRef(1, 2)}, {}, Loose),
     MkTree({}, {NameRef("a")}, {}, Loose),
     MkTree({NameRef("T-9")}, {}, {}, Three),
     MkTree({}, {}, {NameRef("b")}, Loose),
     MkTree({CrossRef(2, 1)}, {CrossRef(1, 2)}, {}, Loose),
     MkTree({NameRef("b")}, {CrossRef(1, 2)}, {}, Loose),
     MkTree({}, {CrossRef(1, 1)}, {NameRef("b")}, Loose)}

\* An entry that waits for the leaf file without an id.
MCLooseTrees == {MkTree({}, {NameRef("loose")}, {}, Loose)}

MCMarks ==
    {[status |-> s, halt |-> s = "in-progress"] : s \in {"in-progress", "done", "dropped"}}

ASSUME MCTreesAreWellKept ==
    \A tr \in MCTrees :
      (\A s \in Scopes(tr) : Loads(tr, s)) => WellKept(tr) /\ Findable(tr)

Symmetry == Permutations(MCProcs)

=============================================================================

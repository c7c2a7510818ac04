----------------------------- MODULE GitEvidence -----------------------------
(***************************************************************************)
(* A git history, and what git_evidence.py counts over a range of it.      *)
(*                                                                         *)
(* history[i].parents are earlier commits, the first parent first.  A      *)
(* commit with `own` adds one line that no other adds: a merge only when   *)
(* its conflicts were settled by hand.  Nothing is deleted, so the lines   *)
(* of a commit are those its history adds.  The paths a line is in, binary *)
(* files and the stories a subject names are left out.                     *)
(***************************************************************************)
EXTENDS Integers, SequencesExt, FiniteSets

CONSTANT GitRepeats    \* git's -m prints a merge once per parent even with
                       \* --first-parent (git before 2.31)

IsMerge(history, c) == Len(history[c].parents) > 1

\* Every commit's history, itself included; 0 is no commit.
Histories(history) ==
    LET past[c \in 0..Len(history)] ==
          IF c = 0 THEN {} ELSE {c} \cup UNION {past[p] : p \in Range(history[c].parents)}
    IN past

Spine(history, c) ==
    LET line[d \in 0..Len(history)] ==
          IF d = 0 THEN {}
          ELSE {d} \cup (IF history[d].parents = <<>> THEN {} ELSE line[Head(history[d].parents)])
    IN line[c]

Lines(history, past) == {c \in past : history[c].own}

\* A `git log --numstat` pass prints blocks of a commit and the lines it is
\* said to add, those of the newest commit first.
Printed(history, blocks) ==
    LET after[k \in 0..Len(history)] ==
          IF k = 0 THEN <<>> ELSE after[k - 1] \o blocks[Len(history) + 1 - k]
    IN after[Len(history)]

\* The first pass lists the whole range, and merges without any lines; ...
Listing(history, range) ==
    Printed(history, [c \in 1..Len(history) |->
      IF c \notin range THEN <<>>
      ELSE <<[commit |-> c, lines |-> IF IsMerge(history, c) THEN {} ELSE Lines(history, {c})]>>])

MergeBlocks(history, c) ==
    LET past == Histories(history)
        block(p) == [commit |-> c, lines |-> Lines(history, past[c] \ past[p])]
        parents == history[c].parents
    IN IF GitRepeats THEN [i \in DOMAIN parents |-> block(parents[i])] ELSE <<block(Head(parents))>>

\* ... the second the merges on the spine of the range's end, against a parent.
MergeListing(history, range, to) ==
    LET spine == range \cap Spine(history, to)
    IN Printed(history, [c \in 1..Len(history) |->
         IF c \in spine /\ IsMerge(history, c) THEN MergeBlocks(history, c) ELSE <<>>])

\* Faulty variant of Counted: a commit printed again counts again.
CountedAgain(sum, b) ==
    [commits |-> sum.commits \cup {b.commit}, added |-> sum.added + Cardinality(b.lines)]

\* _parse_log: the first block of a commit counts.
Counted(sum, b) ==
    IF b.commit \in sum.commits THEN sum
    ELSE [commits |-> sum.commits \cup {b.commit}, added |-> sum.added + Cardinality(b.lines)]

Parsed(blocks) ==
    LET sum[i \in 0..Len(blocks)] ==
          IF i = 0 THEN [commits |-> {}, added |-> 0] ELSE Counted(sum[i - 1], blocks[i])
    IN sum[Len(blocks)]

\* What is printed for from..to: the files' sum over the commits that are no
\* merges, and that of the merges, measured apart.
Evidence(history, from, to) ==
    LET past == Histories(history)
        range == past[to] \ past[from]
        files == Parsed(Listing(history, range))
        merges == Parsed(MergeListing(history, range, to))
    IN [commits |-> files.commits, added |-> files.added,
        measured |-> merges.commits, mergeAdded |-> merges.added]

=============================================================================

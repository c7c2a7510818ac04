------------------------------- MODULE WalkPlan -------------------------------
(***************************************************************************)
(* The index ranges in which a mailbox is read: MailAE.walkPlan and        *)
(* MailCrawler.halve (crates/bite-mcp/swift/Sources/BiteCrawlCore).  No    *)
(* range may be AvoidWidth wide: a reply of as many rows as a message has  *)
(* properties reads both ways.                                             *)
(***************************************************************************)
EXTENDS Integers, SequencesExt

CONSTANTS
    ChunkSize,  \* rows asked for at once (12)
    AvoidWidth  \* properties of a message (7)

ASSUME WalkPlanAssumption ==
    /\ ChunkSize \in Nat \ {0}
    /\ AvoidWidth \in Nat /\ AvoidWidth > 1

Piece(lo, hi) == [lo |-> lo, hi |-> hi]

Width(r) == r.hi - r.lo + 1

Least(a, b) == IF a < b THEN a ELSE b
Most(a, b) == IF a < b THEN b ELSE a

\* Where the piece that starts at s ends.
PieceEnd(s, end) ==
    LET e == Least(s + ChunkSize - 1, end) IN
    IF e - s + 1 = AvoidWidth THEN e - 1 ELSE e

Cut(start, end) ==
    LET from[s \in start..(end + 1)] ==
            IF s > end THEN <<>>
            ELSE <<Piece(s, PieceEnd(s, end))>> \o from[PieceEnd(s, end) + 1]
    IN IF start > end THEN <<>> ELSE from[start]

\* The ranges in walk order: from position 1 up, or from the far end down.
WalkRanges(total, limit, newestFirst) ==
    IF newestFirst THEN Cut(1, Least(total, limit))
    ELSE Reverse(Cut(Most(1, total - limit + 1), total))

\* The range that shows the order of the mailbox.
ProbeRange(total, limit) ==
    LET end == Least(ChunkSize, Least(limit, total)) IN
    Piece(1, Most(1, IF end = AvoidWidth THEN end - 1 ELSE end))

\* The two halves of a range of at least two rows, the lower one first.
Lower(r) == Piece(r.lo, r.lo + Width(r) \div 2 - 1)
Upper(r) == Piece(r.lo + Width(r) \div 2, r.hi)

Halves(r) == <<Lower(r), Upper(r)>>

=============================================================================

------------------------------- MODULE MailWalk -------------------------------
(***************************************************************************)
(* One mailbox read for one date window: MailCrawler.crawlMailbox, with    *)
(* the SIGTERM handler of bite-crawl (main.swift) beside it.  Mail is      *)
(* slow, refuses reads and counts, and gains and loses messages while the  *)
(* walk goes on by position.                                               *)
(*                                                                         *)
(* A message is a number; its date is below, in or above the window, or    *)
(* cannot be read.  Messages lie in the order of their dates, newest or    *)
(* oldest first, but for a few mis-dated ones.  A chunk is scanned and     *)
(* collected in one step; a health check, the identity check and the read  *)
(* they precede are one step, but for SIGTERM, which may come after the    *)
(* look for it and before the read; heartbeats and pauses are left out.    *)
(***************************************************************************)
EXTENDS WalkPlan, FiniteSets

CONSTANTS
    Sizes,         \* sizes of the mailbox at the start
    MaxOdd,        \* messages that are mis-dated, arrive or leave (bound of the model)
    Cap,           \* rows a walk reads at most (20000)
    BatchSize,     \* records of a staged batch (50)
    EdgeTolerance, \* stale rows of a chunk before the edge (2)
    MisTail,       \* rows above the window before the order is wrong (36)
    ZeroYield      \* useless rows before the window is given up (500)

Below == 0
In == 1
Above == 2
NoDate == 3
Dates == {Below, In, Above, NoDate}

ASSUME MailWalkAssumption ==
    /\ Sizes \subseteq Nat
    /\ {MaxOdd, EdgeTolerance, MisTail, ZeroYield} \subseteq Nat
    /\ Cap \in Nat \ {0} /\ BatchSize \in Nat /\ BatchSize >= ChunkSize
    /\ (ChunkSize + 1) \div 2 < AvoidWidth  \* half a chunk may be read

VARIABLES
    mbox,        \* the mailbox: messages by position
    date,        \* message -> date
    misdated,    \* messages whose date does not fit where they lie
    newest,      \* the mailbox has its newest message at position 1
    memo,        \* an earlier window of this job found the mailbox blind
    pc,          \* where the walk is
    total,       \* number of messages, 0 when blind
    limit,       \* walkLimit, which a refreshed count leaves alone
    blind,       \* the count failed
    strikes,     \* consecutiveFailures, countAttempts and probeStrikes
    probeEnd,    \* last position of the probe
    order,       \* newestFirstResolved
    defaulted,   \* orderWasDefaulted
    todo,        \* ranges to read, the next one first
    edge,        \* edgeCrossed
    indexed,     \* records collected
    useless,     \* unreadable and far-side rows
    tail,        \* aboveWindowTail
    pending,     \* PendingBatch
    staged,      \* messages in staged batches
    writeFailed, \* a batch could not be written
    outcome,     \* WalkOutcome: ok, skip, transport, or none yet
    term,        \* the SIGTERM handler: none, stopped, flushed, exit
    late,        \* SIGTERM came after the walk's last look for it
    flushOK,     \* every flush of the handler was written
    owed,        \* records pending when SIGTERM came (history variable)
    arrived,     \* messages that arrived
    gone         \* messages that left

mailVars == <<mbox, date, misdated, newest, arrived, gone>>
planVars == <<total, limit, blind, probeEnd, order, defaulted>>
scanVars == <<edge, indexed, useless, tail>>
batchVars == <<pending, staged>>
termVars == <<term, flushOK, owed>>
vars == <<mailVars, memo, pc, planVars, strikes, todo, scanVars, batchVars,
          writeFailed, outcome, termVars, late>>

\* Dates by position: a messages above the window and b in it, the newest
\* at one end or the other.
Sorted(n, a, b, newestFirst) ==
    [i \in 1..n |->
        LET k == IF newestFirst THEN i ELSE n + 1 - i IN
        IF k <= a THEN Above ELSE IF k <= a + b THEN In ELSE Below]

Init ==
    /\ newest \in BOOLEAN
    /\ \E n \in Sizes : \E a \in 0..n : \E b \in 0..(n - a) :
          /\ mbox = [i \in 1..n |-> i]
          /\ misdated \in {M \in SUBSET (1..n) : Cardinality(M) <= MaxOdd}
          /\ \E wrong \in [misdated -> Dates] :
                date = [m \in 1..n |-> IF m \in misdated THEN wrong[m] ELSE Sorted(n, a, b, newest)[m]]
    /\ arrived = 0 /\ gone = {}
    /\ memo \in BOOLEAN
    /\ pc = "count"
    /\ total = 0 /\ limit = 0 /\ blind = FALSE /\ probeEnd = 0 /\ order = TRUE /\ defaulted = FALSE
    /\ strikes = 0 /\ todo = <<>>
    /\ edge = FALSE /\ indexed = 0 /\ useless = 0 /\ tail = 0
    /\ pending = <<>> /\ staged = {} /\ writeFailed = FALSE
    /\ outcome = "none"
    /\ term = "none" /\ late = FALSE /\ flushOK = TRUE /\ owed = {}

Odd == Cardinality(misdated) + arrived + Cardinality(gone)

Cancelled == term # "none"
Unnoticed == ~Cancelled \/ late
Running == term # "exit"

-----------------------------------------------------------------------------
(***************************************************************************)
(* Mail.                                                                   *)
(***************************************************************************)
Arrive ==
    /\ pc # "end" /\ Running /\ Odd < MaxOdd
    /\ arrived' = arrived + 1
    /\ date' = Append(date, Above)
    /\ mbox' = IF newest THEN <<Len(date')>> \o mbox ELSE Append(mbox, Len(date'))
    /\ UNCHANGED <<misdated, newest, gone, memo, pc, planVars, strikes, todo, scanVars, batchVars,
                   writeFailed, outcome, termVars>>

Depart ==
    /\ pc # "end" /\ Running /\ Odd < MaxOdd
    /\ \E i \in DOMAIN mbox :
          /\ mbox' = RemoveAt(mbox, i)
          /\ gone' = gone \cup {mbox[i]}
    /\ UNCHANGED <<date, misdated, newest, arrived, memo, pc, planVars, strikes, todo, scanVars, batchVars,
                   writeFailed, outcome, termVars>>

\* A read past the end is refused, or answered short.
Answers(r) == r.lo <= Len(mbox)
OutOfRange(r) == r.hi > Len(mbox)
Rows(r) == SubSeq(mbox, r.lo, Least(r.hi, Len(mbox)))

-----------------------------------------------------------------------------
(***************************************************************************)
(* scanChunk.                                                              *)
(***************************************************************************)

\* Faulty variant of ScanRow: one stale row is the edge.
ScanRowImpatient(s, d, m, asc) ==
    IF s.edge THEN s
    ELSE IF d = NoDate THEN [s EXCEPT !.useless = @ + 1]
    ELSE IF d = In THEN [s EXCEPT !.recs = Append(@, m), !.tail = 0]
    ELSE IF d = (IF asc THEN Above ELSE Below) THEN [s EXCEPT !.useless = @ + 1, !.edge = TRUE]
    ELSE IF asc THEN [s EXCEPT !.useless = @ + 1]
    ELSE s

\* One row, message m of date d.  Stale rows are those beyond the bound the
\* walk ends at; the rows short of it are useless only to an ascending walk,
\* and a sign of a wrong order only to a descending one that has collected.
ScanRow(s, d, m, asc) ==
    IF s.edge THEN s
    ELSE IF d = NoDate THEN [s EXCEPT !.useless = @ + 1]
    ELSE IF d = In THEN [s EXCEPT !.recs = Append(@, m), !.tail = 0]
    ELSE IF d = (IF asc THEN Above ELSE Below) THEN
        IF s.stale + 1 > EdgeTolerance THEN [s EXCEPT !.edge = TRUE]
        ELSE [s EXCEPT !.stale = @ + 1, !.useless = @ + 1]
    ELSE IF asc THEN [s EXCEPT !.useless = @ + 1]
    ELSE IF indexed > 0 \/ s.recs # <<>> THEN
        [s EXCEPT !.tail = @ + 1, !.mis = @ \/ s.tail + 1 > MisTail]
    ELSE s

Scan(rows, asc) ==
    LET after[i \in 0..Len(rows)] ==
          IF i = 0 THEN [edge |-> FALSE, stale |-> 0, recs |-> <<>>, useless |-> useless, tail |-> tail,
                         mis |-> FALSE]
          ELSE ScanRow(after[i - 1], date[rows[i]], rows[i], asc)
    IN after[Len(rows)]

\* Nothing is scanned.
NoScan == [edge |-> FALSE, recs |-> <<>>, useless |-> useless, tail |-> tail, mis |-> FALSE]

\* zeroYieldCheck, after a chunk of scan s.
GivenUp(s, unsure) ==
    indexed + Len(s.recs) = 0 /\ (s.useless > ZeroYield \/ unsure)

-----------------------------------------------------------------------------
(***************************************************************************)
(* Batches.  The records of a chunk join the pending ones; a full batch is *)
(* written, and its records are put back when the write fails.             *)
(***************************************************************************)
Collect(recs) ==
    LET all == pending \o recs IN
    \/ /\ Len(all) < BatchSize
       /\ pending' = all
       /\ UNCHANGED <<staged, writeFailed>>
    \/ /\ Len(all) >= BatchSize
       /\ staged' = staged \cup ToSet(SubSeq(all, 1, BatchSize))
       /\ pending' = SubSeq(all, BatchSize + 1, Len(all))
       /\ UNCHANGED writeFailed
    \/ /\ Len(all) >= BatchSize
       /\ pending' = all
       /\ writeFailed' = TRUE
       /\ UNCHANGED staged
    \/ \E j \in (BatchSize + 1)..Len(all) : \* it fails, and the next one does not
          /\ staged' = staged \cup ToSet(SubSeq(all, 1, j))
          /\ pending' = SubSeq(all, j + 1, Len(all))
          /\ writeFailed' = TRUE

\* flush: everything pending in one batch.
Flush(ok) ==
    IF ok THEN staged' = staged \cup ToSet(pending) /\ pending' = <<>>
    ELSE pending # <<>> /\ UNCHANGED <<pending, staged>>

\* The chunk of scan s is done; rest is what remains to be read.
Fold(s, rest, unsure) ==
    /\ Collect(s.recs)
    /\ edge' = s.edge /\ useless' = s.useless /\ tail' = s.tail
    /\ indexed' = indexed + Len(s.recs)
    /\ todo' = rest
    /\ pc' = IF s.mis \/ GivenUp(s, unsure) THEN "skip" ELSE "walk"

-----------------------------------------------------------------------------
(***************************************************************************)
(* The count, then the probe.                                              *)
(***************************************************************************)
FullProbe == ProbeRange(Cap, Cap).hi

Count ==
    /\ pc = "count" /\ Running
    /\ \/ \* the messages are counted: an empty mailbox is done
          /\ ~memo /\ Unnoticed
          /\ total' = Len(mbox) /\ limit' = Least(total', Cap) /\ blind' = FALSE /\ strikes' = 0
          /\ probeEnd' = ProbeRange(total', limit').hi
          /\ IF total' = 0 THEN pc' = "end" /\ outcome' = "ok"
             ELSE pc' = "probe" /\ UNCHANGED outcome
       \/ \* the first attempt fails
          /\ ~memo /\ Unnoticed /\ strikes = 0
          /\ strikes' = 1
          /\ UNCHANGED <<total, limit, blind, probeEnd, pc, outcome>>
       \/ \* blind: the count was skipped, given up or cancelled
          /\ memo \/ Cancelled \/ strikes = 1
          /\ total' = 0 /\ limit' = Cap /\ blind' = TRUE /\ strikes' = 0
          /\ probeEnd' = FullProbe
          /\ pc' \in {"probe", "abort"}   \* abort: Mail is not running
          /\ UNCHANGED outcome
    /\ UNCHANGED <<mailVars, memo, order, defaulted, todo, scanVars, batchVars, writeFailed, termVars>>

\* What two rows may say of the order: nothing when a date is missing or the
\* dates are the same, as dates on one side of the window may be.
Hints(m, k) ==
    IF NoDate \in {date[m], date[k]} THEN {{}}
    ELSE IF date[m] # date[k] THEN {{date[m] > date[k]}}
    ELSE IF {m, k} \cap misdated = {} THEN {{}, {newest}}
    ELSE {{}, {TRUE}, {FALSE}}

\* The rest of the first range when a blind probe had to shrink.
Unprobed ==
    LET rest == Piece(probeEnd + 1, FullProbe) IN
    IF ~blind \/ probeEnd >= FullProbe THEN <<>>
    ELSE IF Width(rest) = AvoidWidth THEN Halves(rest) ELSE <<rest>>

\* The probe answers: the order is resolved from its first two rows, or else
\* from the first and the last of a counted mailbox, or else by default.  The
\* probe of a newest-first plan is its first chunk.
Probe ==
    /\ pc = "probe" /\ Running
    /\ ~blind \/ Unnoticed
    /\ LET r == Piece(1, probeEnd)
           rows == Rows(r)
           canResample == ~blind /\ total > probeEnd /\ total <= Len(mbox)
       IN  /\ Answers(r)
           /\ \E near \in IF Len(rows) >= 2 THEN Hints(rows[1], rows[2]) ELSE {{}} :
              \E far \in {{}} \cup IF near = {} /\ canResample THEN Hints(rows[1], mbox[total]) ELSE {} :
                 /\ defaulted' = (near \cup far = {})
                 /\ order' = (FALSE \notin near \cup far)
           /\ LET plan == WalkRanges(IF blind THEN limit ELSE total, limit, blind \/ order')
                  first == blind \/ order'
                  s == IF first THEN Scan(rows, blind /\ ~order') ELSE NoScan
              IN  IF first THEN Fold(s, Unprobed \o Tail(plan), defaulted')
                  ELSE Fold(s, plan, FALSE)
    /\ strikes' = 0
    /\ UNCHANGED <<mailVars, memo, total, limit, blind, probeEnd, outcome, termVars>>

\* It does not.  A blind probe is halved while it is out of range; a mailbox
\* without a first row is taken for empty.  Two other failures end the walk,
\* as any failure of a counted probe does.
ProbeFails ==
    /\ pc = "probe" /\ Running
    /\ \/ /\ blind /\ Unnoticed /\ OutOfRange(Piece(1, probeEnd))
          /\ IF probeEnd = 1 THEN pc' = "skip" ELSE UNCHANGED pc
          /\ probeEnd' = IF probeEnd = 1 THEN 1 ELSE probeEnd \div 2
          /\ UNCHANGED strikes
       \/ /\ blind /\ Unnoticed
          /\ strikes' = strikes + 1
          /\ IF strikes' >= 2 THEN pc' = "abort" ELSE UNCHANGED pc
          /\ UNCHANGED probeEnd
       \/ /\ ~blind \/ Cancelled
          /\ pc' = "abort"
          /\ UNCHANGED <<probeEnd, strikes>>
    /\ UNCHANGED <<mailVars, memo, total, limit, blind, order, defaulted, todo, scanVars, batchVars,
                   writeFailed, outcome, termVars>>

-----------------------------------------------------------------------------
(***************************************************************************)
(* The walk.                                                               *)
(***************************************************************************)
Ascending == blind /\ ~order
Reversed == ~blind /\ ~order

Ended == todo = <<>> \/ edge \/ writeFailed \/ indexed >= limit

Walking == pc = "walk" /\ Running /\ ~Ended /\ Unnoticed

Beyond(r) == ~blind /\ r.lo > total

PassBeyond ==
    /\ Walking /\ Beyond(Head(todo))
    /\ todo' = Tail(todo)
    /\ UNCHANGED <<mailVars, memo, pc, planVars, strikes, scanVars, batchVars, writeFailed,
                   outcome, termVars>>

\* The range is read; a short answer to a blind read is the end of the mailbox.
ReadChunk ==
    /\ Walking /\ ~Beyond(Head(todo))
    /\ LET r == Head(todo)
           rows == Rows(r)
           s == Scan(IF Reversed THEN Reverse(rows) ELSE rows, Ascending)
       IN  /\ Answers(r)
           /\ Fold(s, IF blind /\ Len(rows) < Width(r) THEN <<>> ELSE Tail(todo), defaulted)
    /\ strikes' = 0
    /\ UNCHANGED <<mailVars, memo, planVars, outcome, termVars>>

\* One more failure in a row; the third ends the walk.
Strike ==
    /\ strikes' = strikes + 1
    /\ pc' = IF strikes' >= 3 THEN "abort" ELSE pc

\* Mail is not healthy, or does not tell the name of the mailbox: the same
\* range is tried again.
NotVerified ==
    /\ Walking /\ ~Beyond(Head(todo))
    /\ Strike
    /\ UNCHANGED <<mailVars, memo, planVars, todo, scanVars, batchVars, writeFailed, outcome, termVars>>

\* Another mailbox has the index now.
Mistaken ==
    /\ Walking /\ ~Beyond(Head(todo))
    /\ pc' = "abort"
    /\ UNCHANGED <<mailVars, memo, planVars, strikes, todo, scanVars, batchVars, writeFailed,
                   outcome, termVars>>

\* blindReadDecision on a range error: halve down to the end of the mailbox.
BlindOutOfRange ==
    /\ Walking /\ blind
    /\ LET r == Head(todo) IN
          /\ OutOfRange(r)
          /\ todo' = IF Width(r) > 1 THEN Halves(r) \o Tail(todo) ELSE <<>>
    /\ UNCHANGED <<mailVars, memo, pc, planVars, strikes, scanVars, batchVars, writeFailed,
                   outcome, termVars>>

\* ... and on any other.
BlindReadFails ==
    /\ Walking /\ blind
    /\ Strike
    /\ UNCHANGED <<mailVars, memo, planVars, todo, scanVars, batchVars, writeFailed, outcome, termVars>>

\* Faulty variant of CountedReadFails: a refreshed count forgives the strikes.
CountedReadFailsForgiven ==
    /\ Walking /\ ~blind /\ ~Beyond(Head(todo))
    /\ \E counted \in BOOLEAN :
          /\ total' = IF counted THEN Len(mbox) ELSE total
          /\ IF counted
             THEN /\ todo' = IF Head(todo).lo > Len(mbox) THEN Tail(todo) ELSE todo
                  /\ strikes' = 0 /\ UNCHANGED pc
             ELSE Strike /\ UNCHANGED todo
    /\ UNCHANGED <<mailVars, memo, limit, blind, probeEnd, order, defaulted, scanVars, batchVars,
                   writeFailed, outcome, termVars>>

\* failureDecision: the count is refreshed, unless that fails too; a range
\* beyond it evaporates, any other is tried again.
CountedReadFails ==
    /\ Walking /\ ~blind /\ ~Beyond(Head(todo))
    /\ \E counted \in BOOLEAN :
          /\ total' = IF counted THEN Len(mbox) ELSE total
          /\ IF counted /\ Head(todo).lo > Len(mbox)
             THEN todo' = Tail(todo) /\ strikes' = 0 /\ UNCHANGED pc
             ELSE Strike /\ UNCHANGED todo
    /\ UNCHANGED <<mailVars, memo, limit, blind, probeEnd, order, defaulted, scanVars, batchVars,
                   writeFailed, outcome, termVars>>

\* The last flush of the walk: of one that ended, was given up or aborted.
Finish ==
    /\ \/ pc = "walk" /\ (Ended \/ ~Unnoticed)
       \/ pc \in {"skip", "abort"}
    /\ Running
    /\ pc' = "end"
    /\ \E ok \in BOOLEAN :
          /\ Flush(ok)
          /\ outcome' = IF ~ok \/ pc = "abort" \/ (pc = "walk" /\ writeFailed) THEN "transport"
                        ELSE IF pc = "skip" THEN "skip"
                        ELSE "ok"
    /\ UNCHANGED <<mailVars, memo, planVars, strikes, todo, scanVars, writeFailed, termVars>>

-----------------------------------------------------------------------------
(***************************************************************************)
(* SIGTERM: stop, flush, wait for the walk to notice or for two seconds,   *)
(* flush again, exit.  The flusher is set between the count and the end.   *)
(***************************************************************************)
HasFlusher == pc \in {"probe", "walk", "skip", "abort"}

HandlerFlush(ok) ==
    /\ IF HasFlusher THEN Flush(ok) ELSE ok /\ UNCHANGED batchVars
    /\ flushOK' = (flushOK /\ ok)

Stop ==
    /\ term = "none"
    /\ term' = "stopped"
    /\ owed' = ToSet(pending)
    /\ late' \in IF pc \in {"count", "probe", "walk"} THEN BOOLEAN ELSE {FALSE}
    /\ UNCHANGED <<mailVars, memo, pc, planVars, strikes, todo, scanVars, batchVars, writeFailed,
                   outcome, flushOK>>

FlushFirst ==
    /\ term = "stopped"
    /\ term' = "flushed"
    /\ \E ok \in BOOLEAN : HandlerFlush(ok)
    /\ UNCHANGED <<mailVars, memo, pc, planVars, strikes, todo, scanVars, writeFailed, outcome, owed>>

FlushLast ==
    /\ term = "flushed"
    /\ term' = "exit"
    /\ \E ok \in BOOLEAN : HandlerFlush(ok)
    /\ UNCHANGED <<mailVars, memo, pc, planVars, strikes, todo, scanVars, writeFailed, outcome, owed>>

WalkStep ==
    \/ Count \/ Probe \/ ProbeFails \/ PassBeyond \/ ReadChunk \/ NotVerified \/ Mistaken
    \/ BlindOutOfRange \/ BlindReadFails \/ CountedReadFails \/ Finish

HandlerStep == FlushFirst \/ FlushLast

Next ==
    \/ Stop
    \/ (HandlerStep \/ Arrive \/ Depart) /\ UNCHANGED late
    \/ WalkStep /\ late' = FALSE

Spec == Init /\ [][Next]_vars

\* The walk and the handler run on, as every read is bounded by a timeout;
\* Mail and SIGTERM do only so much.
FairSpec == Spec /\ WF_vars(Next)

-----------------------------------------------------------------------------
(***************************************************************************)
(* Properties.                                                             *)
(***************************************************************************)

TypeOK ==
    /\ mbox \in Seq(1..Len(date)) /\ date \in Seq(Dates)
    /\ misdated \subseteq 1..Len(date)
    /\ \A i, j \in DOMAIN mbox : i # j => mbox[i] # mbox[j]
    /\ gone \cap ToSet(mbox) = {} /\ gone \cup ToSet(mbox) = 1..Len(date)
    /\ {newest, memo, blind, order, defaulted, edge, writeFailed, late, flushOK} \subseteq BOOLEAN
    /\ pc \in {"count", "probe", "walk", "skip", "abort", "end"}
    /\ strikes \in 0..3
    /\ pc = "probe" => probeEnd >= 1
    /\ \A i \in DOMAIN todo : 1 <= todo[i].lo /\ todo[i].lo <= todo[i].hi
    /\ ToSet(pending) \cup staged \cup owed \subseteq {m \in 1..Len(date) : date[m] = In}
    /\ Len(pending) < BatchSize + ChunkSize
    /\ outcome \in {"none", "ok", "skip", "transport"} /\ (outcome = "none" <=> pc # "end")
    /\ term \in {"none", "stopped", "flushed", "exit"}

\* "walkPlan guarantees no chunk is exactly 7 wide" (MailCrawler.swift:1047):
\* neither is a half of one, nor what a shrunken probe left, nor the probe.
NoAmbiguousWidth ==
    /\ pc = "probe" => probeEnd # AvoidWidth
    /\ \A i \in DOMAIN todo : Width(todo[i]) # AvoidWidth /\ Width(todo[i]) <= ChunkSize

Missed == {m \in 1..Len(date) : date[m] = In /\ m \notin staged \cup gone \cup misdated}

Clean == outcome = "ok" /\ ~Cancelled

\* The walk goes the way the mailbox lies, or does not know and every row is
\* where its date puts it.
Oriented == order = newest \/ (defaulted /\ misdated = {})

\* Fewer mis-dated rows than it takes to end a walk, and a mailbox that the
\* walk has a plan for: one of more than 20000 messages is read as far as
\* that, and nothing is reported.
Readable == Cardinality(misdated) <= EdgeTolerance /\ Len(date) <= Cap

\* A position still to be read keeps its message, or passes it on to another
\* that is still to be read.
Anchored ==
    /\ arrived = 0 \/ blind \/ ~newest
    /\ gone = {} \/ (~blind /\ ~order)

\* "the JOB fails instead of reporting done with holes" (MailCrawler.swift:576):
\* a walk that reports neither an error nor a skip has staged every message of
\* its window, if it was oriented and anchored in a readable mailbox.
NoHoles == Clean /\ Oriented /\ Readable /\ Anchored => Missed = {}

\* "one mis-dated row must not end the whole window walk" (MailCrawler.swift:988):
\* the same when nothing moved, whatever the order looks like.  It does not
\* hold: a mis-dated row among the first two turns the order round.
MisdatedIsHarmless == Clean /\ arrived = 0 /\ gone = {} => Missed = {}

\* "a cancel never strands up to 50 staged records" (MailCrawler.swift:137):
\* what was pending when SIGTERM came is staged when the process exits and
\* reports that its flushes were written, or the walk reported an error.
CancelStrandsNothing ==
    term = "exit" /\ flushOK => owed \subseteq staged \/ outcome = "transport"

\* What is true of a walk at any moment.
WalkIsSound == TypeOK /\ NoAmbiguousWidth /\ NoHoles /\ CancelStrandsNothing

\* The walk ends, whatever Mail does: each read moves on, halves its range or
\* is one of three failures in a row.
WalkEnds == <>(pc = "end" \/ term = "exit")

=============================================================================

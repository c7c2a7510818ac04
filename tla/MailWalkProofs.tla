---------------------------- MODULE MailWalkProofs ----------------------------
(***************************************************************************)
(* What a walk of one mailbox promises, for every size of the mailbox, of  *)
(* the chunk and of the batch, every tolerance, and any number of messages *)
(* that arrive, leave or are mis-dated.                                    *)
(*                                                                         *)
(* The heart of the inductive invariant is the plan: the ranges still to   *)
(* be read are contiguous and reach to the end of what the walk may read,  *)
(* and every message of the window that is neither staged nor pending lies *)
(* in one of them.  It rests on what a scan tells of a mailbox that lies   *)
(* in the order of its dates: a walk that goes the way the mailbox lies    *)
(* crosses the edge of the window only when nothing of it is further on.   *)
(***************************************************************************)
EXTENDS MailWalk, SequenceTheorems, FiniteSetTheorems, WellFoundedInduction, TLAPS

Messages == 1..Len(date)

\* The ranges a walk may read.
Ranges == {r \in [lo : Nat, hi : Nat] :
             1 <= r.lo /\ r.lo <= r.hi /\ Width(r) # AvoidWidth /\ Width(r) <= ChunkSize}

\* The ranges of s are contiguous and reach from lo up to hi ...
Up(s, lo, hi) ==
    /\ s \in Seq(Ranges)
    /\ s = <<>> => lo = hi + 1
    /\ s # <<>> => s[1].lo = lo /\ s[Len(s)].hi = hi
    /\ \A i \in 1..Len(s) : s[i].hi <= hi
    /\ \A i \in 1..(Len(s) - 1) : s[i + 1].lo = s[i].hi + 1

\* ... and downwards.
Down(s, lo, hi) ==
    /\ s \in Seq(Ranges)
    /\ s # <<>> => s[1].hi = hi /\ s[Len(s)].lo = lo
    /\ \A i \in 1..(Len(s) - 1) : s[i + 1].hi = s[i].lo - 1

Distinct(s) == \A i, j \in DOMAIN s : i # j => s[i] # s[j]

\* Mail: messages lie in the order of their dates, but for mis-dated ones.
MailOK ==
    /\ date \in Seq(Dates) /\ mbox \in Seq(Messages) /\ Distinct(mbox) /\ Len(mbox) <= Len(date)
    /\ gone \cap ToSet(mbox) = {} /\ gone \cup ToSet(mbox) = Messages
    /\ misdated \subseteq Messages /\ newest \in BOOLEAN /\ arrived \in Nat
    /\ \A m \in Messages \ misdated : date[m] # NoDate
    /\ \A i, j \in DOMAIN mbox : i < j /\ mbox[i] \notin misdated /\ mbox[j] \notin misdated =>
          IF newest THEN date[mbox[i]] >= date[mbox[j]] ELSE date[mbox[i]] <= date[mbox[j]]

InWindow == {m \in Messages : date[m] = In}
Kept == staged \cup ToSet(pending)

\* The records and the bookkeeping of the walk.
BookOK ==
    /\ {memo, blind, order, defaulted, edge, writeFailed, late, flushOK} \subseteq BOOLEAN
    /\ {total, limit, probeEnd, strikes, indexed, useless, tail} \subseteq Nat
    /\ pc \in {"count", "probe", "walk", "skip", "abort", "end"}
    /\ strikes <= (IF pc \in {"count", "probe"} THEN 1 ELSE IF pc = "walk" THEN 2 ELSE 3)
    /\ todo \in Seq(Ranges)
    /\ pc = "probe" => 1 <= probeEnd /\ probeEnd <= ChunkSize /\ probeEnd # AvoidWidth
    /\ defaulted => order

\* Batches hold messages of the window only; a full one is pending only after
\* a failed write, and the last flush leaves nothing, or reports an error.
BatchesOK ==
    /\ pending \in Seq(InWindow) /\ staged \subseteq InWindow /\ owed \subseteq InWindow
    /\ Len(pending) < BatchSize + ChunkSize
    /\ ~writeFailed => Len(pending) < BatchSize
    /\ pc \in {"count", "probe"} => pending = <<>> /\ staged = {} /\ indexed = 0 /\ ~edge /\ ~writeFailed
    /\ outcome \in {"none", "ok", "skip", "transport"} /\ (outcome = "none" <=> pc # "end")
    /\ pc = "end" => pending = <<>> \/ outcome = "transport"

\* What was pending when SIGTERM came is still pending, or staged.
HandlerOK ==
    /\ term \in {"none", "stopped", "flushed", "exit"}
    /\ term # "none" => owed \subseteq Kept
    /\ CancelStrandsNothing

\* The count of a mailbox is no more out of date than its arrivals.
CountOK ==
    /\ pc \in {"probe", "walk"} /\ blind => limit = Cap
    /\ pc = "probe" /\ blind => probeEnd <= FullProbe
    /\ pc = "probe" /\ ~blind =>
          total >= 1 /\ limit = Least(total, Cap) /\ probeEnd = ProbeRange(total, limit).hi
          /\ total <= Len(date)
    /\ pc \in {"probe", "walk"} /\ ~blind /\ (arrived = 0 \/ ~newest) =>
          \A p \in DOMAIN mbox :
             /\ p > total => date[mbox[p]] = Above
             /\ p > limit /\ Readable => date[mbox[p]] = Above

\* The hypotheses of NoHoles.
Good == Oriented /\ Readable /\ Anchored

\* A message of the window that the walk has not got yet.
Needed(m) == date[m] = In /\ m \notin misdated \cup Kept

\* A walk from position 1 up has what lies below its next range ...
UpPlan ==
    /\ todo # <<>> => Up(todo, Head(todo).lo, limit) /\ indexed < Head(todo).lo
    /\ \A p \in DOMAIN mbox : Needed(mbox[p]) => todo # <<>> /\ ~edge /\ p >= Head(todo).lo
    /\ order /\ ~newest /\ ~edge /\ indexed > 0 /\ todo # <<>> =>
          \E p \in DOMAIN mbox : p < Head(todo).lo /\ date[mbox[p]] = In

\* ... and one from the far end down what lies above.
DownPlan ==
    /\ todo # <<>> => Down(todo, 1, Head(todo).hi) /\ indexed + Head(todo).hi <= limit
    /\ \A p \in DOMAIN mbox : Needed(mbox[p]) => todo # <<>> /\ ~edge /\ p <= Head(todo).hi

PlanOK == pc = "walk" /\ Good => IF blind \/ order THEN UpPlan ELSE DownPlan

\* The inductive invariant.
IInv == MailOK /\ BookOK /\ BatchesOK /\ HandlerOK /\ CountOK /\ PlanOK /\ NoHoles

-----------------------------------------------------------------------------
\* Induction over the naturals, for a set: a part of Nat that has 0 and with
\* each number the next one is Nat.
LEMMA Induction ==
    ASSUME NEW T, 0 \in T, \A n \in Nat : n \in T => n + 1 \in T
    PROVE  Nat \subseteq T
  <1> DEFINE Less == OpToRel(<, Nat)
  <1>1. SUFFICES ASSUME Nat \ T # {}
                 PROVE  FALSE
    OBVIOUS
  <1>2. IsWellFoundedOn(Less, Nat)
    BY NatLessThanWellFounded
  <1>3. \A x, y \in Nat : y < x => <<y, x>> \in Less
    BY DEF OpToRel
  <1>4. \E x \in Nat \ T : \A y \in Nat \ T : ~ (<<y, x>> \in Less)
    <2> HIDE DEF Less
    <2>1. QED
      BY <1>1, <1>2, WFMin
  <1> HIDE DEF Less
  <1>5. PICK x \in Nat \ T : \A y \in Nat \ T : ~ (<<y, x>> \in Less)
    BY <1>4
  <1>6. x # 0 /\ x - 1 \in Nat /\ x - 1 < x
    BY <1>5
  <1>7. x - 1 \in T
    BY <1>3, <1>5, <1>6
  <1>8. x - 1 + 1 \in T
    BY <1>6, <1>7
  <1>9. QED
    BY <1>5, <1>6, <1>8

-----------------------------------------------------------------------------
(* scanChunk.                                                              *)

\* What a scan is after some rows.
Scans == [edge : BOOLEAN, stale : Nat, recs : Seq(Messages), useless : Nat, tail : Nat, mis : BOOLEAN]

FarDate(asc) == IF asc THEN Above ELSE Below

LEMMA ConstantFacts ==
    /\ Sizes \subseteq Nat /\ MaxOdd \in Nat /\ EdgeTolerance \in Nat /\ MisTail \in Nat /\ ZeroYield \in Nat
    /\ Cap \in Nat /\ Cap > 0 /\ BatchSize \in Nat /\ BatchSize >= ChunkSize
    /\ ChunkSize \in Nat /\ ChunkSize > 0 /\ AvoidWidth \in Nat /\ AvoidWidth > 1
    /\ (ChunkSize + 1) \div 2 < AvoidWidth
  BY MailWalkAssumption, WalkPlanAssumption

\* One row.
LEMMA ScanRowFacts ==
    ASSUME NEW s \in Scans, NEW m \in Messages, NEW d \in Dates, NEW asc \in BOOLEAN,
           indexed \in Nat
    PROVE  LET t == ScanRow(s, d, m, asc) IN
           /\ t \in Scans
           /\ s.edge => t = s
           /\ ~s.edge /\ d = In => ~t.edge /\ t.recs = Append(s.recs, m) /\ t.stale = s.stale
           /\ ~s.edge /\ d # In => t.recs = s.recs
           /\ ~s.edge /\ d = FarDate(asc) =>
                /\ t.edge => s.stale + 1 > EdgeTolerance
                /\ ~t.edge => t.stale = s.stale + 1
           /\ ~s.edge /\ d # FarDate(asc) => ~t.edge /\ t.stale = s.stale
  <1> DEFINE t == ScanRow(s, d, m, asc)
  <1>0. /\ s.edge \in BOOLEAN /\ s.stale \in Nat /\ s.recs \in Seq(Messages) /\ s.useless \in Nat
        /\ s.tail \in Nat /\ s.mis \in BOOLEAN /\ s.stale + 1 \in Nat /\ s.useless + 1 \in Nat /\ s.tail + 1 \in Nat
        /\ In # NoDate /\ In # FarDate(asc) /\ NoDate # FarDate(asc)
    BY DEF Scans, In, NoDate, FarDate, Above, Below
  <1>1. CASE s.edge
    BY <1>1 DEF ScanRow
  <1>2. CASE ~s.edge /\ d = NoDate
    <2>1. t = [s EXCEPT !.useless = @ + 1]
      BY <1>2 DEF ScanRow
    <2>2. QED
      BY <1>0, <1>2, <2>1 DEF Scans
  <1>3. CASE ~s.edge /\ d = In
    <2>1. Append(s.recs, m) \in Seq(Messages)
      BY <1>0
    <2>2. t = [s EXCEPT !.recs = Append(@, m), !.tail = 0]
      BY <1>0, <1>3 DEF ScanRow
    <2> DEFINE recs == Append(s.recs, m)
    <2>3. t = [s EXCEPT !.recs = recs, !.tail = 0]
      BY <2>2
    <2>4. recs \in Seq(Messages)
      BY <2>1
    <2> HIDE DEF t, recs
    <2>5. t \in Scans /\ t.edge = s.edge /\ t.recs = recs /\ t.stale = s.stale
      BY <1>0, <2>3, <2>4 DEF Scans
    <2>6. QED
      BY <1>0, <1>3, <2>5 DEF t, recs
  <1>4. CASE ~s.edge /\ d = FarDate(asc)
    <2>1. t = IF s.stale + 1 > EdgeTolerance THEN [s EXCEPT !.edge = TRUE]
              ELSE [s EXCEPT !.stale = @ + 1, !.useless = @ + 1]
      BY <1>0, <1>4 DEF ScanRow, FarDate
    <2>2. CASE s.stale + 1 > EdgeTolerance
      <3>1. t = [s EXCEPT !.edge = TRUE]
        BY <2>1, <2>2
      <3>2. t \in Scans /\ t.edge /\ t.recs = s.recs
        BY <1>0, <3>1 DEF Scans
      <3> HIDE DEF t
      <3>3. QED
        BY <1>0, <1>4, <2>2, <3>2 DEF t
    <2>3. CASE ~(s.stale + 1 > EdgeTolerance)
      <3>1. t = [s EXCEPT !.stale = @ + 1, !.useless = @ + 1]
        BY <2>1, <2>3
      <3>2. t \in Scans /\ t.edge = s.edge /\ t.recs = s.recs /\ t.stale = s.stale + 1
        BY <1>0, <3>1 DEF Scans
      <3> HIDE DEF t
      <3>3. QED
        BY <1>0, <1>4, <2>3, <3>2 DEF t
    <2>4. QED
      BY <2>2, <2>3
  <1>5. CASE ~s.edge /\ d \notin {NoDate, In, FarDate(asc)}
    <2>1. t = IF asc THEN [s EXCEPT !.useless = @ + 1]
              ELSE IF indexed > 0 \/ s.recs # <<>> THEN
                [s EXCEPT !.tail = @ + 1, !.mis = @ \/ s.tail + 1 > MisTail]
              ELSE s
      BY <1>5 DEF ScanRow, FarDate
    <2>2. t \in Scans /\ t.edge = s.edge /\ t.recs = s.recs /\ t.stale = s.stale
      <3>1. CASE t = [s EXCEPT !.useless = @ + 1]
        BY <1>0, <3>1 DEF Scans
      <3>2. CASE t = [s EXCEPT !.tail = @ + 1, !.mis = @ \/ s.tail + 1 > MisTail]
        <4> DEFINE mis == s.mis \/ s.tail + 1 > MisTail
        <4>1. mis \in BOOLEAN
          BY Zenon
        <4>2. t = [s EXCEPT !.tail = @ + 1, !.mis = mis]
          BY <3>2
        <4> HIDE DEF mis, t
        <4>3. QED
          BY <1>0, <4>1, <4>2 DEF Scans
      <3>3. QED
        BY <2>1, <3>1, <3>2
    <2> HIDE DEF t
    <2>3. QED
      BY <1>0, <1>5, <2>2 DEF t
  <1>6. QED
    BY <1>1, <1>2, <1>3, <1>4, <1>5

\* The scan after each row, by recursion over them.
ScanStart == [edge |-> FALSE, stale |-> 0, recs |-> <<>>, useless |-> useless, tail |-> tail, mis |-> FALSE]
ScanAt(f, rows, asc, i) == IF i = 0 THEN ScanStart ELSE ScanRow(f[i - 1], date[rows[i]], rows[i], asc)
IsScanOf(f, rows, asc, n) == f = [i \in 0..n |-> ScanAt(f, rows, asc, i)]

LEMMA ScanIsDefined ==
    ASSUME NEW S, NEW rows \in Seq(S), NEW asc
    PROVE  \E f : IsScanOf(f, rows, asc, Len(rows)) /\ Scan(rows, asc) = f[Len(rows)]
  <1> DEFINE T == {n \in Nat : \E f : IsScanOf(f, rows, asc, n)}
  <1>1. 0 \in T
    <2>1. IsScanOf([i \in 0..0 |-> ScanStart], rows, asc, 0)
      BY DEF IsScanOf, ScanAt
    <2>2. QED
      BY <2>1
  <1>2. ASSUME NEW n \in Nat, n \in T
        PROVE  n + 1 \in T
    <2>1. PICK f : IsScanOf(f, rows, asc, n)
      BY <1>2
    <2> DEFINE g == [i \in 0..(n + 1) |-> ScanAt(f, rows, asc, i)]
    <2>2. \A i \in 0..n : g[i] = f[i]
      BY <2>1 DEF IsScanOf
    <2>3. \A i \in 0..(n + 1) : ScanAt(f, rows, asc, i) = ScanAt(g, rows, asc, i)
      <3> HIDE DEF g
      <3>1. \A i \in 0..(n + 1) : i # 0 => i - 1 \in 0..n
        OBVIOUS
      <3>2. QED
        BY <2>2, <3>1 DEF ScanAt
    <2>4. IsScanOf(g, rows, asc, n + 1)
      <3>1. [i \in 0..(n + 1) |-> ScanAt(f, rows, asc, i)] = [i \in 0..(n + 1) |-> ScanAt(g, rows, asc, i)]
        <4> HIDE DEF g
        <4>1. QED
          BY <2>3
      <3>2. QED
        BY <3>1 DEF IsScanOf
    <2>5. QED
      BY <2>4
  <1>3. Len(rows) \in Nat /\ Nat \subseteq T
    <2> HIDE DEF T
    <2>1. QED
      BY <1>1, <1>2, Induction, LenProperties
  <1>4. \E f : IsScanOf(f, rows, asc, Len(rows))
    BY <1>3
  <1> DEFINE h == CHOOSE f : IsScanOf(f, rows, asc, Len(rows))
  <1>5. Scan(rows, asc) = h[Len(rows)]
    BY DEF Scan, IsScanOf, ScanAt, ScanStart
  <1>6. QED
    BY <1>4, <1>5

\* The messages of one date among the first k rows.
Dated(rows, d, k) == {rows[j] : j \in {i \in 1..k : date[rows[i]] = d}}

LEMMA DatedGrows ==
    ASSUME NEW rows, NEW d, NEW k \in Nat
    PROVE  Dated(rows, d, k + 1) = Dated(rows, d, k) \cup (IF date[rows[k + 1]] = d THEN {rows[k + 1]} ELSE {})
  <1>1. 1..(k + 1) = 1..k \cup {k + 1}
    OBVIOUS
  <1>2. QED
    BY <1>1 DEF Dated

LEMMA DatedIsFinite ==
    ASSUME NEW rows, NEW d, NEW k \in Nat
    PROVE  IsFiniteSet(Dated(rows, d, k)) /\ Cardinality(Dated(rows, d, k)) \in Nat
  <1> DEFINE Row(j) == rows[j]
             J == {i \in 1..k : date[rows[i]] = d}
  <1>1. IsFiniteSet(J)
    BY FS_Interval, FS_Subset, 1 \in Int, k \in Int
  <1>2. IsFiniteSet({rows[j] : j \in J})
    <2> HIDE DEF J
    <2> DEFINE f == [j \in J |-> rows[j]]
    <2>1. f \in Surjection(J, {rows[j] : j \in J})
      BY DEF Surjection
    <2>2. QED
      BY <1>1, <2>1, FS_Surjection
  <1>3. QED
    BY <1>2, FS_CardinalityType DEF Dated

LEMMA ToSetAppend ==
    ASSUME NEW S, NEW s \in Seq(S), NEW m \in S
    PROVE  ToSet(Append(s, m)) = ToSet(s) \cup {m}
  <1>1. Len(s) \in Nat /\ DOMAIN s = 1..Len(s) /\ DOMAIN Append(s, m) = 1..(Len(s) + 1)
    BY LenProperties, AppendProperties
  <1>2. \A i \in 1..Len(s) : Append(s, m)[i] = s[i]
    BY AppendProperties
  <1>3. Append(s, m)[Len(s) + 1] = m
    BY AppendProperties
  <1>4. QED
    BY <1>1, <1>2, <1>3 DEF ToSet

\* What scanChunk starts from.
ScanTyped ==
    /\ date \in Seq(Dates) /\ indexed \in Nat /\ useless \in Nat /\ tail \in Nat

\* What a scan collects: every message in the window, up to the edge if it
\* crossed one; and it does so at a row beyond the window, with more rows
\* there than are tolerated.
ScanGood(s, rows, asc, n) ==
    /\ s \in Scans /\ Len(s.recs) <= n
    /\ ~s.edge => ToSet(s.recs) = Dated(rows, In, n) /\ s.stale = Cardinality(Dated(rows, FarDate(asc), n))
    /\ s.edge => \E k \in 1..n :
         /\ date[rows[k]] = FarDate(asc) /\ ToSet(s.recs) = Dated(rows, In, k)
         /\ Cardinality(Dated(rows, FarDate(asc), k)) > EdgeTolerance

LEMMA ScanStartGood ==
    ASSUME ScanTyped, NEW rows, NEW asc
    PROVE  ScanGood(ScanStart, rows, asc, 0)
  <1>1. \A d : Dated(rows, d, 0) = {}
    BY DEF Dated
  <1>2. ToSet(<<>>) = {} /\ Len(<<>>) = 0 /\ <<>> \in Seq(Messages)
    BY DEF ToSet
  <1>3. Cardinality({}) = 0
    BY FS_EmptySet
  <1>4. ScanStart \in Scans
    BY <1>2 DEF ScanStart, Scans, ScanTyped
  <1>5. ScanStart.edge = FALSE /\ ScanStart.recs = <<>> /\ ScanStart.stale = 0
    BY DEF ScanStart
  <1> HIDE DEF ScanStart
  <1>6. Dated(rows, In, 0) = {} /\ Dated(rows, FarDate(asc), 0) = {}
    BY <1>1
  <1>7. Len(ScanStart.recs) <= 0 /\ ToSet(ScanStart.recs) = Dated(rows, In, 0)
    BY <1>2, <1>5, <1>6
  <1>8. ScanStart.stale = Cardinality(Dated(rows, FarDate(asc), 0)) /\ ~ScanStart.edge
    BY <1>3, <1>5, <1>6
  <1>9. QED
    BY <1>4, <1>7, <1>8 DEF ScanGood

LEMMA ScanStepGood ==
    ASSUME ScanTyped, NEW rows \in Seq(Messages), Distinct(rows), NEW asc \in BOOLEAN,
           NEW n \in Nat, n + 1 <= Len(rows), NEW s, ScanGood(s, rows, asc, n)
    PROVE  ScanGood(ScanRow(s, date[rows[n + 1]], rows[n + 1], asc), rows, asc, n + 1)
  <1> DEFINE m == rows[n + 1]
             d == date[m]
             t == ScanRow(s, d, m, asc)
             Far == FarDate(asc)
  <1>1. m \in Messages /\ d \in Dates /\ s \in Scans /\ indexed \in Nat
    <2>1. n + 1 \in 1..Len(rows) /\ DOMAIN rows = 1..Len(rows)
      BY LenProperties
    <2>2. m \in Messages
      BY <2>1, ElementOfSeq
    <2>3. QED
      BY <2>2, ElementOfSeq, LenProperties DEF ScanTyped, Messages, ScanGood
  <1>2. /\ t \in Scans
        /\ s.edge => t = s
        /\ ~s.edge /\ d = In => ~t.edge /\ t.recs = Append(s.recs, m) /\ t.stale = s.stale
        /\ ~s.edge /\ d # In => t.recs = s.recs
        /\ ~s.edge /\ d = Far => (t.edge => s.stale + 1 > EdgeTolerance) /\ (~t.edge => t.stale = s.stale + 1)
        /\ ~s.edge /\ d # Far => ~t.edge /\ t.stale = s.stale
    <2> HIDE DEF m, d
    <2>1. QED
      BY <1>1, ScanRowFacts
  <1>3. In # Far /\ s.recs \in Seq(Messages) /\ Len(s.recs) \in Nat /\ s.edge \in BOOLEAN /\ t.edge \in BOOLEAN
        /\ Len(s.recs) <= n /\ n + 1 \in 1..(n + 1)
    BY <1>1, <1>2, LenProperties DEF In, FarDate, Above, Below, Scans, ScanGood
  <1>4. /\ Dated(rows, In, n + 1) = Dated(rows, In, n) \cup (IF d = In THEN {m} ELSE {})
        /\ Dated(rows, Far, n + 1) = Dated(rows, Far, n) \cup (IF d = Far THEN {m} ELSE {})
    BY DatedGrows
  <1>5. d = Far => Cardinality(Dated(rows, Far, n + 1)) = Cardinality(Dated(rows, Far, n)) + 1
    <2>1. m \notin Dated(rows, Far, n)
      <3>1. \A j \in 1..n : rows[j] # m
        BY LenProperties DEF Distinct
      <3> HIDE DEF m
      <3>2. QED
        BY <3>1 DEF Dated
    <2>2. QED
      BY <1>4, <2>1, DatedIsFinite, FS_AddElement
  <1> HIDE DEF t, d, m, Far
  <1>6. CASE s.edge
    <2>1. PICK k \in 1..n :
            /\ date[rows[k]] = Far /\ ToSet(s.recs) = Dated(rows, In, k)
            /\ Cardinality(Dated(rows, Far, k)) > EdgeTolerance
      BY <1>6 DEF ScanGood, Far
    <2>2. t = s /\ k \in 1..(n + 1) /\ Len(s.recs) <= n + 1
      BY <1>2, <1>3, <1>6
    <2>3. ScanGood(t, rows, asc, n + 1)
      BY <1>1, <1>6, <2>1, <2>2 DEF ScanGood, Far
    <2>4. QED
      BY <2>3 DEF t, d, m
  <1>7. CASE ~s.edge
    <2>1. ToSet(s.recs) = Dated(rows, In, n) /\ s.stale = Cardinality(Dated(rows, Far, n))
      BY <1>7 DEF ScanGood, Far
    <2>2. ToSet(t.recs) = Dated(rows, In, n + 1) /\ Len(t.recs) <= n + 1
      <3>1. CASE d = In
        <4>1. t.recs = Append(s.recs, m) /\ m \in Messages /\ s.recs \in Seq(Messages)
          BY <1>1, <1>2, <1>3, <1>7, <3>1
        <4> HIDE DEF Messages
        <4>a. Len(t.recs) = Len(s.recs) + 1
          BY <4>1, AppendProperties
        <4>b. ToSet(t.recs) = ToSet(s.recs) \cup {m}
          BY <4>1, ToSetAppend
        <4>2. QED
          BY <1>3, <1>4, <2>1, <3>1, <4>a, <4>b
      <3>2. CASE d # In
        <4>1. t.recs = s.recs
          BY <1>2, <1>7, <3>2
        <4>2. Dated(rows, In, n + 1) = Dated(rows, In, n)
          BY <1>4, <3>2
        <4>3. QED
          BY <1>3, <2>1, <4>1, <4>2
      <3>3. QED
        BY <3>1, <3>2
    <2>3. ~t.edge => t.stale = Cardinality(Dated(rows, Far, n + 1))
      BY <1>2, <1>4, <1>5, <1>7, <2>1
    <2>4. t.edge => d = Far /\ Cardinality(Dated(rows, Far, n + 1)) > EdgeTolerance
      BY <1>2, <1>5, <1>7, <2>1
    <2>5. ScanGood(t, rows, asc, n + 1)
      <3>1. d = date[rows[n + 1]]
        BY DEF d, m
      <3>2. QED
        BY <1>2, <1>3, <2>2, <2>3, <2>4, <3>1 DEF ScanGood, Far
    <2>6. QED
      BY <2>5 DEF t, d, m
  <1>8. QED
    BY <1>3, <1>6, <1>7

\* scanChunk collects what it should: without an edge every row of the window,
\* with one those before the edge, which is beyond the window.
THEOREM ScanIsGood ==
    ASSUME ScanTyped, NEW rows \in Seq(Messages), Distinct(rows), NEW asc \in BOOLEAN
    PROVE  ScanGood(Scan(rows, asc), rows, asc, Len(rows))
  <1>1. PICK f : IsScanOf(f, rows, asc, Len(rows)) /\ Scan(rows, asc) = f[Len(rows)]
    BY ScanIsDefined
  <1>2. Len(rows) \in Nat
    BY LenProperties
  <1> DEFINE T == {n \in Nat : n <= Len(rows) => ScanGood(f[n], rows, asc, n)}
  <1>3. \A i \in 0..Len(rows) : f[i] = ScanAt(f, rows, asc, i)
    BY <1>1 DEF IsScanOf
  <1>4. 0 \in T
    <2>1. f[0] = ScanStart
      BY <1>2, <1>3 DEF ScanAt
    <2>2. QED
      BY <2>1, ScanStartGood
  <1>5. ASSUME NEW n \in Nat, n \in T
        PROVE  n + 1 \in T
    <2>1. SUFFICES ASSUME n + 1 <= Len(rows)
                   PROVE  ScanGood(f[n + 1], rows, asc, n + 1)
      OBVIOUS
    <2>2. ScanGood(f[n], rows, asc, n)
      BY <1>2, <1>5, <2>1
    <2>3. f[n + 1] = ScanRow(f[n], date[rows[n + 1]], rows[n + 1], asc)
      <3>1. n + 1 \in 0..Len(rows) /\ n + 1 # 0 /\ (n + 1) - 1 = n
        BY <1>2, <2>1
      <3>2. QED
        BY <1>3, <3>1 DEF ScanAt
    <2>4. QED
      BY <2>1, <2>2, <2>3, ScanStepGood
  <1> HIDE DEF T
  <1>6. Len(rows) \in T
    BY <1>2, <1>4, <1>5, Induction
  <1>7. QED
    BY <1>1, <1>2, <1>6 DEF T

-----------------------------------------------------------------------------
(* walkPlan and halve.                                                     *)

LEMMA RangeFacts ==
    ASSUME NEW r \in Ranges
    PROVE  /\ r.lo \in Nat /\ r.hi \in Nat /\ 1 <= r.lo /\ r.lo <= r.hi
           /\ Width(r) = r.hi - r.lo + 1 /\ Width(r) \in Nat /\ Width(r) # AvoidWidth /\ Width(r) <= ChunkSize
  BY DEF Ranges, Width

LEMMA PieceIsRange ==
    ASSUME NEW lo \in Nat, NEW hi \in Nat, 1 <= lo, lo <= hi, hi - lo + 1 # AvoidWidth, hi - lo + 1 <= ChunkSize
    PROVE  Piece(lo, hi) \in Ranges /\ Piece(lo, hi).lo = lo /\ Piece(lo, hi).hi = hi
  BY DEF Piece, Ranges, Width

LEMMA UpSingle ==
    ASSUME NEW r \in Ranges
    PROVE  Up(<<r>>, r.lo, r.hi)
  <1>1. <<r>> \in Seq(Ranges) /\ Len(<<r>>) = 1 /\ <<r>>[1] = r /\ <<r>> # <<>>
    OBVIOUS
  <1>2. r.hi \in Nat /\ r.hi <= r.hi
    BY RangeFacts
  <1>3. \A i \in 1..1 : i = 1
    OBVIOUS
  <1>4. QED
    BY <1>1, <1>2, <1>3 DEF Up

LEMMA UpConcat ==
    ASSUME NEW a \in Nat, NEW b \in Nat, NEW c \in Nat, b <= c, NEW s, NEW t,
           Up(s, a, b), Up(t, b + 1, c)
    PROVE  Up(s \o t, a, c)
  <1> DEFINE u == s \o t
  <1>1. s \in Seq(Ranges) /\ t \in Seq(Ranges) /\ Len(s) \in Nat /\ Len(t) \in Nat
    BY LenProperties DEF Up
  <1>2. /\ u \in Seq(Ranges) /\ Len(u) = Len(s) + Len(t)
        /\ \A i \in 1..Len(u) : u[i] = IF i <= Len(s) THEN s[i] ELSE t[i - Len(s)]
    BY <1>1, ConcatProperties
  <1>3. (s = <<>> <=> Len(s) = 0) /\ (t = <<>> <=> Len(t) = 0) /\ (u = <<>> <=> Len(u) = 0)
    BY <1>1, <1>2, EmptySeq
  <1>4. \A i \in 1..Len(s) : s[i] \in Ranges /\ s[i].hi \in Nat /\ s[i].hi <= b
    BY <1>1, ElementOfSeq, RangeFacts DEF Up
  <1>5. \A i \in 1..Len(t) : t[i] \in Ranges /\ t[i].hi \in Nat /\ t[i].hi <= c
    BY <1>1, ElementOfSeq, RangeFacts DEF Up
  <1> HIDE DEF u
  <1>6. \A i \in 1..Len(s) : u[i] = s[i]
    BY <1>1, <1>2
  <1>7. \A i \in 1..Len(t) : u[Len(s) + i] = t[i]
    <2>1. TAKE i \in 1..Len(t)
    <2>2. Len(s) + i \in 1..Len(u) /\ ~ (Len(s) + i <= Len(s)) /\ (Len(s) + i) - Len(s) = i
      BY <1>1, <1>2
    <2>3. QED
      BY <1>2, <2>2
  <1>8. u = <<>> => a = c + 1
    BY <1>1, <1>2, <1>3 DEF Up
  <1>9. ASSUME u # <<>>
        PROVE  u[1].lo = a /\ u[Len(u)].hi = c
    <2>1. CASE s = <<>> /\ t # <<>>
      <3>1. Len(s) = 0 /\ Len(t) >= 1 /\ a = b + 1 /\ Len(u) = Len(t)
        BY <1>1, <1>2, <1>3, <2>1 DEF Up
      <3>2. u[1] = t[1] /\ u[Len(u)] = t[Len(t)]
        BY <1>1, <1>7, <3>1
      <3>3. QED
        BY <2>1, <3>1, <3>2 DEF Up
    <2>2. CASE s # <<>> /\ t = <<>>
      <3>1. Len(t) = 0 /\ Len(s) >= 1 /\ b + 1 = c + 1 /\ Len(u) = Len(s)
        BY <1>1, <1>2, <1>3, <2>2 DEF Up
      <3>2. u[1] = s[1] /\ u[Len(u)] = s[Len(s)]
        BY <1>1, <1>6, <3>1
      <3>3. QED
        BY <2>2, <3>1, <3>2 DEF Up
    <2>3. CASE s # <<>> /\ t # <<>>
      <3>1. Len(s) >= 1 /\ Len(t) >= 1
        BY <1>1, <1>3, <2>3
      <3>2. u[1] = s[1] /\ u[Len(u)] = t[Len(t)]
        BY <1>1, <1>2, <1>6, <1>7, <3>1
      <3>3. QED
        BY <2>3, <3>2 DEF Up
    <2>4. QED
      BY <1>1, <1>2, <1>3, <1>9, <2>1, <2>2, <2>3
  <1>10. \A i \in 1..Len(u) : u[i].hi <= c
    <2>1. TAKE i \in 1..Len(u)
    <2>2. CASE i <= Len(s)
      BY <1>1, <1>2, <1>4, <1>6, <2>2
    <2>3. CASE i > Len(s)
      <3>1. i - Len(s) \in 1..Len(t) /\ i = Len(s) + (i - Len(s))
        BY <1>1, <1>2, <2>3
      <3>2. QED
        BY <1>5, <1>7, <3>1
    <2>4. QED
      BY <1>1, <2>2, <2>3
  <1>11. \A i \in 1..(Len(u) - 1) : u[i + 1].lo = u[i].hi + 1
    <2>1. TAKE i \in 1..(Len(u) - 1)
    <2>2. CASE i < Len(s)
      <3>1. i \in 1..(Len(s) - 1) /\ i \in 1..Len(s) /\ i + 1 \in 1..Len(s)
        BY <1>1, <2>2
      <3>2. s[i + 1].lo = s[i].hi + 1
        BY <3>1 DEF Up
      <3>3. QED
        BY <1>6, <3>1, <3>2
    <2>3. CASE i = Len(s)
      <3>1. s # <<>> /\ t # <<>> /\ i \in 1..Len(s) /\ 1 \in 1..Len(t)
        BY <1>1, <1>2, <1>3, <2>3
      <3>2. u[i] = s[Len(s)] /\ u[i + 1] = t[1]
        BY <1>6, <1>7, <2>3, <3>1
      <3>3. QED
        BY <3>1, <3>2 DEF Up
    <2>4. CASE i > Len(s)
      <3> DEFINE j == i - Len(s)
      <3>1. j \in 1..(Len(t) - 1) /\ j \in 1..Len(t) /\ j + 1 \in 1..Len(t)
        BY <1>1, <1>2, <2>4
      <3>2. i = Len(s) + j /\ i + 1 = Len(s) + (j + 1)
        BY <1>1, <1>2, <2>4
      <3> HIDE DEF j
      <3>3. t[j + 1].lo = t[j].hi + 1
        BY <3>1 DEF Up
      <3>4. u[i] = t[j] /\ u[i + 1] = t[j + 1]
        BY <1>7, <3>1, <3>2
      <3>5. QED
        BY <3>3, <3>4
    <2>5. QED
      BY <1>1, <2>2, <2>3, <2>4
  <1>12. QED
    BY <1>2, <1>8, <1>9, <1>10, <1>11 DEF Up, u

LEMMA UpTail ==
    ASSUME NEW a, NEW b \in Nat, NEW s, Up(s, a, b), s # <<>>
    PROVE  Up(Tail(s), Head(s).hi + 1, b)
  <1> DEFINE t == Tail(s)
  <1>1. s \in Seq(Ranges) /\ Len(s) \in Nat /\ Len(s) >= 1
    BY LenProperties, EmptySeq DEF Up
  <1>2. /\ t \in Seq(Ranges) /\ Len(t) = Len(s) - 1 /\ Head(s) = s[1]
        /\ \A i \in 1..Len(t) : t[i] = s[i + 1]
    BY <1>1, HeadTailProperties DEF Up
  <1>3. t = <<>> <=> Len(s) = 1
    <2>1. t = <<>> <=> Len(t) = 0
      BY <1>2, EmptySeq
    <2>2. QED
      BY <1>1, <1>2, <2>1
  <1> HIDE DEF t
  <1>4. s[Len(s)].hi = b
    BY DEF Up
  <1>5. t # <<>> => t[1] = s[2] /\ s[2].lo = s[1].hi + 1 /\ t[Len(t)] = s[Len(s)]
    <2>1. ASSUME t # <<>>
          PROVE  Len(s) >= 2 /\ 1 \in 1..(Len(s) - 1) /\ 1 \in 1..Len(t) /\ Len(t) \in 1..Len(t)
      BY <1>1, <1>2, <1>3, <2>1
    <2>2. QED
      BY <1>1, <1>2, <2>1 DEF Up
  <1>6. \A i \in 1..Len(t) : i + 1 \in 1..Len(s)
    BY <1>1, <1>2
  <1>7. \A i \in 1..Len(t) : t[i].hi <= b
    BY <1>2, <1>6 DEF Up
  <1>8. \A i \in 1..(Len(t) - 1) : t[i + 1].lo = t[i].hi + 1
    <2>1. TAKE i \in 1..(Len(t) - 1)
    <2>2. i \in 1..Len(t) /\ i + 1 \in 1..Len(t) /\ i + 1 \in 1..(Len(s) - 1)
      BY <1>1, <1>2
    <2>3. s[(i + 1) + 1].lo = s[i + 1].hi + 1
      BY <2>2 DEF Up
    <2>4. QED
      BY <1>2, <2>2, <2>3
  <1>9. QED
    BY <1>2, <1>3, <1>4, <1>5, <1>7, <1>8 DEF Up, t

LEMMA DownTail ==
    ASSUME NEW a, NEW b, NEW s, Down(s, a, b), s # <<>>
    PROVE  /\ Down(Tail(s), a, Head(s).lo - 1) /\ Tail(s) \in Seq(Ranges)
           /\ Tail(s) = <<>> => Head(s).lo = a
  <1> DEFINE t == Tail(s)
  <1>1. s \in Seq(Ranges) /\ Len(s) \in Nat /\ Len(s) >= 1
    BY LenProperties, EmptySeq DEF Down
  <1>2. /\ t \in Seq(Ranges) /\ Len(t) = Len(s) - 1 /\ Head(s) = s[1]
        /\ \A i \in 1..Len(t) : t[i] = s[i + 1]
    BY <1>1, HeadTailProperties DEF Down
  <1>3. t = <<>> <=> Len(s) = 1
    <2>1. t = <<>> <=> Len(t) = 0
      BY <1>2, EmptySeq
    <2>2. QED
      BY <1>1, <1>2, <2>1
  <1> HIDE DEF t
  <1>4. s[Len(s)].lo = a
    BY DEF Down
  <1>5. t # <<>> => t[1] = s[2] /\ s[2].hi = s[1].lo - 1 /\ t[Len(t)] = s[Len(s)]
    <2>1. ASSUME t # <<>>
          PROVE  Len(s) >= 2 /\ 1 \in 1..(Len(s) - 1) /\ 1 \in 1..Len(t) /\ Len(t) \in 1..Len(t)
      BY <1>1, <1>2, <1>3, <2>1
    <2>2. QED
      BY <1>1, <1>2, <2>1 DEF Down
  <1>6. \A i \in 1..(Len(t) - 1) : t[i + 1].hi = t[i].lo - 1
    <2>1. TAKE i \in 1..(Len(t) - 1)
    <2>2. i \in 1..Len(t) /\ i + 1 \in 1..Len(t) /\ i + 1 \in 1..(Len(s) - 1)
      BY <1>1, <1>2
    <2>3. s[(i + 1) + 1].hi = s[i + 1].lo - 1
      BY <2>2 DEF Down
    <2>4. QED
      BY <1>2, <2>2, <2>3
  <1>7. QED
    BY <1>2, <1>3, <1>4, <1>5, <1>6 DEF Down, t

\* A range cut in two, though it may not be read as it is.
LEMMA HalvesAreUp ==
    ASSUME NEW lo \in Nat, NEW hi \in Nat, 1 <= lo, lo < hi, hi - lo + 1 <= ChunkSize
    PROVE  Up(Halves(Piece(lo, hi)), lo, hi) /\ Halves(Piece(lo, hi)) # <<>>
  <1> DEFINE h == (hi - lo + 1) \div 2
  <1>1. h \in Nat /\ 1 <= h /\ h < AvoidWidth /\ lo + h - 1 < hi /\ hi - (lo + h) + 1 < AvoidWidth
    BY ConstantFacts, MailWalkAssumption
  <1>2. Lower(Piece(lo, hi)) = Piece(lo, lo + h - 1) /\ Upper(Piece(lo, hi)) = Piece(lo + h, hi)
    BY DEF Lower, Upper, Piece, Width
  <1> DEFINE a == Piece(lo, lo + h - 1)
             b == Piece(lo + h, hi)
  <1>3. lo + h - 1 \in Nat /\ lo + h \in Nat /\ lo <= lo + h - 1 /\ lo + h <= hi
        /\ (lo + h - 1) - lo + 1 = h /\ 1 <= lo + h /\ (lo + h - 1) + 1 = lo + h
        /\ h # AvoidWidth /\ h <= ChunkSize /\ hi - (lo + h) + 1 # AvoidWidth /\ hi - (lo + h) + 1 <= ChunkSize
    BY <1>1, ConstantFacts
  <1> HIDE DEF h
  <1>4. a \in Ranges /\ a.lo = lo /\ a.hi = lo + h - 1
    BY <1>3, PieceIsRange
  <1>5. b \in Ranges /\ b.lo = lo + h /\ b.hi = hi
    BY <1>3, PieceIsRange
  <1> HIDE DEF a, b
  <1>6. Up(<<a>>, lo, lo + h - 1) /\ Up(<<b>>, (lo + h - 1) + 1, hi)
    BY <1>3, <1>4, <1>5, UpSingle
  <1>7. Up(<<a>> \o <<b>>, lo, hi)
    <2> DEFINE k == lo + h - 1
    <2>1. k \in Nat /\ k <= hi /\ Up(<<a>>, lo, k) /\ Up(<<b>>, k + 1, hi)
      BY <1>3, <1>6
    <2> HIDE DEF k
    <2>2. QED
      BY <2>1, UpConcat
  <1>8. <<a>> \o <<b>> = <<a, b>>
    <2>1. <<a>> \in Seq(Ranges) /\ Len(<<a>>) = 1 /\ <<a>>[1] = a /\ <<b>> \in Seq(Ranges) /\ Len(<<b>>) = 1 /\ <<b>>[1] = b
      BY <1>4, <1>5
    <2>2. <<a, b>> \in Seq(Ranges) /\ Len(<<a, b>>) = 2 /\ <<a, b>>[1] = a /\ <<a, b>>[2] = b
      BY <1>4, <1>5
    <2> DEFINE u == <<a>> \o <<b>>
               v == <<a, b>>
    <2>3. u \in Seq(Ranges) /\ Len(u) = 2 /\ u[1] = a /\ u[2] = b
      BY <2>1, ConcatProperties
    <2>4. v \in Seq(Ranges) /\ Len(v) = 2 /\ v[1] = a /\ v[2] = b
      BY <2>2
    <2> HIDE DEF u, v
    <2>5. \A i \in 1..2 : u[i] = v[i]
      BY <2>3, <2>4
    <2>6. u = v
      BY <2>3, <2>4, <2>5, SeqEqual
    <2>7. QED
      BY <2>6 DEF u, v
  <1>9. QED
    BY <1>2, <1>7, <1>8 DEF Halves, a, b

LEMMA PieceEndFacts ==
    ASSUME NEW s \in Nat, NEW end \in Nat, 1 <= s, s <= end
    PROVE  /\ PieceEnd(s, end) \in Nat /\ s <= PieceEnd(s, end) /\ PieceEnd(s, end) <= end
           /\ PieceEnd(s, end) - s + 1 # AvoidWidth /\ PieceEnd(s, end) - s + 1 <= ChunkSize
  <1> DEFINE e == Least(s + ChunkSize - 1, end)
  <1>1. e \in Nat /\ s <= e /\ e <= end /\ e - s + 1 <= ChunkSize
    BY ConstantFacts DEF Least
  <1>2. PieceEnd(s, end) = IF e - s + 1 = AvoidWidth THEN e - 1 ELSE e
    BY DEF PieceEnd
  <1> HIDE DEF e
  <1>3. QED
    BY <1>1, <1>2, ConstantFacts

\* The recursion of walkPlan.
CutAt(f, s, end) == IF s > end THEN <<>> ELSE <<Piece(s, PieceEnd(s, end))>> \o f[PieceEnd(s, end) + 1]
IsCut(f, start, end) == f = [s \in start..(end + 1) |-> CutAt(f, s, end)]

LEMMA CutIsDefined ==
    ASSUME NEW start \in Nat, NEW end \in Nat, 1 <= start, start <= end
    PROVE  \E f : IsCut(f, start, end) /\ Cut(start, end) = f[start]
  <1> DEFINE T == {n \in Nat : n <= end => \E f : IsCut(f, end + 1 - n, end)}
  <1>1. 0 \in T
    <2>1. IsCut([s \in (end + 1)..(end + 1) |-> <<>>], end + 1, end)
      BY DEF IsCut, CutAt
    <2>2. end + 1 - 0 = end + 1
      OBVIOUS
    <2>3. QED
      BY <2>1, <2>2
  <1>2. ASSUME NEW n \in Nat, n \in T
        PROVE  n + 1 \in T
    <2>1. SUFFICES ASSUME n + 1 <= end
                   PROVE  \E f : IsCut(f, end + 1 - (n + 1), end)
      OBVIOUS
    <2> DEFINE a == end - n
    <2>2. a \in Nat /\ 1 <= a /\ a <= end /\ end + 1 - n = a + 1 /\ end + 1 - (n + 1) = a
      BY <2>1
    <2> HIDE DEF a
    <2>3. PICK f : IsCut(f, a + 1, end)
      BY <1>2, <2>1, <2>2
    <2> DEFINE g == [s \in a..(end + 1) |-> CutAt(f, s, end)]
    <2>4. \A s \in (a + 1)..(end + 1) : g[s] = f[s]
      <3>1. \A s \in (a + 1)..(end + 1) : s \in a..(end + 1)
        BY <2>2
      <3>2. QED
        BY <2>3, <3>1 DEF IsCut
    <2>5. \A s \in a..(end + 1) : s <= end => PieceEnd(s, end) + 1 \in (a + 1)..(end + 1)
      <3>1. TAKE s \in a..(end + 1)
      <3>2. HAVE s <= end
      <3>3. PieceEnd(s, end) \in Nat /\ s <= PieceEnd(s, end) /\ PieceEnd(s, end) <= end
        BY <2>2, <3>2, PieceEndFacts
      <3>4. QED
        BY <2>2, <3>3
    <2>6. \A s \in a..(end + 1) : CutAt(f, s, end) = CutAt(g, s, end)
      <3> HIDE DEF g
      <3>1. \A s \in a..(end + 1) : s > end \/ s <= end
        BY <2>2
      <3>2. QED
        BY <2>4, <2>5, <3>1 DEF CutAt
    <2>7. [s \in a..(end + 1) |-> CutAt(f, s, end)] = [s \in a..(end + 1) |-> CutAt(g, s, end)]
      <3> HIDE DEF g
      <3>1. QED
        BY <2>6
    <2>8. IsCut(g, a, end)
      BY <2>7 DEF IsCut
    <2>9. QED
      BY <2>2, <2>8
  <1>3. end + 1 - start \in Nat /\ end + 1 - start <= end /\ end + 1 - (end + 1 - start) = start
    OBVIOUS
  <1>4. Nat \subseteq T
    <2> HIDE DEF T
    <2>1. QED
      BY <1>1, <1>2, Induction
  <1>5. \E f : IsCut(f, start, end)
    BY <1>3, <1>4
  <1> DEFINE h == CHOOSE f : IsCut(f, start, end)
  <1>6. Cut(start, end) = h[start]
    BY DEF Cut, IsCut, CutAt
  <1>7. QED
    BY <1>5, <1>6

\* walkPlan leaves no gap: its ranges are contiguous, reach from the first
\* position to the last, and none is too wide or of the width that reads both
\* ways.
THEOREM PlanIsContiguous ==
    ASSUME NEW start \in Nat, NEW end \in Nat, 1 <= start, start <= end
    PROVE  Up(Cut(start, end), start, end) /\ Cut(start, end) # <<>>
           /\ Head(Cut(start, end)) = Piece(start, PieceEnd(start, end))
  <1>1. PICK f : IsCut(f, start, end) /\ Cut(start, end) = f[start]
    BY CutIsDefined
  <1>2. \A s \in start..(end + 1) : f[s] = CutAt(f, s, end)
    BY <1>1 DEF IsCut
  <1> DEFINE T == {n \in Nat : \A s \in start..(end + 1) : end + 1 - s <= n => Up(f[s], s, end)}
  <1>3. Up(<<>>, end + 1, end)
    BY DEF Up
  <1>4. 0 \in T
    <2>1. \A s \in start..(end + 1) : end + 1 - s <= 0 => s = end + 1 /\ s > end
      OBVIOUS
    <2>2. QED
      BY <1>2, <1>3, <2>1 DEF CutAt
  <1>5. ASSUME NEW n \in Nat, n \in T
        PROVE  n + 1 \in T
    <2>1. SUFFICES ASSUME NEW s \in start..(end + 1), end + 1 - s <= n + 1, s <= end
                   PROVE  Up(f[s], s, end)
      <3>1. ASSUME NEW s \in start..(end + 1), end + 1 - s <= n + 1, ~ (s <= end)
            PROVE  Up(f[s], s, end)
        BY <1>5, <3>1
      <3>2. ASSUME NEW s \in start..(end + 1), end + 1 - s <= n + 1
            PROVE  Up(f[s], s, end)
        BY <2>1, <3>1, <3>2
      <3>3. QED
        BY <3>2
    <2> DEFINE e == PieceEnd(s, end)
    <2>2. e \in Nat /\ s <= e /\ e <= end /\ e - s + 1 # AvoidWidth /\ e - s + 1 <= ChunkSize /\ s \in Nat /\ 1 <= s
      BY <2>1, PieceEndFacts
    <2>3. f[s] = <<Piece(s, e)>> \o f[e + 1]
      <3>1. f[s] = CutAt(f, s, end) /\ ~ (s > end)
        BY <1>2, <2>1
      <3>2. QED
        BY <3>1, Zenon DEF CutAt
    <2> HIDE DEF e
    <2>4. e + 1 \in start..(end + 1) /\ end + 1 - (e + 1) <= n
      BY <2>1, <2>2
    <2>5. Up(f[e + 1], e + 1, end)
      BY <1>5, <2>4
    <2>6. Piece(s, e) \in Ranges /\ Piece(s, e).lo = s /\ Piece(s, e).hi = e
      BY <2>2, PieceIsRange
    <2>7. Up(<<Piece(s, e)>>, s, e)
      BY <2>6, UpSingle
    <2>8. QED
      BY <2>2, <2>3, <2>5, <2>7, UpConcat
  <1>6. Nat \subseteq T
    <2> HIDE DEF T
    <2>1. QED
      BY <1>4, <1>5, Induction
  <1>7. Up(f[start], start, end)
    <2>1. end + 1 - start \in Nat /\ start \in start..(end + 1) /\ end + 1 - start <= end + 1 - start
      OBVIOUS
    <2>2. QED
      BY <1>6, <2>1
  <1>8. f[start] # <<>>
    <2>1. start # end + 1
      OBVIOUS
    <2>2. QED
      BY <1>7, <2>1 DEF Up
  <1>9. f[start] = <<Piece(start, PieceEnd(start, end))>> \o f[PieceEnd(start, end) + 1]
    <2>1. f[start] = CutAt(f, start, end) /\ ~ (start > end)
      BY <1>2
    <2>2. QED
      BY <2>1, Zenon DEF CutAt
  <1> DEFINE e == PieceEnd(start, end)
             q == <<Piece(start, e)>>
  <1>10. f[e + 1] \in Seq(Ranges) /\ Piece(start, e) \in Ranges
    <2>1. e \in Nat /\ start <= e /\ e <= end /\ e - start + 1 # AvoidWidth /\ e - start + 1 <= ChunkSize
      BY PieceEndFacts
    <2> HIDE DEF e
    <2>2. e + 1 \in start..(end + 1) /\ end + 1 - (e + 1) <= end /\ Piece(start, e) \in Ranges
      BY <2>1, PieceIsRange
    <2>3. Up(f[e + 1], e + 1, end)
      BY <1>6, <2>2
    <2>4. QED
      BY <2>2, <2>3 DEF Up
  <1>11. Head(f[start]) = Piece(start, e)
    <2>1. f[start] = q \o f[e + 1]
      BY <1>9
    <2>2. q \in Seq(Ranges) /\ Len(q) = 1 /\ q[1] = Piece(start, e)
      BY <1>10
    <2> HIDE DEF q, e
    <2> DEFINE r == f[e + 1]
    <2>3. r \in Seq(Ranges) /\ Len(r) \in Nat
      BY <1>10, LenProperties
    <2> HIDE DEF r
    <2>4. (q \o r)[1] = q[1]
      <3>1. 1 \in 1..(Len(q) + Len(r)) /\ 1 <= Len(q)
        BY <2>2, <2>3
      <3>2. QED
        BY <2>2, <2>3, <3>1, ConcatProperties
    <2>5. Head(f[start]) = f[start][1]
      BY <1>7, <1>8, HeadTailProperties DEF Up
    <2>6. QED
      BY <2>1, <2>2, <2>4, <2>5 DEF r
  <1>12. QED
    BY <1>1, <1>7, <1>8, <1>11

LEMMA ReverseIsDown ==
    ASSUME NEW a, NEW b, NEW s, Up(s, a, b), s # <<>>
    PROVE  Down(Reverse(s), a, b) /\ Reverse(s) # <<>>
  <1> DEFINE t == Reverse(s)
             n == Len(s)
  <1>1. s \in Seq(Ranges) /\ n \in Nat /\ n >= 1 /\ DOMAIN s = 1..n
    BY LenProperties, EmptySeq DEF Up
  <1>2. t = [i \in 1..n |-> s[(n - i) + 1]]
    BY DEF Reverse
  <1> HIDE DEF t, n
  <1>3. \A i \in 1..n : (n - i) + 1 \in 1..n
    BY <1>1
  <1>4. \A i \in 1..n : s[i] \in Ranges
    BY <1>1, ElementOfSeq DEF n
  <1>5. t \in [1..n -> Ranges]
    BY <1>2, <1>3, <1>4
  <1>6. t \in Seq(Ranges) /\ Len(t) = n
    BY <1>1, <1>5, SeqDef, LenProperties
  <1>7. t # <<>>
    BY <1>1, <1>6, EmptySeq
  <1>8. t[1] = s[n] /\ t[n] = s[1]
    <2>1. 1 \in 1..n /\ n \in 1..n /\ (n - 1) + 1 = n /\ (n - n) + 1 = 1
      BY <1>1
    <2>2. QED
      BY <1>2, <2>1
  <1>9. \A i \in 1..(n - 1) : t[i + 1].hi = t[i].lo - 1
    <2>1. TAKE i \in 1..(n - 1)
    <2> DEFINE j == n - i
    <2>2. j \in 1..(n - 1) /\ i \in 1..n /\ i + 1 \in 1..n /\ (n - i) + 1 = j + 1 /\ (n - (i + 1)) + 1 = j
          /\ j \in 1..n /\ j + 1 \in 1..n
      BY <1>1
    <2> HIDE DEF j
    <2>3. t[i] = s[j + 1] /\ t[i + 1] = s[j]
      BY <1>2, <2>2
    <2>4. s[j + 1].lo = s[j].hi + 1
      BY <2>2 DEF Up, n
    <2>5. s[j].hi \in Nat
      BY <1>4, <2>2, RangeFacts
    <2>6. QED
      BY <2>3, <2>4, <2>5
  <1>10. QED
    BY <1>6, <1>7, <1>8, <1>9 DEF Up, Down, n, t

-----------------------------------------------------------------------------
(* Batches.                                                                *)

LEMMA SeqOfMembers ==
    ASSUME NEW S, NEW T, NEW s \in Seq(S), ToSet(s) \subseteq T
    PROVE  s \in Seq(T)
  <1>1. s \in [1..Len(s) -> S] /\ Len(s) \in Nat /\ DOMAIN s = 1..Len(s)
    BY LenProperties
  <1>2. \A i \in 1..Len(s) : s[i] \in T
    BY <1>1 DEF ToSet
  <1>3. s \in [1..Len(s) -> T]
    BY <1>1, <1>2
  <1>4. QED
    BY <1>1, <1>3, SeqDef

LEMMA MembersOfSeq ==
    ASSUME NEW S, NEW s \in Seq(S)
    PROVE  ToSet(s) = {s[i] : i \in 1..Len(s)} /\ ToSet(s) \subseteq S
  BY LenProperties, ElementOfSeq DEF ToSet

LEMMA ToSetConcat ==
    ASSUME NEW S, NEW s \in Seq(S), NEW t \in Seq(S)
    PROVE  ToSet(s \o t) = ToSet(s) \cup ToSet(t)
  <1> DEFINE u == s \o t
  <1>1. /\ u \in Seq(S) /\ Len(u) = Len(s) + Len(t) /\ Len(s) \in Nat /\ Len(t) \in Nat
        /\ \A i \in 1..(Len(s) + Len(t)) : u[i] = IF i <= Len(s) THEN s[i] ELSE t[i - Len(s)]
    BY ConcatProperties, LenProperties
  <1>2. /\ ToSet(u) = {u[i] : i \in 1..Len(u)} /\ ToSet(s) = {s[i] : i \in 1..Len(s)}
        /\ ToSet(t) = {t[i] : i \in 1..Len(t)}
    BY <1>1, MembersOfSeq
  <1> HIDE DEF u
  <1>3. \A i \in 1..Len(s) : i \in 1..Len(u) /\ u[i] = s[i]
    BY <1>1
  <1>4. \A i \in 1..Len(t) : Len(s) + i \in 1..Len(u) /\ u[Len(s) + i] = t[i]
    <2>1. TAKE i \in 1..Len(t)
    <2>2. Len(s) + i \in 1..(Len(s) + Len(t)) /\ ~ (Len(s) + i <= Len(s)) /\ (Len(s) + i) - Len(s) = i
      BY <1>1
    <2>3. QED
      BY <1>1, <2>2
  <1>5. \A i \in 1..Len(u) : i \in 1..Len(s) \/ (i - Len(s) \in 1..Len(t) /\ u[i] = t[i - Len(s)])
    BY <1>1
  <1>6. QED
    BY <1>2, <1>3, <1>4, <1>5 DEF u

\* A sequence cut in two keeps its members.
LEMMA ToSetSplit ==
    ASSUME NEW S, NEW s \in Seq(S), NEW k \in 0..Len(s)
    PROVE  LET a == SubSeq(s, 1, k)
               b == SubSeq(s, k + 1, Len(s)) IN
           /\ a \in Seq(S) /\ b \in Seq(S) /\ Len(b) = Len(s) - k /\ ToSet(s) = ToSet(a) \cup ToSet(b)
  <1> DEFINE a == SubSeq(s, 1, k)
             b == SubSeq(s, k + 1, Len(s))
  <1>1. Len(s) \in Nat /\ \A i \in 1..Len(s) : s[i] \in S
    BY LenProperties, ElementOfSeq
  <1>2. a \in Seq(S)
    <2>1. \A i \in 1..k : s[i] \in S
      BY <1>1
    <2>2. QED
      BY <2>1, <1>1, SubSeqProperties
  <1>3. b \in Seq(S) /\ Len(b) = Len(s) - k
    <2>1. \A i \in (k + 1)..Len(s) : s[i] \in S
      BY <1>1
    <2>2. b \in Seq(S) /\ Len(b) = IF k + 1 <= Len(s) THEN Len(s) - (k + 1) + 1 ELSE 0
      BY <2>1, <1>1, SubSeqProperties
    <2>3. QED
      BY <1>1, <2>2
  <1>4. a \o b = s
    <2>1. a \o b = SubSeq(s, 1, Len(s))
      <3>1. 1 \in 1..(Len(s) + 1) /\ k \in (1 - 1)..Len(s) /\ Len(s) \in k..Len(s)
        BY <1>1
      <3>2. QED
        BY <3>1, ConcatAdjacentSubSeq
    <2>2. QED
      BY <2>1, SubSeqFull
  <1>5. ToSet(a \o b) = ToSet(a) \cup ToSet(b)
    <2> HIDE DEF a, b
    <2>1. QED
      BY <1>2, <1>3, ToSetConcat
  <1>6. QED
    BY <1>2, <1>3, <1>4, <1>5

\* The records of a chunk are staged or pending, whatever fails.
LEMMA CollectKeeps ==
    ASSUME NEW W, pending \in Seq(W), staged \subseteq W, writeFailed = FALSE,
           Len(pending) < BatchSize, NEW recs \in Seq(W), Len(recs) <= ChunkSize, Collect(recs)
    PROVE  /\ pending' \in Seq(W) /\ staged' \subseteq W /\ writeFailed' \in BOOLEAN
           /\ Kept' = Kept \cup ToSet(recs)
           /\ Len(pending') < BatchSize + ChunkSize
           /\ ~writeFailed' => Len(pending') < BatchSize
  <1> DEFINE all == pending \o recs
  <1>1. all \in Seq(W) /\ Len(all) = Len(pending) + Len(recs) /\ Len(pending) \in Nat /\ Len(recs) \in Nat
        /\ ToSet(all) = ToSet(pending) \cup ToSet(recs)
    BY ConcatProperties, LenProperties, ToSetConcat
  <1>2. Len(all) \in Nat /\ Len(all) < BatchSize + ChunkSize /\ BatchSize \in Nat /\ ChunkSize \in Nat
        /\ ChunkSize > 0 /\ BatchSize >= ChunkSize
    BY <1>1, ConstantFacts
  <1>3. \/ Len(all) < BatchSize /\ pending' = all /\ UNCHANGED <<staged, writeFailed>>
        \/ /\ Len(all) >= BatchSize /\ writeFailed' = TRUE
           /\ pending' = all /\ UNCHANGED staged
        \/ \E j \in BatchSize..Len(all) :
             /\ staged' = staged \cup ToSet(SubSeq(all, 1, j))
             /\ pending' = SubSeq(all, j + 1, Len(all))
             /\ writeFailed' \in BOOLEAN
    <2> HIDE DEF all
    <2>1. ASSUME Len(all) >= BatchSize
          PROVE  BatchSize \in BatchSize..Len(all)
      BY <1>2, <2>1
    <2>2. \A j \in (BatchSize + 1)..Len(all) : j \in BatchSize..Len(all)
      BY <1>2
    <2>3. QED
      BY <2>1, <2>2 DEF Collect, all
  <1> HIDE DEF all
  <1>4. CASE Len(all) < BatchSize /\ pending' = all /\ UNCHANGED <<staged, writeFailed>>
    <2>1. Kept' = Kept \cup ToSet(recs)
      BY <1>1, <1>4 DEF Kept
    <2>2. QED
      BY <1>1, <1>2, <1>4, <2>1
  <1>5. CASE Len(all) >= BatchSize /\ writeFailed' = TRUE /\ pending' = all /\ UNCHANGED staged
    <2>1. Kept' = Kept \cup ToSet(recs)
      BY <1>1, <1>5 DEF Kept
    <2>2. QED
      BY <1>1, <1>2, <1>5, <2>1
  <1>6. ASSUME NEW j \in BatchSize..Len(all),
               staged' = staged \cup ToSet(SubSeq(all, 1, j)),
               pending' = SubSeq(all, j + 1, Len(all)),
               writeFailed' \in BOOLEAN
        PROVE  /\ pending' \in Seq(W) /\ staged' \subseteq W /\ Kept' = Kept \cup ToSet(recs)
               /\ Len(pending') < BatchSize /\ Len(pending') < BatchSize + ChunkSize
    <2> DEFINE a == SubSeq(all, 1, j)
               b == SubSeq(all, j + 1, Len(all))
    <2>1. j \in 0..Len(all) /\ Len(all) - j < BatchSize
      BY <1>2, <1>6
    <2>2. a \in Seq(W) /\ b \in Seq(W) /\ Len(b) = Len(all) - j /\ ToSet(all) = ToSet(a) \cup ToSet(b)
      BY <1>1, <2>1, ToSetSplit
    <2> HIDE DEF a, b
    <2>3. ToSet(a) \subseteq W
      BY <2>2, MembersOfSeq
    <2>4. staged' = staged \cup ToSet(a) /\ pending' = b
      BY <1>6 DEF a, b
    <2>5. Len(pending') < BatchSize /\ Len(pending') < BatchSize + ChunkSize
      BY <1>2, <2>1, <2>2, <2>4
    <2>6. QED
      BY <1>1, <2>2, <2>3, <2>4, <2>5 DEF Kept
  <1>7. CASE \E j \in BatchSize..Len(all) :
               /\ staged' = staged \cup ToSet(SubSeq(all, 1, j))
               /\ pending' = SubSeq(all, j + 1, Len(all))
               /\ writeFailed' \in BOOLEAN
    BY <1>6, <1>7
  <1>8. QED
    BY <1>3, <1>4, <1>5, <1>7

LEMMA FlushKeeps ==
    ASSUME NEW W, pending \in Seq(W), staged \subseteq W, NEW ok \in BOOLEAN, Flush(ok)
    PROVE  /\ pending' \in Seq(W) /\ staged' \subseteq W /\ Kept' = Kept
           /\ Len(pending') <= Len(pending)
           /\ ok => pending' = <<>> /\ staged' = Kept
           /\ ~ok => UNCHANGED batchVars
  <1>1. Len(pending) \in Nat /\ ToSet(pending) \subseteq W /\ <<>> \in Seq(W) /\ Len(<<>>) = 0
        /\ ToSet(<<>>) = {}
    BY LenProperties, MembersOfSeq, EmptySeq DEF ToSet
  <1>2. CASE ok
    <2>1. staged' = staged \cup ToSet(pending) /\ pending' = <<>>
      BY <1>2 DEF Flush
    <2>2. QED
      BY <1>1, <1>2, <2>1 DEF Kept
  <1>3. CASE ~ok
    <2>1. UNCHANGED <<pending, staged>>
      BY <1>3 DEF Flush
    <2>2. QED
      BY <1>1, <1>3, <2>1 DEF Kept, batchVars
  <1>4. QED
    BY <1>2, <1>3

-----------------------------------------------------------------------------
(* The rows of a range, and what their scan says of the mailbox.           *)

LEMMA MailFacts ==
    ASSUME MailOK
    PROVE  /\ Len(mbox) \in Nat /\ DOMAIN mbox = 1..Len(mbox) /\ Len(date) \in Nat /\ DOMAIN date = Messages
           /\ \A p \in 1..Len(mbox) : mbox[p] \in Messages
           /\ \A m \in Messages : date[m] \in Dates
           /\ IsFiniteSet(misdated) /\ Cardinality(misdated) \in Nat
  <1>1. Len(mbox) \in Nat /\ DOMAIN mbox = 1..Len(mbox) /\ \A p \in 1..Len(mbox) : mbox[p] \in Messages
    BY LenProperties, ElementOfSeq DEF MailOK
  <1>2. Len(date) \in Nat /\ DOMAIN date = 1..Len(date) /\ \A p \in 1..Len(date) : date[p] \in Dates
    BY LenProperties, ElementOfSeq DEF MailOK
  <1>3. IsFiniteSet(1..Len(date))
    BY <1>2, FS_Interval
  <1>4. IsFiniteSet(misdated) /\ Cardinality(misdated) \in Nat
    BY <1>3, FS_Subset, FS_CardinalityType DEF MailOK, Messages
  <1>5. QED
    BY <1>1, <1>2, <1>4 DEF Messages

LEMMA RowsFacts ==
    ASSUME MailOK, NEW r, r.lo \in Nat, r.hi \in Nat, 1 <= r.lo, r.lo <= r.hi, Answers(r)
    PROVE  /\ Rows(r) \in Seq(Messages) /\ Distinct(Rows(r))
           /\ Len(Rows(r)) = Least(r.hi, Len(mbox)) - r.lo + 1
           /\ \A i \in 1..Len(Rows(r)) : Rows(r)[i] = mbox[r.lo + i - 1] /\ r.lo + i - 1 \in 1..Len(mbox)
  <1> DEFINE e == Least(r.hi, Len(mbox))
             rows == Rows(r)
  <1>1. Len(mbox) \in Nat /\ DOMAIN mbox = 1..Len(mbox) /\ \A p \in 1..Len(mbox) : mbox[p] \in Messages
    BY MailFacts
  <1>2. e \in Nat /\ r.lo <= e /\ e <= Len(mbox)
    BY <1>1 DEF Least, Answers
  <1>3. rows = SubSeq(mbox, r.lo, e)
    BY DEF Rows
  <1> HIDE DEF e, rows
  <1>4. \A i \in r.lo..e : mbox[i] \in Messages
    BY <1>1, <1>2
  <1>5. /\ rows \in Seq(Messages) /\ Len(rows) = e - r.lo + 1
        /\ \A i \in 1..(e - r.lo + 1) : rows[i] = mbox[r.lo + i - 1]
    <2>1. /\ rows \in Seq(Messages) /\ Len(rows) = IF r.lo <= e THEN e - r.lo + 1 ELSE 0
          /\ \A i \in 1..(e - r.lo + 1) : rows[i] = mbox[r.lo + i - 1]
      BY <1>2, <1>3, <1>4, SubSeqProperties
    <2>2. QED
      BY <1>2, <2>1
  <1>6. \A i \in 1..Len(rows) : rows[i] = mbox[r.lo + i - 1] /\ r.lo + i - 1 \in 1..Len(mbox)
    <2>1. TAKE i \in 1..Len(rows)
    <2>2. i \in 1..(e - r.lo + 1) /\ r.lo + i - 1 \in 1..Len(mbox)
      BY <1>2, <1>5, <1>1
    <2>3. QED
      BY <1>5, <2>2
  <1>7. Distinct(rows)
    <2>1. DOMAIN rows = 1..Len(rows)
      BY <1>5, LenProperties
    <2>2. SUFFICES ASSUME NEW i \in 1..Len(rows), NEW j \in 1..Len(rows), i # j
                   PROVE  rows[i] # rows[j]
      BY <2>1 DEF Distinct
    <2>3. r.lo + i - 1 # r.lo + j - 1
      BY <2>2, <1>5, <1>2
    <2>4. QED
      BY <1>1, <1>6, <2>3 DEF MailOK, Distinct
  <1>8. QED
    BY <1>5, <1>6, <1>7 DEF e, rows

LEMMA ReverseFacts ==
    ASSUME NEW S, NEW s \in Seq(S), Distinct(s)
    PROVE  /\ Reverse(s) \in Seq(S) /\ Distinct(Reverse(s)) /\ Len(Reverse(s)) = Len(s)
           /\ \A i \in 1..Len(s) : Reverse(s)[i] = s[(Len(s) - i) + 1]
  <1> DEFINE t == Reverse(s)
             n == Len(s)
  <1>1. n \in Nat /\ DOMAIN s = 1..n /\ \A i \in 1..n : s[i] \in S
    BY LenProperties, ElementOfSeq
  <1>2. t = [i \in 1..n |-> s[(n - i) + 1]]
    BY DEF Reverse
  <1> HIDE DEF t, n
  <1>3. \A i \in 1..n : (n - i) + 1 \in 1..n
    BY <1>1
  <1>4. t \in [1..n -> S]
    BY <1>1, <1>2, <1>3
  <1>5. t \in Seq(S) /\ Len(t) = n /\ DOMAIN t = 1..n
    BY <1>1, <1>4, SeqDef, LenProperties
  <1>6. \A i \in 1..n : t[i] = s[(n - i) + 1]
    BY <1>2
  <1>7. Distinct(t)
    <2>1. SUFFICES ASSUME NEW i \in 1..n, NEW j \in 1..n, i # j
                   PROVE  t[i] # t[j]
      BY <1>5 DEF Distinct
    <2>2. (n - i) + 1 # (n - j) + 1
      BY <1>1, <2>1
    <2>3. QED
      BY <1>1, <1>3, <1>6, <2>2 DEF Distinct
  <1>8. QED
    BY <1>5, <1>6, <1>7 DEF t, n

\* More rows beyond the window than there are mis-dated messages: one of them
\* is where its date puts it.
LEMMA FarRow ==
    ASSUME MailOK, NEW rows \in Seq(Messages), NEW d, NEW k \in 1..Len(rows),
           Cardinality(Dated(rows, d, k)) > EdgeTolerance, Cardinality(misdated) <= EdgeTolerance
    PROVE  \E j \in 1..k : date[rows[j]] = d /\ rows[j] \notin misdated
  <1>1. SUFFICES ASSUME Dated(rows, d, k) \subseteq misdated
                 PROVE  FALSE
    BY DEF Dated
  <1>2. IsFiniteSet(misdated) /\ Cardinality(misdated) \in Nat
    BY MailFacts
  <1>3. Cardinality(Dated(rows, d, k)) <= Cardinality(misdated)
    BY <1>1, <1>2, FS_Subset
  <1>4. k \in Nat
    BY LenProperties
  <1>5. Cardinality(Dated(rows, d, k)) \in Nat
    BY <1>4, DatedIsFinite
  <1>6. QED
    BY <1>2, <1>3, <1>5, ConstantFacts

\* The scan of the rows of a range, read in either order.
LEMMA RangeScan ==
    ASSUME MailOK, ScanTyped, NEW r, r.lo \in Nat, r.hi \in Nat, 1 <= r.lo, r.lo <= r.hi, Answers(r),
           NEW back \in BOOLEAN, NEW asc \in BOOLEAN
    PROVE  LET rows == IF back THEN Reverse(Rows(r)) ELSE Rows(r)
               s == Scan(rows, asc) IN
           /\ rows \in Seq(Messages) /\ Distinct(rows) /\ Len(rows) = Len(Rows(r))
           /\ ScanGood(s, rows, asc, Len(rows))
           /\ s \in Scans /\ s.recs \in Seq(InWindow) /\ Len(s.recs) <= Least(r.hi, Len(mbox)) - r.lo + 1
           /\ Len(s.recs) <= Width(r) /\ Len(s.recs) \in Nat
           /\ \A m \in ToSet(s.recs) : \E p \in 1..Len(mbox) : r.lo <= p /\ p <= r.hi /\ m = mbox[p]
  <1> DEFINE rows == IF back THEN Reverse(Rows(r)) ELSE Rows(r)
             s == Scan(rows, asc)
             n == Len(Rows(r))
  <1>1. /\ Rows(r) \in Seq(Messages) /\ Distinct(Rows(r)) /\ n = Least(r.hi, Len(mbox)) - r.lo + 1
        /\ \A i \in 1..n : Rows(r)[i] = mbox[r.lo + i - 1] /\ r.lo + i - 1 \in 1..Len(mbox)
    BY RowsFacts
  <1>2. n \in Nat /\ Len(mbox) \in Nat
    BY <1>1, LenProperties, MailFacts
  <1>3. /\ Reverse(Rows(r)) \in Seq(Messages) /\ Distinct(Reverse(Rows(r))) /\ Len(Reverse(Rows(r))) = n
        /\ \A i \in 1..n : Reverse(Rows(r))[i] = Rows(r)[(n - i) + 1]
    BY <1>1, ReverseFacts
  <1>4. rows \in Seq(Messages) /\ Distinct(rows) /\ Len(rows) = n
    BY <1>1, <1>3
  <1>5. ScanGood(s, rows, asc, Len(rows))
    <2> HIDE DEF rows
    <2>1. QED
      BY <1>4, ScanIsGood
  <1>6. \A i \in 1..n : \E p \in 1..Len(mbox) : r.lo <= p /\ p <= r.hi /\ rows[i] = mbox[p]
    <2>1. TAKE i \in 1..n
    <2>2. CASE ~back
      <3>1. r.lo <= r.lo + i - 1 /\ r.lo + i - 1 <= r.hi
        BY <1>1, <1>2 DEF Least
      <3>2. QED
        BY <1>1, <2>2, <3>1
    <2>3. CASE back
      <3> DEFINE j == (n - i) + 1
      <3>1. n <= r.hi - r.lo + 1
        BY <1>1, <1>2 DEF Least
      <3>2. rows[i] = Rows(r)[j]
        BY <1>3, <2>3
      <3> HIDE DEF n
      <3>3. j \in 1..n /\ r.lo <= r.lo + j - 1 /\ r.lo + j - 1 <= r.hi
        BY <1>2, <3>1
      <3> HIDE DEF j
      <3>4. QED
        BY <1>1, <3>2, <3>3
    <2>4. QED
      BY <2>2, <2>3
  <1> HIDE DEF rows, n
  <1>7. s \in Scans /\ Len(s.recs) <= n
    BY <1>4, <1>5 DEF ScanGood
  <1>8. \E k \in 0..n : ToSet(s.recs) = Dated(rows, In, k)
    <2>1. s.edge \in BOOLEAN /\ n \in 0..n /\ \A k \in 1..n : k \in 0..n
      BY <1>2, <1>7 DEF Scans
    <2>2. QED
      BY <1>4, <1>5, <2>1 DEF ScanGood
  <1>9. ToSet(s.recs) \subseteq InWindow
    <2>1. PICK k \in 0..n : ToSet(s.recs) = Dated(rows, In, k)
      BY <1>8
    <2>2. \A i \in 1..k : rows[i] \in Messages
      <3>1. \A i \in 1..k : i \in 1..Len(rows)
        BY <1>2, <1>4
      <3>2. QED
        BY <1>4, <3>1, ElementOfSeq
    <2>3. QED
      BY <2>1, <2>2 DEF Dated, InWindow
  <1>10. s.recs \in Seq(Messages) /\ Len(s.recs) \in Nat
    BY <1>7, LenProperties DEF Scans
  <1>11. s.recs \in Seq(InWindow)
    BY <1>9, <1>10, SeqOfMembers
  <1>12. Len(s.recs) <= Least(r.hi, Len(mbox)) - r.lo + 1 /\ Len(s.recs) <= Width(r)
    BY <1>1, <1>2, <1>7, <1>10 DEF Least, Width
  <1>13. \A m \in ToSet(s.recs) : \E p \in 1..Len(mbox) : r.lo <= p /\ p <= r.hi /\ m = mbox[p]
    <2>1. PICK k \in 0..n : ToSet(s.recs) = Dated(rows, In, k)
      BY <1>8
    <2>2. \A m \in Dated(rows, In, k) : \E i \in 1..n : m = rows[i]
      <3>1. \A i \in 1..k : i \in 1..n
        BY <1>2
      <3>2. QED
        BY <3>1 DEF Dated
    <2>3. QED
      BY <1>6, <2>1, <2>2
  <1>14. QED
    BY <1>4, <1>5, <1>7, <1>10, <1>11, <1>12, <1>13 DEF rows, n

\* The position of row i of a range.
PosOf(r, back, i) == IF back THEN Least(r.hi, Len(mbox)) - i + 1 ELSE r.lo + i - 1

RowsOf(r, back) == IF back THEN Reverse(Rows(r)) ELSE Rows(r)

Span(r) == r.lo..Least(r.hi, Len(mbox))

LEMMA RowPositions ==
    ASSUME MailOK, NEW r, r.lo \in Nat, r.hi \in Nat, 1 <= r.lo, r.lo <= r.hi, Answers(r), NEW back \in BOOLEAN
    PROVE  LET rows == RowsOf(r, back) IN
           /\ \A i \in 1..Len(rows) : PosOf(r, back, i) \in Span(r) /\ rows[i] = mbox[PosOf(r, back, i)]
           /\ \A p \in Span(r) : \E i \in 1..Len(rows) : p = PosOf(r, back, i)
           /\ \A p \in Span(r) : p \in 1..Len(mbox) /\ p <= r.hi /\ p >= r.lo
           /\ \A p \in 1..Len(mbox) : p >= r.lo /\ p <= r.hi => p \in Span(r)
  <1> DEFINE rows == RowsOf(r, back)
             e == Least(r.hi, Len(mbox))
             n == Len(rows)
  <1>1. /\ Rows(r) \in Seq(Messages) /\ Distinct(Rows(r)) /\ Len(Rows(r)) = e - r.lo + 1
        /\ \A i \in 1..Len(Rows(r)) : Rows(r)[i] = mbox[r.lo + i - 1] /\ r.lo + i - 1 \in 1..Len(mbox)
    BY RowsFacts
  <1>2. e \in Nat /\ r.lo <= e /\ e <= Len(mbox) /\ e <= r.hi /\ Len(mbox) \in Nat
    BY MailFacts DEF Answers, Least
  <1>3. /\ Len(Reverse(Rows(r))) = Len(Rows(r))
        /\ \A i \in 1..Len(Rows(r)) : Reverse(Rows(r))[i] = Rows(r)[(Len(Rows(r)) - i) + 1]
    BY <1>1, ReverseFacts
  <1>4. n = e - r.lo + 1
    BY <1>1, <1>3 DEF RowsOf
  <1>5. Span(r) = r.lo..e
    BY DEF Span
  <1>6. \A p \in 1..Len(mbox) : p >= r.lo /\ p <= r.hi => p \in Span(r)
    BY <1>2, <1>5 DEF Least
  <1>7. \A i \in 1..n : PosOf(r, back, i) = IF back THEN e - i + 1 ELSE r.lo + i - 1
    BY DEF PosOf
  <1> HIDE DEF e
  <1>8. ASSUME NEW i \in 1..n
        PROVE  PosOf(r, back, i) \in Span(r) /\ rows[i] = mbox[PosOf(r, back, i)]
    <2>0. i \in Nat /\ i >= 1 /\ i <= e - r.lo + 1 /\ i \in 1..Len(Rows(r))
      BY <1>1, <1>2, <1>4
    <2>1. CASE ~back
      BY <1>1, <1>2, <1>5, <1>7, <2>0, <2>1 DEF RowsOf
    <2>2. CASE back
      <3> DEFINE j == (Len(Rows(r)) - i) + 1
                 lo == r.lo
      <3>a. Len(Rows(r)) = e - lo + 1 /\ lo \in Nat /\ e \in Nat /\ i \in Nat /\ i >= 1 /\ i <= e - lo + 1
        BY <1>1, <1>2, <2>0
      <3> HIDE DEF lo
      <3>b. j \in 1..Len(Rows(r)) /\ lo + j - 1 = e - i + 1 /\ e - i + 1 \in lo..e
        BY <3>a
      <3>1. j \in 1..Len(Rows(r)) /\ r.lo + j - 1 = e - i + 1 /\ e - i + 1 \in r.lo..e
        BY <3>b DEF lo
      <3>2. rows[i] = Rows(r)[j]
        BY <1>3, <2>0, <2>2 DEF RowsOf
      <3> HIDE DEF j
      <3>3. Rows(r)[j] = mbox[e - i + 1]
        BY <1>1, <3>1
      <3>4. QED
        BY <1>5, <1>7, <2>2, <3>1, <3>2, <3>3
    <2>3. QED
      BY <2>1, <2>2
  <1>9. ASSUME NEW p \in Span(r)
        PROVE  \E i \in 1..n : p = PosOf(r, back, i)
    <2> HIDE DEF n
    <2>0. p \in Nat /\ r.lo <= p /\ p <= e
      BY <1>2, <1>5
    <2>1. CASE back
      <3>1. e - p + 1 \in 1..n /\ e - (e - p + 1) + 1 = p
        BY <1>2, <1>4, <2>0
      <3>2. QED
        BY <1>7, <2>1, <3>1
    <2>2. CASE ~back
      <3>1. p - r.lo + 1 \in 1..n /\ r.lo + (p - r.lo + 1) - 1 = p
        BY <1>2, <1>4, <2>0
      <3>2. QED
        BY <1>7, <2>2, <3>1
    <2>3. QED
      BY <2>1, <2>2
  <1>10. \A p \in Span(r) : p \in 1..Len(mbox) /\ p <= r.hi /\ p >= r.lo
    BY <1>2, <1>5
  <1>11. QED
    BY <1>6, <1>8, <1>9, <1>10

\* Without an edge the scan collects every message of the window.
LEMMA NoEdgeCollects ==
    ASSUME MailOK, ScanTyped, NEW r, r.lo \in Nat, r.hi \in Nat, 1 <= r.lo, r.lo <= r.hi, Answers(r),
           NEW back \in BOOLEAN, NEW asc \in BOOLEAN, ~Scan(RowsOf(r, back), asc).edge
    PROVE  \A p \in 1..Len(mbox) : r.lo <= p /\ p <= r.hi /\ date[mbox[p]] = In =>
              mbox[p] \in ToSet(Scan(RowsOf(r, back), asc).recs)
  <1> DEFINE rows == RowsOf(r, back)
             s == Scan(rows, asc)
  <1>1. ScanGood(s, rows, asc, Len(rows))
    BY RangeScan DEF RowsOf
  <1>2. ToSet(s.recs) = Dated(rows, In, Len(rows))
    BY <1>1 DEF ScanGood
  <1>3. /\ \A i \in 1..Len(rows) : rows[i] = mbox[PosOf(r, back, i)]
        /\ \A p \in Span(r) : \E i \in 1..Len(rows) : p = PosOf(r, back, i)
        /\ \A p \in 1..Len(mbox) : p >= r.lo /\ p <= r.hi => p \in Span(r)
    BY RowPositions
  <1>4. \A p \in 1..Len(mbox) : r.lo <= p /\ p <= r.hi => p >= r.lo
    BY MailFacts
  <1> HIDE DEF s, rows
  <1>5. SUFFICES ASSUME NEW p \in 1..Len(mbox), r.lo <= p, p <= r.hi, date[mbox[p]] = In
                 PROVE  mbox[p] \in ToSet(s.recs)
    BY DEF s, rows
  <1>6. PICK i \in 1..Len(rows) : p = PosOf(r, back, i)
    BY <1>3, <1>4, <1>5
  <1>7. rows[i] = mbox[p]
    BY <1>3, <1>6
  <1>8. QED
    BY <1>2, <1>5, <1>7 DEF Dated

\* At an edge it has met a message that lies beyond the window, and collected
\* what came before that.
LEMMA EdgeTells ==
    ASSUME MailOK, ScanTyped, NEW r, r.lo \in Nat, r.hi \in Nat, 1 <= r.lo, r.lo <= r.hi, Answers(r),
           NEW back \in BOOLEAN, NEW asc \in BOOLEAN, Scan(RowsOf(r, back), asc).edge,
           Cardinality(misdated) <= EdgeTolerance
    PROVE  \E q \in 1..Len(mbox) :
              /\ r.lo <= q /\ q <= r.hi
              /\ date[mbox[q]] = FarDate(asc) /\ mbox[q] \notin misdated
              /\ \A p \in 1..Len(mbox) :
                   r.lo <= p /\ p <= r.hi /\ date[mbox[p]] = In /\ (IF back THEN q < p ELSE p < q) =>
                     mbox[p] \in ToSet(Scan(RowsOf(r, back), asc).recs)
  <1> DEFINE rows == RowsOf(r, back)
             s == Scan(rows, asc)
  <1>1. rows \in Seq(Messages) /\ ScanGood(s, rows, asc, Len(rows))
    BY RangeScan DEF RowsOf
  <1>2. /\ \A i \in 1..Len(rows) : PosOf(r, back, i) \in Span(r) /\ rows[i] = mbox[PosOf(r, back, i)]
        /\ \A p \in Span(r) : \E i \in 1..Len(rows) : p = PosOf(r, back, i)
        /\ \A p \in Span(r) : p \in 1..Len(mbox) /\ p <= r.hi /\ p >= r.lo
        /\ \A p \in 1..Len(mbox) : p >= r.lo /\ p <= r.hi => p \in Span(r)
    BY RowPositions
  <1>3. Len(rows) \in Nat
    BY <1>1, LenProperties
  <1>4. \A i, j \in 1..Len(rows) : (IF back THEN PosOf(r, back, j) < PosOf(r, back, i)
                                     ELSE PosOf(r, back, i) < PosOf(r, back, j)) => i < j
    <2>1. Least(r.hi, Len(mbox)) \in Nat
      BY MailFacts DEF Least
    <2>2. QED
      BY <1>3, <2>1 DEF PosOf
  <1> HIDE DEF s, rows
  <1>5. PICK k \in 1..Len(rows) :
           /\ ToSet(s.recs) = Dated(rows, In, k)
           /\ Cardinality(Dated(rows, FarDate(asc), k)) > EdgeTolerance
    BY <1>1 DEF ScanGood, s, rows
  <1>6. PICK j \in 1..k : date[rows[j]] = FarDate(asc) /\ rows[j] \notin misdated
    BY <1>1, <1>5, FarRow
  <1> DEFINE q == PosOf(r, back, j)
  <1>7. j \in 1..Len(rows)
    BY <1>3, <1>5, <1>6
  <1>8. q \in Span(r) /\ rows[j] = mbox[q]
    BY <1>2, <1>7
  <1>9. q \in 1..Len(mbox) /\ r.lo <= q /\ q <= r.hi
    BY <1>2, <1>8
  <1> HIDE DEF q
  <1>10. ASSUME NEW p \in 1..Len(mbox), r.lo <= p, p <= r.hi, date[mbox[p]] = In,
                IF back THEN q < p ELSE p < q
         PROVE  mbox[p] \in ToSet(s.recs)
    <2>1. PICK i \in 1..Len(rows) : p = PosOf(r, back, i)
      BY <1>2, <1>10
    <2>2. i < j
      BY <1>4, <1>7, <1>10, <2>1 DEF q
    <2>3. i \in 1..k
      BY <1>3, <1>5, <1>6, <2>2
    <2>4. date[rows[i]] = In /\ rows[i] = mbox[p]
      BY <1>2, <1>10, <2>1
    <2>5. QED
      BY <1>5, <2>3, <2>4 DEF Dated
  <1>11. QED
    BY <1>6, <1>8, <1>9, <1>10 DEF s, rows

-----------------------------------------------------------------------------
(* What an edge tells.                                                     *)

LEMMA Dating ==
    ASSUME MailOK
    PROVE  /\ \A m \in Messages \ misdated : date[m] \in {Below, In, Above}
           /\ \A p, q \in 1..Len(mbox) : p < q /\ mbox[p] \notin misdated /\ mbox[q] \notin misdated =>
                /\ newest /\ date[mbox[p]] = Below => date[mbox[q]] = Below
                /\ ~newest /\ date[mbox[p]] = Above => date[mbox[q]] = Above
                /\ ~newest /\ date[mbox[q]] = Below => date[mbox[p]] = Below
  <1>1. \A m \in Messages \ misdated : date[m] \in {0, 1, 2}
    BY MailFacts DEF MailOK, Dates, NoDate, Below, In, Above
  <1>2. \A p \in 1..Len(mbox) : mbox[p] \in Messages /\ p \in DOMAIN mbox
    BY MailFacts
  <1>3. newest \in BOOLEAN
    BY DEF MailOK
  <1>4. ASSUME NEW p \in 1..Len(mbox), NEW q \in 1..Len(mbox), p < q, mbox[p] \notin misdated, mbox[q] \notin misdated
        PROVE  /\ newest /\ date[mbox[p]] = Below => date[mbox[q]] = Below
               /\ ~newest /\ date[mbox[p]] = Above => date[mbox[q]] = Above
               /\ ~newest /\ date[mbox[q]] = Below => date[mbox[p]] = Below
    <2>1. IF newest THEN date[mbox[p]] >= date[mbox[q]] ELSE date[mbox[p]] <= date[mbox[q]]
      BY <1>2, <1>4 DEF MailOK
    <2>2. date[mbox[p]] \in {0, 1, 2} /\ date[mbox[q]] \in {0, 1, 2}
      BY <1>1, <1>2, <1>4
    <2>3. QED
      BY <1>3, <2>1, <2>2 DEF Below, Above
  <1>5. QED
    BY <1>1, <1>4 DEF Below, In, Above

Wanted(m) == date[m] = In /\ m \notin misdated

\* The edge of a walk that goes the way the mailbox lies: no message of the
\* window is further on.
LEMMA EdgeUp ==
    ASSUME MailOK, ScanTyped, NEW r, r.lo \in Nat, r.hi \in Nat, 1 <= r.lo, r.lo <= r.hi, Answers(r),
           Cardinality(misdated) <= EdgeTolerance,
           NEW asc \in BOOLEAN, asc <=> ~newest, Scan(Rows(r), asc).edge
    PROVE  \A p \in 1..Len(mbox) : p >= r.lo /\ Wanted(mbox[p]) => mbox[p] \in ToSet(Scan(Rows(r), asc).recs)
  <1>1. newest \in BOOLEAN /\ RowsOf(r, FALSE) = Rows(r)
    BY DEF RowsOf, MailOK
  <1>2. PICK q \in 1..Len(mbox) :
              /\ r.lo <= q /\ q <= r.hi
              /\ date[mbox[q]] = FarDate(asc) /\ mbox[q] \notin misdated
              /\ \A p \in 1..Len(mbox) :
                   r.lo <= p /\ p <= r.hi /\ date[mbox[p]] = In /\ p < q =>
                     mbox[p] \in ToSet(Scan(Rows(r), asc).recs)
    <2>1. FALSE \in BOOLEAN
      OBVIOUS
    <2>2. QED
      BY <1>1, <2>1, EdgeTells
  <1>3. SUFFICES ASSUME NEW p \in 1..Len(mbox), p >= r.lo, Wanted(mbox[p])
                 PROVE  mbox[p] \in ToSet(Scan(Rows(r), asc).recs)
    OBVIOUS
  <1>4. Len(mbox) \in Nat /\ In # Below /\ In # Above
    BY MailFacts DEF In, Below, Above
  <1>5. date[mbox[p]] = In /\ mbox[p] \notin misdated
    BY <1>3 DEF Wanted
  <1>6. ~ (q < p)
    BY <1>1, <1>2, <1>4, <1>5, Dating DEF FarDate
  <1>7. p # q
    BY <1>2, <1>4, <1>5 DEF FarDate
  <1>8. p < q /\ r.lo <= p /\ p <= r.hi
    BY <1>2, <1>3, <1>4, <1>6, <1>7
  <1>9. QED
    BY <1>2, <1>5, <1>8

\* The same from the far end of a mailbox that lies oldest first.
LEMMA EdgeDown ==
    ASSUME MailOK, ScanTyped, NEW r, r.lo \in Nat, r.hi \in Nat, 1 <= r.lo, r.lo <= r.hi, Answers(r),
           Cardinality(misdated) <= EdgeTolerance, ~newest, Scan(Reverse(Rows(r)), FALSE).edge
    PROVE  \A p \in 1..Len(mbox) : p <= r.hi /\ Wanted(mbox[p]) => mbox[p] \in ToSet(Scan(Reverse(Rows(r)), FALSE).recs)
  <1>1. RowsOf(r, TRUE) = Reverse(Rows(r))
    BY DEF RowsOf
  <1>2. PICK q \in 1..Len(mbox) :
              /\ r.lo <= q /\ q <= r.hi
              /\ date[mbox[q]] = FarDate(FALSE) /\ mbox[q] \notin misdated
              /\ \A p \in 1..Len(mbox) :
                   r.lo <= p /\ p <= r.hi /\ date[mbox[p]] = In /\ q < p =>
                     mbox[p] \in ToSet(Scan(Reverse(Rows(r)), FALSE).recs)
    <2>1. FALSE \in BOOLEAN /\ TRUE \in BOOLEAN
      OBVIOUS
    <2>2. QED
      BY <1>1, <2>1, EdgeTells
  <1>3. SUFFICES ASSUME NEW p \in 1..Len(mbox), p <= r.hi, Wanted(mbox[p])
                 PROVE  mbox[p] \in ToSet(Scan(Reverse(Rows(r)), FALSE).recs)
    OBVIOUS
  <1>4. Len(mbox) \in Nat /\ In # Below /\ FarDate(FALSE) = Below
    BY MailFacts DEF In, Below, FarDate
  <1>5. date[mbox[p]] = In /\ mbox[p] \notin misdated
    BY <1>3 DEF Wanted
  <1>6. ~ (p < q)
    BY <1>2, <1>4, <1>5, Dating
  <1>7. p # q
    BY <1>2, <1>4, <1>5
  <1>8. q < p /\ r.lo <= p
    BY <1>2, <1>4, <1>6, <1>7
  <1>9. QED
    BY <1>2, <1>3, <1>5, <1>8

\* The edge of a walk that took its order by default, and the wrong one: it
\* has met no message of the window.
LEMMA EdgeUnsure ==
    ASSUME MailOK, ScanTyped, NEW r, r.lo \in Nat, r.hi \in Nat, 1 <= r.lo, r.lo <= r.hi, Answers(r),
           misdated = {}, ~newest, Scan(Rows(r), FALSE).edge
    PROVE  /\ Len(Scan(Rows(r), FALSE).recs) = 0
           /\ \A p \in 1..Len(mbox) : p < r.lo => date[mbox[p]] # In
  <1> DEFINE rows == Rows(r)
             s == Scan(rows, FALSE)
  <1>1. FALSE \in BOOLEAN /\ rows = RowsOf(r, FALSE)
    BY DEF RowsOf
  <1>2. /\ rows \in Seq(Messages) /\ Len(rows) \in Nat
        /\ \A i \in 1..Len(rows) : rows[i] = mbox[r.lo + i - 1] /\ r.lo + i - 1 \in 1..Len(mbox)
    BY RowsFacts, LenProperties
  <1>3. ScanGood(s, rows, FALSE, Len(rows))
    BY <1>1, RangeScan
  <1>4. Len(mbox) \in Nat /\ In # Below /\ FarDate(FALSE) = Below
    BY MailFacts DEF In, Below, FarDate
  <1> HIDE DEF rows, s
  <1>5. s \in Scans /\ s.edge
    BY <1>3 DEF ScanGood, s, rows
  <1>6. PICK k \in 1..Len(rows) : date[rows[k]] = Below /\ ToSet(s.recs) = Dated(rows, In, k)
    BY <1>3, <1>4, <1>5 DEF ScanGood
  <1> DEFINE q == r.lo + k - 1
  <1>7. q \in 1..Len(mbox) /\ r.lo <= q /\ date[mbox[q]] = Below
    BY <1>2, <1>6
  <1> HIDE DEF q
  <1>8. \A p \in 1..Len(mbox) : p <= q => date[mbox[p]] # In
    BY <1>4, <1>7, Dating
  <1>9. \A p \in 1..Len(mbox) : p < r.lo => date[mbox[p]] # In
    BY <1>4, <1>7, <1>8
  <1>10. Dated(rows, In, k) = {}
    <2>1. ASSUME NEW i \in 1..k
          PROVE  date[rows[i]] # In
      <3>1. i \in 1..Len(rows) /\ r.lo + i - 1 <= q
        BY <1>2, <1>6, <2>1 DEF q
      <3>2. QED
        BY <1>2, <1>8, <3>1
    <2>2. QED
      BY <2>1 DEF Dated
  <1>11. Len(s.recs) = 0
    <2>1. s.recs \in Seq(Messages)
      BY <1>5 DEF Scans
    <2>2. Len(s.recs) \in Nat /\ ToSet(s.recs) = {s.recs[i] : i \in 1..Len(s.recs)}
      BY <2>1, LenProperties, MembersOfSeq
    <2>3. 1 \notin 1..Len(s.recs)
      BY <1>6, <1>10, <2>2
    <2>4. QED
      BY <2>2, <2>3
  <1>12. QED
    BY <1>9, <1>11 DEF s, rows

\* What is still needed when the chunk of a walk upwards has been read lies
\* beyond it, and the walk has not crossed the edge.
LEMMA UpRead ==
    ASSUME MailOK, ScanTyped, NEW r, r.lo \in Nat, r.hi \in Nat, 1 <= r.lo, r.lo <= r.hi, Answers(r),
           Cardinality(misdated) <= EdgeTolerance, NEW asc \in BOOLEAN, NEW unsure \in BOOLEAN,
           (asc <=> ~newest) \/ (unsure /\ misdated = {} /\ ~newest /\ ~asc),
           \A p \in 1..Len(mbox) : Needed(mbox[p]) => p >= r.lo,
           ~newest /\ ~asc /\ indexed > 0 => \E p \in 1..Len(mbox) : p < r.lo /\ date[mbox[p]] = In,
           NEW s, s = Scan(Rows(r), asc), ~GivenUp(s, unsure)
    PROVE  /\ \A p \in 1..Len(mbox) : Needed(mbox[p]) /\ mbox[p] \notin ToSet(s.recs) => ~s.edge /\ p > r.hi
           /\ ~newest /\ ~asc /\ indexed + Len(s.recs) > 0 /\ ~s.edge =>
                 \E p \in 1..Len(mbox) : p <= r.hi /\ date[mbox[p]] = In
  <1>1. FALSE \in BOOLEAN /\ Rows(r) = RowsOf(r, FALSE) /\ newest \in BOOLEAN
    BY DEF RowsOf, MailOK
  <1>n. Len(mbox) \in Nat /\ indexed \in Nat
    BY MailFacts DEF ScanTyped
  <1>2. /\ s \in Scans /\ s.recs \in Seq(InWindow) /\ Len(s.recs) \in Nat
        /\ \A m \in ToSet(s.recs) : \E p \in 1..Len(mbox) : r.lo <= p /\ p <= r.hi /\ m = mbox[p]
    BY <1>1, RangeScan
  <1>3. s.edge \in BOOLEAN
    BY <1>2 DEF Scans
  <1>4. CASE ~s.edge
    <2>1. \A p \in 1..Len(mbox) : r.lo <= p /\ p <= r.hi /\ date[mbox[p]] = In => mbox[p] \in ToSet(s.recs)
      BY <1>1, <1>4, NoEdgeCollects
    <2>2. ASSUME NEW p \in 1..Len(mbox), Needed(mbox[p]), mbox[p] \notin ToSet(s.recs)
          PROVE  p > r.hi
      <3>1. p >= r.lo /\ date[mbox[p]] = In
        BY <2>2 DEF Needed
      <3>2. ~ (r.lo <= p /\ p <= r.hi)
        BY <2>1, <2>2, <3>1
      <3>3. QED
        BY <1>n, <3>1, <3>2
    <2>3. ASSUME ~newest, ~asc, indexed + Len(s.recs) > 0
          PROVE  \E p \in 1..Len(mbox) : p <= r.hi /\ date[mbox[p]] = In
      <3>1. CASE Len(s.recs) > 0
        <4>1. 1 \in 1..Len(s.recs)
          BY <1>2, <3>1
        <4>2. s.recs[1] \in ToSet(s.recs) /\ date[s.recs[1]] = In
          BY <1>2, <4>1, MembersOfSeq, ElementOfSeq DEF InWindow
        <4>3. PICK p \in 1..Len(mbox) : r.lo <= p /\ p <= r.hi /\ s.recs[1] = mbox[p]
          BY <1>2, <4>2
        <4>4. QED
          BY <4>2, <4>3
      <3>2. CASE Len(s.recs) = 0
        <4>1. indexed > 0
          BY <1>n, <2>3, <3>2
        <4>2. PICK p \in 1..Len(mbox) : p < r.lo /\ date[mbox[p]] = In
          BY <2>3, <4>1
        <4>3. p <= r.hi
          BY <1>n, <4>2
        <4>4. QED
          BY <4>2, <4>3
      <3>3. QED
        BY <1>2, <3>1, <3>2
    <2>4. QED
      BY <1>4, <2>2, <2>3
  <1>5. CASE s.edge /\ (asc <=> ~newest)
    <2>1. \A p \in 1..Len(mbox) : p >= r.lo /\ Wanted(mbox[p]) => mbox[p] \in ToSet(s.recs)
      BY <1>1, <1>5, EdgeUp
    <2>2. \A p \in 1..Len(mbox) : Needed(mbox[p]) => mbox[p] \in ToSet(s.recs)
      BY <2>1 DEF Needed, Wanted
    <2>3. QED
      BY <1>5, <2>2
  <1>6. CASE s.edge /\ unsure /\ misdated = {} /\ ~newest /\ ~asc
    <2>1. Len(s.recs) = 0 /\ \A p \in 1..Len(mbox) : p < r.lo => date[mbox[p]] # In
      <3>1. asc = FALSE
        BY <1>6
      <3>2. QED
        BY <1>6, <3>1, EdgeUnsure
    <2>2. indexed = 0
      BY <1>n, <1>6, <2>1
    <2>3. GivenUp(s, unsure)
      BY <1>6, <2>1, <2>2 DEF GivenUp
    <2>4. QED
      BY <2>3
  <1>7. QED
    BY <1>3, <1>4, <1>5, <1>6

LEMMA DownRead ==
    ASSUME MailOK, ScanTyped, NEW r, r.lo \in Nat, r.hi \in Nat, 1 <= r.lo, r.lo <= r.hi, Answers(r),
           Cardinality(misdated) <= EdgeTolerance, ~newest,
           \A p \in 1..Len(mbox) : Needed(mbox[p]) => p <= r.hi,
           NEW asc \in BOOLEAN, ~asc, NEW s, s = Scan(Reverse(Rows(r)), asc)
    PROVE  \A p \in 1..Len(mbox) : Needed(mbox[p]) /\ mbox[p] \notin ToSet(s.recs) => ~s.edge /\ p < r.lo
  <1>1. FALSE \in BOOLEAN /\ TRUE \in BOOLEAN /\ Reverse(Rows(r)) = RowsOf(r, TRUE)
    BY DEF RowsOf
  <1>n. Len(mbox) \in Nat
    BY MailFacts
  <1>2. s \in Scans
    BY <1>1, RangeScan
  <1>3. s.edge \in BOOLEAN
    BY <1>2 DEF Scans
  <1>4. SUFFICES ASSUME NEW p \in 1..Len(mbox), Needed(mbox[p]), mbox[p] \notin ToSet(s.recs)
                 PROVE  ~s.edge /\ p < r.lo
    OBVIOUS
  <1>5. p <= r.hi /\ date[mbox[p]] = In /\ Wanted(mbox[p])
    BY <1>4 DEF Needed, Wanted
  <1>6. ~s.edge
    <2>1. asc = FALSE
      OBVIOUS
    <2>2. QED
      BY <1>4, <1>5, <2>1, EdgeDown
  <1>7. ~ (r.lo <= p)
    BY <1>1, <1>4, <1>5, <1>6, NoEdgeCollects
  <1> DEFINE lo == r.lo
  <1>8. lo \in Nat /\ ~ (lo <= p)
    BY <1>7
  <1> HIDE DEF lo
  <1>9. p \in Int /\ p < lo
    BY <1>n, <1>4, <1>8
  <1>10. QED
    BY <1>6, <1>9 DEF lo

\* What a chunk does to the books, whatever was read and whatever is next.
LEMMA FoldKeeps ==
    ASSUME MailOK, BookOK, BatchesOK, HandlerOK, pc \in {"probe", "walk"}, writeFailed = FALSE, Running,
           NEW s, s.recs \in Seq(InWindow), Len(s.recs) <= ChunkSize, s.edge \in BOOLEAN, s.useless \in Nat,
           s.tail \in Nat, NEW rest \in Seq(Ranges), NEW unsure \in BOOLEAN, Fold(s, rest, unsure), strikes' = 0,
           order' \in BOOLEAN, defaulted' \in BOOLEAN, defaulted' => order',
           UNCHANGED <<mailVars, memo, total, limit, blind, probeEnd, outcome, termVars>>, late' \in BOOLEAN
    PROVE  /\ MailOK' /\ BookOK' /\ BatchesOK' /\ HandlerOK'
           /\ Kept' = Kept \cup ToSet(s.recs) /\ edge' = s.edge /\ todo' = rest
           /\ indexed' = indexed + Len(s.recs)
           /\ pc' \in {"walk", "skip"} /\ (pc' = "walk" => ~GivenUp(s, unsure))
  <1>1. /\ edge' = s.edge /\ useless' = s.useless /\ tail' = s.tail /\ indexed' = indexed + Len(s.recs)
        /\ todo' = rest /\ pc' = (IF s.mis \/ GivenUp(s, unsure) THEN "skip" ELSE "walk") /\ Collect(s.recs)
    BY DEF Fold
  <1>2. pc' \in {"walk", "skip"} /\ (pc' = "walk" => ~GivenUp(s, unsure))
    BY <1>1
  <1>3. MailOK'
    BY DEF MailOK, mailVars, Messages, Distinct, ToSet
  <1>4. InWindow' = InWindow /\ Len(s.recs) \in Nat
    BY LenProperties DEF InWindow, mailVars, Messages
  <1>5. /\ pending' \in Seq(InWindow) /\ staged' \subseteq InWindow /\ writeFailed' \in BOOLEAN
        /\ Kept' = Kept \cup ToSet(s.recs)
        /\ Len(pending') < BatchSize + ChunkSize
        /\ ~writeFailed' => Len(pending') < BatchSize
    BY <1>1, CollectKeeps DEF BatchesOK
  <1>6. BookOK'
    <2>1. /\ memo' \in BOOLEAN /\ blind' \in BOOLEAN /\ flushOK' \in BOOLEAN /\ edge' \in BOOLEAN /\ late' \in BOOLEAN
          /\ total' \in Nat /\ limit' \in Nat /\ probeEnd' \in Nat /\ indexed' \in Nat /\ useless' \in Nat /\ tail' \in Nat
      <3>1. Len(s.recs) \in Nat /\ indexed \in Nat /\ indexed' = indexed + Len(s.recs)
        BY <1>1, <1>4 DEF BookOK
      <3>2. indexed' \in Nat
        BY <3>1
      <3>3. QED
        BY <1>1, <3>2 DEF BookOK, termVars
    <2>2. todo' \in Seq(Ranges) /\ pc' \in {"walk", "skip"} /\ strikes' = 0
      BY <1>1, <1>2
    <2>3. QED
      BY <1>5, <2>1, <2>2 DEF BookOK
  <1>7. BatchesOK'
    <2>1. owed' \subseteq InWindow' /\ outcome' = "none"
      BY <1>4 DEF BatchesOK, termVars
    <2>2. pending' \in Seq(InWindow') /\ staged' \subseteq InWindow'
      BY <1>4, <1>5
    <2>3. QED
      BY <1>2, <1>5, <2>1, <2>2 DEF BatchesOK
  <1>8. HandlerOK'
    BY <1>5 DEF HandlerOK, CancelStrandsNothing, termVars, Running
  <1>9. QED
    BY <1>1, <1>2, <1>3, <1>5, <1>6, <1>7, <1>8

-----------------------------------------------------------------------------
(* The mailbox: the initial states, arrivals and departures.               *)

LEMMA SortedDates ==
    ASSUME NEW n \in Nat, NEW a \in 0..n, NEW b \in 0..(n - a), NEW up \in BOOLEAN
    PROVE  /\ \A m \in 1..n : Sorted(n, a, b, up)[m] \in {Below, In, Above}
           /\ \A i, j \in 1..n : i < j =>
                IF up THEN Sorted(n, a, b, up)[i] >= Sorted(n, a, b, up)[j]
                ELSE Sorted(n, a, b, up)[i] <= Sorted(n, a, b, up)[j]
  <1> DEFINE k(i) == IF up THEN i ELSE n + 1 - i
             d(i) == IF k(i) <= a THEN Above ELSE IF k(i) <= a + b THEN In ELSE Below
  <1>1. \A m \in 1..n : Sorted(n, a, b, up)[m] = d(m)
    BY DEF Sorted
  <1>2. \A m \in 1..n : d(m) \in {Below, In, Above}
    OBVIOUS
  <1>3. \A i, j \in 1..n : i < j => IF up THEN d(i) >= d(j) ELSE d(i) <= d(j)
    BY DEF Below, In, Above
  <1> HIDE DEF d
  <1>4. QED
    BY <1>1, <1>2, <1>3

LEMMA InitKeeps == Init => IInv
  <1> SUFFICES ASSUME Init
               PROVE  IInv
    OBVIOUS
  <1>a. PICK n \in Sizes : \E a \in 0..n : \E b \in 0..(n - a) :
          /\ mbox = [i \in 1..n |-> i]
          /\ misdated \in SUBSET (1..n)
          /\ \E wrong \in [misdated -> Dates] :
                date = [m \in 1..n |-> IF m \in misdated THEN wrong[m] ELSE Sorted(n, a, b, newest)[m]]
    BY DEF Init
  <1>b. PICK a \in 0..n : \E b \in 0..(n - a) :
          /\ mbox = [i \in 1..n |-> i]
          /\ misdated \in SUBSET (1..n)
          /\ \E wrong \in [misdated -> Dates] :
                date = [m \in 1..n |-> IF m \in misdated THEN wrong[m] ELSE Sorted(n, a, b, newest)[m]]
    BY <1>a
  <1>1. PICK b \in 0..(n - a) :
          /\ mbox = [i \in 1..n |-> i]
          /\ misdated \in SUBSET (1..n)
          /\ \E wrong \in [misdated -> Dates] :
                date = [m \in 1..n |-> IF m \in misdated THEN wrong[m] ELSE Sorted(n, a, b, newest)[m]]
    BY <1>b
  <1>2. PICK wrong \in [misdated -> Dates] :
          date = [m \in 1..n |-> IF m \in misdated THEN wrong[m] ELSE Sorted(n, a, b, newest)[m]]
    BY <1>1
  <1>3. n \in Nat /\ newest \in BOOLEAN
    BY ConstantFacts DEF Init
  <1>4. /\ \A m \in 1..n : Sorted(n, a, b, newest)[m] \in {Below, In, Above}
        /\ \A i, j \in 1..n : i < j =>
             IF newest THEN Sorted(n, a, b, newest)[i] >= Sorted(n, a, b, newest)[j]
             ELSE Sorted(n, a, b, newest)[i] <= Sorted(n, a, b, newest)[j]
    BY <1>3, SortedDates
  <1>5. \A m \in 1..n : m \notin misdated => date[m] = Sorted(n, a, b, newest)[m]
    BY <1>2
  <1>6. \A m \in 1..n : date[m] \in Dates
    BY <1>1, <1>2, <1>4 DEF Dates
  <1>7. date \in Seq(Dates) /\ Len(date) = n
    <2>1. date = [m \in 1..n |-> date[m]]
      BY <1>2
    <2>2. date \in [1..n -> Dates]
      BY <1>6, <2>1
    <2>3. QED
      BY <1>3, <2>2, SeqDef, LenProperties
  <1>8. mbox \in Seq(Messages) /\ Len(mbox) = n /\ DOMAIN mbox = 1..n /\ \A i \in 1..n : mbox[i] = i
    <2>1. mbox \in [1..n -> Messages]
      BY <1>1, <1>7 DEF Messages
    <2>2. QED
      BY <1>1, <1>3, <2>1, SeqDef, LenProperties
  <1>9. MailOK
    <2>1. Distinct(mbox)
      BY <1>8 DEF Distinct
    <2>2. Len(mbox) <= Len(date)
      BY <1>3, <1>7, <1>8
    <2>3. gone \cap ToSet(mbox) = {} /\ gone \cup ToSet(mbox) = Messages
      <3>1. ToSet(mbox) = {mbox[i] : i \in 1..n}
        BY <1>8 DEF ToSet
      <3>2. ToSet(mbox) = 1..n
        BY <1>8, <3>1
      <3>3. QED
        BY <1>7, <3>2 DEF Init, Messages
    <2>4. misdated \subseteq Messages /\ arrived \in Nat
      BY <1>1, <1>7 DEF Init, Messages
    <2>5. \A m \in Messages \ misdated : date[m] # NoDate
      BY <1>4, <1>5, <1>7 DEF Messages, Below, In, Above, NoDate
    <2>6. \A i, j \in DOMAIN mbox : i < j /\ mbox[i] \notin misdated /\ mbox[j] \notin misdated =>
             IF newest THEN date[mbox[i]] >= date[mbox[j]] ELSE date[mbox[i]] <= date[mbox[j]]
      BY <1>4, <1>5, <1>8
    <2>7. QED
      BY <1>3, <1>7, <1>8, <2>1, <2>2, <2>3, <2>4, <2>5, <2>6 DEF MailOK
  <1>10. <<>> \in Seq(Ranges) /\ <<>> \in Seq(InWindow) /\ Len(<<>>) = 0
    BY EmptySeq
  <1>11. BookOK
    <2>1. /\ memo \in BOOLEAN /\ pc = "count" /\ blind = FALSE /\ order = TRUE /\ defaulted = FALSE /\ edge = FALSE
          /\ writeFailed = FALSE /\ late = FALSE /\ flushOK = TRUE
          /\ total = 0 /\ limit = 0 /\ probeEnd = 0 /\ strikes = 0 /\ indexed = 0 /\ useless = 0 /\ tail = 0
          /\ todo = <<>>
      BY DEF Init
    <2>2. {memo, blind, order, defaulted, edge, writeFailed, late, flushOK} \subseteq BOOLEAN
      BY <2>1, Zenon
    <2>3. {total, limit, probeEnd, strikes, indexed, useless, tail} \subseteq Nat
      BY <2>1
    <2>4. QED
      BY <1>10, <2>1, <2>2, <2>3 DEF BookOK
  <1>12. BatchesOK
    BY <1>10, ConstantFacts DEF Init, BatchesOK
  <1>13. HandlerOK /\ CountOK /\ PlanOK /\ NoHoles
    <2>1. term = "none" /\ pc = "count" /\ outcome = "none"
      BY DEF Init
    <2>2. HandlerOK
      BY <2>1 DEF HandlerOK, CancelStrandsNothing
    <2>3. CountOK /\ PlanOK /\ NoHoles
      BY <2>1 DEF CountOK, PlanOK, NoHoles, Clean
    <2>4. QED
      BY <2>2, <2>3
  <1>14. QED
    BY <1>9, <1>11, <1>12, <1>13 DEF IInv

LEMMA PrependFacts ==
    ASSUME NEW S, NEW s \in Seq(S), NEW m \in S
    PROVE  LET t == <<m>> \o s IN
           /\ t \in Seq(S) /\ Len(t) = Len(s) + 1 /\ t[1] = m
           /\ \A i \in 2..(Len(s) + 1) : t[i] = s[i - 1]
  <1> DEFINE q == <<m>>
  <1>1. q \in Seq(S) /\ Len(q) = 1 /\ q[1] = m
    OBVIOUS
  <1> HIDE DEF q
  <1>2. Len(s) \in Nat
    BY LenProperties
  <1>3. /\ q \o s \in Seq(S) /\ Len(q \o s) = Len(q) + Len(s)
        /\ \A i \in 1..(Len(q) + Len(s)) : (q \o s)[i] = IF i <= Len(q) THEN q[i] ELSE s[i - Len(q)]
    BY <1>1, ConcatProperties
  <1> DEFINE t == q \o s
  <1>4. t \in Seq(S) /\ Len(t) = Len(s) + 1
        /\ \A i \in 1..(Len(s) + 1) : t[i] = IF i <= 1 THEN q[i] ELSE s[i - 1]
    BY <1>1, <1>2, <1>3
  <1> HIDE DEF t
  <1>5. t[1] = m /\ \A i \in 2..(Len(s) + 1) : t[i] = s[i - 1]
    BY <1>1, <1>2, <1>4
  <1>6. QED
    BY <1>4, <1>5 DEF t, q

LEMMA RemoveFacts ==
    ASSUME NEW S, NEW s \in Seq(S), NEW i \in 1..Len(s)
    PROVE  LET t == RemoveAt(s, i) IN
           /\ t \in Seq(S) /\ Len(t) = Len(s) - 1
           /\ \A k \in 1..(Len(s) - 1) : t[k] = IF k < i THEN s[k] ELSE s[k + 1]
  <1> DEFINE a == SubSeq(s, 1, i - 1)
             b == SubSeq(s, i + 1, Len(s))
             t == a \o b
  <1>1. Len(s) \in Nat /\ \A k \in 1..Len(s) : s[k] \in S
    BY LenProperties, ElementOfSeq
  <1>2. /\ a \in Seq(S) /\ Len(a) = i - 1
        /\ \A k \in 1..(i - 1) : a[k] = s[k]
    <2>1. \A k \in 1..(i - 1) : s[k] \in S
      BY <1>1
    <2>2. /\ a \in Seq(S) /\ Len(a) = IF 1 <= i - 1 THEN i - 1 - 1 + 1 ELSE 0
          /\ \A k \in 1..(i - 1 - 1 + 1) : a[k] = s[1 + k - 1]
      BY <1>1, <2>1, SubSeqProperties
    <2> HIDE DEF a
    <2>3. QED
      BY <1>1, <2>2
  <1>3. /\ b \in Seq(S) /\ Len(b) = Len(s) - i
        /\ \A k \in 1..(Len(s) - i) : b[k] = s[k + i]
    <2>1. \A k \in (i + 1)..Len(s) : s[k] \in S
      BY <1>1
    <2>2. /\ b \in Seq(S) /\ Len(b) = IF i + 1 <= Len(s) THEN Len(s) - (i + 1) + 1 ELSE 0
          /\ \A k \in 1..(Len(s) - (i + 1) + 1) : b[k] = s[i + 1 + k - 1]
      BY <1>1, <2>1, SubSeqProperties
    <2> HIDE DEF b
    <2>3. \A k \in 1..(Len(s) - i) : k \in 1..(Len(s) - (i + 1) + 1) /\ i + 1 + k - 1 = k + i
      BY <1>1
    <2>4. QED
      BY <1>1, <2>2, <2>3
  <1> HIDE DEF a, b
  <1>4. /\ t \in Seq(S) /\ Len(t) = Len(a) + Len(b)
        /\ \A k \in 1..(Len(a) + Len(b)) : t[k] = IF k <= Len(a) THEN a[k] ELSE b[k - Len(a)]
    BY <1>2, <1>3, ConcatProperties
  <1> HIDE DEF t
  <1>5. t \in Seq(S) /\ Len(t) = Len(s) - 1
    BY <1>1, <1>2, <1>3, <1>4
  <1>6. \A k \in 1..(Len(s) - 1) : t[k] = IF k < i THEN s[k] ELSE s[k + 1]
    <2>1. TAKE k \in 1..(Len(s) - 1)
    <2>2. k \in 1..(Len(a) + Len(b))
      BY <1>1, <1>2, <1>3
    <2>3. CASE k < i
      <3>1. k <= Len(a) /\ k \in 1..(i - 1)
        BY <1>1, <1>2, <2>3
      <3>2. QED
        BY <1>2, <1>4, <2>2, <2>3, <3>1
    <2>4. CASE ~ (k < i)
      <3>1. ~ (k <= Len(a)) /\ k - Len(a) \in 1..(Len(s) - i) /\ (k - Len(a)) + i = k + 1
        BY <1>1, <1>2, <2>4
      <3>2. QED
        BY <1>3, <1>4, <2>2, <2>4, <3>1
    <2>5. QED
      BY <2>3, <2>4
  <1>7. RemoveAt(s, i) = t
    BY DEF RemoveAt, t, a, b
  <1>8. QED
    BY <1>5, <1>6, <1>7

\* Where a message was before one arrived.
Before(p) == IF newest THEN p - 1 ELSE p
Newcomer == IF newest THEN 1 ELSE Len(mbox) + 1

LEMMA ArriveMail ==
    ASSUME MailOK, Arrive
    PROVE  LET m == Len(date) + 1 IN
           /\ date' \in Seq(Dates) /\ Len(date') = m /\ Messages' = Messages \cup {m} /\ m \notin Messages
           /\ \A k \in Messages : date'[k] = date[k]
           /\ date'[m] = Above
           /\ mbox' \in Seq(Messages') /\ Len(mbox') = Len(mbox) + 1
           /\ mbox'[Newcomer] = m /\ Newcomer \in 1..(Len(mbox) + 1)
           /\ \A p \in 1..(Len(mbox) + 1) : p # Newcomer =>
                Before(p) \in 1..Len(mbox) /\ mbox'[p] = mbox[Before(p)]
           /\ \A p \in 1..Len(mbox) : \E q \in 1..(Len(mbox) + 1) : q # Newcomer /\ Before(q) = p
  <1> DEFINE m == Len(date) + 1
  <1>1. /\ date' = Append(date, Above)
        /\ mbox' = IF newest THEN <<Len(date')>> \o mbox ELSE Append(mbox, Len(date'))
        /\ newest \in BOOLEAN
    BY DEF Arrive, MailOK
  <1>2. Above \in Dates /\ date \in Seq(Dates) /\ Len(date) \in Nat /\ Len(mbox) \in Nat /\ mbox \in Seq(Messages)
    BY MailFacts DEF MailOK, Dates
  <1>3. /\ date' \in Seq(Dates) /\ Len(date') = m /\ date'[m] = Above
        /\ \A k \in 1..Len(date) : date'[k] = date[k]
    BY <1>1, <1>2, AppendProperties
  <1>4. Messages' = Messages \cup {m} /\ m \notin Messages /\ Messages = 1..Len(date) /\ m \in Messages'
    <2>1. Messages' = 1..m /\ Messages = 1..Len(date)
      BY <1>3 DEF Messages
    <2>2. QED
      BY <1>2, <2>1
  <1> HIDE DEF m
  <1>5. mbox \in Seq(Messages')
    BY <1>2, <1>4, SeqMonotonic
  <1>6. CASE newest
    <2> DEFINE M == Messages'
    <2>1. mbox' = <<m>> \o mbox /\ m \in M /\ mbox \in Seq(M)
      BY <1>1, <1>3, <1>4, <1>5, <1>6
    <2> HIDE DEF M
    <2>2. /\ mbox' \in Seq(M) /\ Len(mbox') = Len(mbox) + 1 /\ mbox'[1] = m
          /\ \A i \in 2..(Len(mbox) + 1) : mbox'[i] = mbox[i - 1]
      BY <2>1, PrependFacts
    <2>3. Newcomer = 1 /\ \A p : Before(p) = p - 1
      BY <1>6 DEF Newcomer, Before
    <2>4. \A p \in 1..(Len(mbox) + 1) : p # 1 => p - 1 \in 1..Len(mbox) /\ p \in 2..(Len(mbox) + 1)
      BY <1>2
    <2>5. \A p \in 1..Len(mbox) : p + 1 \in 1..(Len(mbox) + 1) /\ p + 1 # 1 /\ (p + 1) - 1 = p
      BY <1>2
    <2>6. 1 \in 1..(Len(mbox) + 1)
      BY <1>2
    <2>7. QED
      BY <1>3, <1>4, <2>2, <2>3, <2>4, <2>5, <2>6 DEF m, M
  <1>7. CASE ~newest
    <2> DEFINE M == Messages'
    <2>1. mbox' = Append(mbox, m) /\ m \in M /\ mbox \in Seq(M)
      BY <1>1, <1>3, <1>4, <1>5, <1>7
    <2> HIDE DEF M
    <2>2. /\ mbox' \in Seq(M) /\ Len(mbox') = Len(mbox) + 1 /\ mbox'[Len(mbox) + 1] = m
          /\ \A i \in 1..Len(mbox) : mbox'[i] = mbox[i]
      BY <2>1, AppendProperties
    <2>3. Newcomer = Len(mbox) + 1 /\ \A p : Before(p) = p
      BY <1>7 DEF Newcomer, Before
    <2>4. \A p \in 1..(Len(mbox) + 1) : p # Len(mbox) + 1 => p \in 1..Len(mbox)
      BY <1>2
    <2>5. \A p \in 1..Len(mbox) : p \in 1..(Len(mbox) + 1) /\ p # Len(mbox) + 1
      BY <1>2
    <2>6. Len(mbox) + 1 \in 1..(Len(mbox) + 1)
      BY <1>2
    <2>7. QED
      BY <1>3, <1>4, <2>2, <2>3, <2>4, <2>5, <2>6 DEF m, M
  <1>8. QED
    BY <1>6, <1>7

LEMMA ArriveKeeps == IInv /\ Arrive /\ late' = late => IInv'
  <1> SUFFICES ASSUME IInv, Arrive, late' = late
               PROVE  IInv'
    OBVIOUS
  <1> DEFINE m == Len(date) + 1
  <1>1. MailOK /\ BookOK /\ BatchesOK /\ HandlerOK /\ CountOK /\ PlanOK /\ NoHoles
    BY DEF IInv
  <1>2. /\ date' \in Seq(Dates) /\ Len(date') = m /\ Messages' = Messages \cup {m} /\ m \notin Messages
        /\ \A k \in Messages : date'[k] = date[k]
        /\ date'[m] = Above
        /\ mbox' \in Seq(Messages') /\ Len(mbox') = Len(mbox) + 1
        /\ mbox'[Newcomer] = m /\ Newcomer \in 1..(Len(mbox) + 1)
        /\ \A p \in 1..(Len(mbox) + 1) : p # Newcomer =>
             Before(p) \in 1..Len(mbox) /\ mbox'[p] = mbox[Before(p)]
        /\ \A p \in 1..Len(mbox) : \E q \in 1..(Len(mbox) + 1) : q # Newcomer /\ Before(q) = p
    BY <1>1, ArriveMail
  <1>3. /\ Len(mbox) \in Nat /\ DOMAIN mbox = 1..Len(mbox) /\ Len(date) \in Nat
        /\ \A p \in 1..Len(mbox) : mbox[p] \in Messages
        /\ newest \in BOOLEAN /\ misdated \subseteq Messages /\ arrived \in Nat
    BY <1>1, MailFacts DEF MailOK
  <1> HIDE DEF m
  <1>4. DOMAIN mbox' = 1..(Len(mbox) + 1)
    BY <1>2, LenProperties
  <1>5. \A p \in 1..(Len(mbox) + 1) : p # Newcomer =>
           mbox'[p] \in Messages /\ mbox'[p] # m /\ date'[mbox'[p]] = date[mbox[Before(p)]]
    BY <1>2, <1>3
  <1>6. /\ UNCHANGED <<misdated, newest, gone, memo, pc, planVars, strikes, todo, scanVars, batchVars,
                       writeFailed, outcome, termVars, late>>
        /\ arrived' = arrived + 1 /\ pc # "end" /\ term # "exit"
    BY DEF Arrive, Running
  <1>7. \A p, q \in 1..(Len(mbox) + 1) : p # Newcomer /\ q # Newcomer /\ p < q => Before(p) < Before(q)
    BY <1>3 DEF Before
  <1>8. MailOK'
    <2>1. Distinct(mbox')
      <3>1. SUFFICES ASSUME NEW i \in 1..(Len(mbox) + 1), NEW j \in 1..(Len(mbox) + 1), i # j
                     PROVE  mbox'[i] # mbox'[j]
        BY <1>4 DEF Distinct
      <3>2. CASE i = Newcomer \/ j = Newcomer
        BY <1>2, <1>5, <3>1, <3>2
      <3>3. CASE i # Newcomer /\ j # Newcomer
        <4>1. Before(i) # Before(j)
          BY <1>3, <3>1 DEF Before
        <4>2. QED
          BY <1>1, <1>2, <1>3, <3>3, <4>1 DEF MailOK, Distinct
      <3>4. QED
        BY <3>2, <3>3
    <2>2. Len(mbox') <= Len(date')
      BY <1>1, <1>2, <1>3 DEF MailOK, m
    <2>3. ToSet(mbox') = ToSet(mbox) \cup {m}
      <3>1. ToSet(mbox') = {mbox'[i] : i \in 1..(Len(mbox) + 1)}
        BY <1>4 DEF ToSet
      <3>2. ToSet(mbox) = {mbox[i] : i \in 1..Len(mbox)}
        BY <1>3 DEF ToSet
      <3>3. QED
        BY <1>2, <3>1, <3>2
    <2>4. gone' \cap ToSet(mbox') = {} /\ gone' \cup ToSet(mbox') = Messages'
      BY <1>1, <1>2, <1>6, <2>3 DEF MailOK
    <2>5. misdated' \subseteq Messages' /\ newest' \in BOOLEAN /\ arrived' \in Nat
      BY <1>2, <1>3, <1>6
    <2>6. \A k \in Messages' \ misdated' : date'[k] # NoDate
      BY <1>1, <1>2, <1>6 DEF MailOK, Above, NoDate
    <2>7. ASSUME NEW i \in DOMAIN mbox', NEW j \in DOMAIN mbox', i < j,
                 mbox'[i] \notin misdated', mbox'[j] \notin misdated'
          PROVE  IF newest' THEN date'[mbox'[i]] >= date'[mbox'[j]] ELSE date'[mbox'[i]] <= date'[mbox'[j]]
      <3>1. \A k \in Messages \ misdated : date[k] \in {Below, In, Above}
        BY <1>1, Dating
      <3>2. \A p \in DOMAIN mbox' : mbox'[p] \notin misdated' => date'[mbox'[p]] \in {Below, In, Above}
        BY <1>2, <1>4, <1>5, <1>6, <3>1
      <3>3. date'[mbox'[i]] \in {0, 1, 2} /\ date'[mbox'[j]] \in {0, 1, 2}
        BY <2>7, <3>2 DEF Below, In, Above
      <3>4. CASE i = Newcomer
        <4>1. newest /\ date'[mbox'[i]] = 2
          BY <1>2, <1>3, <1>4, <2>7, <3>4 DEF Newcomer, Above
        <4>2. QED
          BY <1>6, <3>3, <4>1
      <3>5. CASE j = Newcomer
        <4>1. ~newest /\ date'[mbox'[j]] = 2
          BY <1>2, <1>3, <1>4, <2>7, <3>5 DEF Newcomer, Above
        <4>2. QED
          BY <1>6, <3>3, <4>1
      <3>6. CASE i # Newcomer /\ j # Newcomer
        <4>1. Before(i) < Before(j) /\ Before(i) \in 1..Len(mbox) /\ Before(j) \in 1..Len(mbox)
              /\ mbox'[i] = mbox[Before(i)] /\ mbox'[j] = mbox[Before(j)]
          BY <1>2, <1>4, <1>7, <2>7, <3>6
        <4>2. IF newest THEN date[mbox[Before(i)]] >= date[mbox[Before(j)]]
              ELSE date[mbox[Before(i)]] <= date[mbox[Before(j)]]
          BY <1>1, <1>3, <1>6, <2>7, <4>1 DEF MailOK
        <4>3. QED
          BY <1>4, <1>5, <1>6, <2>7, <3>6, <4>2
      <3>7. QED
        BY <3>4, <3>5, <3>6
    <2>8. QED
      BY <1>2, <2>1, <2>2, <2>4, <2>5, <2>6, <2>7 DEF MailOK
  <1>9. BookOK' /\ HandlerOK'
    BY <1>1, <1>6 DEF BookOK, HandlerOK, CancelStrandsNothing, Kept, planVars, scanVars, batchVars, termVars
  <1>10. InWindow' = InWindow
    BY <1>2 DEF InWindow, In, Above
  <1>11. BatchesOK'
    BY <1>1, <1>6, <1>10 DEF BatchesOK, scanVars, batchVars, termVars
  <1>12. CountOK'
    <2>1. ASSUME pc' \in {"probe", "walk"}, ~blind', arrived' = 0 \/ ~newest', NEW p \in DOMAIN mbox'
          PROVE  /\ p > total' => date'[mbox'[p]] = Above
                 /\ p > limit' /\ Readable' => date'[mbox'[p]] = Above
      <3>1. ~newest /\ ~blind /\ pc \in {"probe", "walk"}
        BY <1>3, <1>6, <2>1 DEF planVars
      <3>2. CASE p = Newcomer
        BY <1>2, <3>2
      <3>3. CASE p # Newcomer
        <4>1. Before(p) = p /\ p \in 1..Len(mbox) /\ date'[mbox'[p]] = date[mbox[p]]
          BY <1>2, <1>4, <1>5, <2>1, <3>1, <3>3 DEF Before
        <4>2. Readable' => Readable
          BY <1>2, <1>3, <1>6, ConstantFacts DEF Readable, m
        <4>3. QED
          BY <1>1, <1>3, <1>6, <3>1, <4>1, <4>2 DEF CountOK, planVars
      <3>4. QED
        BY <3>2, <3>3
    <2>2. Len(date) <= Len(date')
      BY <1>2, <1>3 DEF m
    <2>3. pc' = "probe" /\ ~blind' =>
            total' >= 1 /\ limit' = Least(total', Cap) /\ probeEnd' = ProbeRange(total', limit').hi /\ total' <= Len(date')
      <3>1. total \in Nat
        BY <1>1 DEF BookOK
      <3>2. QED
        BY <1>1, <1>2, <1>3, <1>6, <2>2, <3>1 DEF CountOK, planVars, m
    <2>4. (pc' \in {"probe", "walk"} /\ blind' => limit' = Cap) /\ (pc' = "probe" /\ blind' => probeEnd' <= FullProbe)
      BY <1>1, <1>6 DEF CountOK, planVars, FullProbe
    <2>5. QED
      BY <2>1, <2>3, <2>4 DEF CountOK
  <1>13. PlanOK'
    <2>1. SUFFICES ASSUME pc' = "walk", Good'
                   PROVE  (IF blind \/ order THEN UpPlan ELSE DownPlan)'
      BY DEF PlanOK
    <2>2. Good /\ PlanOK /\ pc = "walk" /\ (blind \/ ~newest)
      <3>1. arrived' # 0
        BY <1>3, <1>6
      <3>2. Readable
        BY <1>2, <1>3, <1>6, <2>1, ConstantFacts DEF Good, Readable, m
      <3>3. Oriented /\ Anchored /\ (blind \/ ~newest)
        BY <1>6, <2>1, <3>1 DEF Good, Oriented, Anchored, planVars
      <3>4. QED
        BY <1>1, <1>6, <2>1, <3>2, <3>3 DEF Good
    <2>3. ASSUME NEW p \in DOMAIN mbox', Needed(mbox[p])'
          PROVE  /\ Before(p) \in 1..Len(mbox) /\ Needed(mbox[Before(p)])
                 /\ p \in Nat /\ Before(p) <= p /\ (~newest => Before(p) = p)
      <3>1. date'[mbox'[p]] = In /\ mbox'[p] \notin misdated \cup Kept
        BY <1>6, <2>3 DEF Needed, Kept, batchVars
      <3>2. p # Newcomer
        BY <1>2, <3>1 DEF In, Above
      <3>3. Before(p) \in 1..Len(mbox) /\ mbox'[p] = mbox[Before(p)] /\ date[mbox[Before(p)]] = In
        BY <1>2, <1>4, <1>5, <2>3, <3>1, <3>2
      <3>4. p \in Nat /\ Before(p) <= p /\ (~newest => Before(p) = p)
        BY <1>3, <1>4, <2>3 DEF Before
      <3>5. QED
        BY <3>1, <3>3, <3>4 DEF Needed
    <2>6. blind' = blind /\ order' = order
      BY <1>6 DEF planVars
    <2>4. CASE blind \/ order
      <3>1. UpPlan
        BY <2>2, <2>4 DEF PlanOK
      <3>2. todo # <<>> => Up(todo, Head(todo).lo, limit) /\ indexed < Head(todo).lo /\ Head(todo).lo \in Nat
        <4>1. todo # <<>> => Head(todo) \in Ranges
          BY <1>1, HeadTailProperties DEF BookOK
        <4>2. QED
          BY <3>1, <4>1, RangeFacts DEF UpPlan
      <3>3. \A p \in DOMAIN mbox' : Needed(mbox[p])' => todo # <<>> /\ ~edge /\ p >= Head(todo).lo
        <4>1. SUFFICES ASSUME NEW p \in DOMAIN mbox', Needed(mbox[p])'
                       PROVE  todo # <<>> /\ ~edge /\ p >= Head(todo).lo
          OBVIOUS
        <4>2. todo # <<>> /\ ~edge /\ Before(p) >= Head(todo).lo /\ Before(p) \in Nat /\ p \in Nat /\ Before(p) <= p
          BY <1>3, <2>3, <3>1, <4>1 DEF UpPlan
        <4>3. QED
          BY <3>2, <4>2
      <3>4. order /\ ~newest /\ ~edge /\ indexed > 0 /\ todo # <<>> =>
              \E p \in DOMAIN mbox' : p < Head(todo).lo /\ date'[mbox'[p]] = In
        <4>1. SUFFICES ASSUME order, ~newest, ~edge, indexed > 0, todo # <<>>
                       PROVE  \E p \in DOMAIN mbox' : p < Head(todo).lo /\ date'[mbox'[p]] = In
          OBVIOUS
        <4>2. PICK p \in 1..Len(mbox) : p < Head(todo).lo /\ date[mbox[p]] = In
          BY <1>3, <3>1, <4>1 DEF UpPlan
        <4>3. PICK q \in 1..(Len(mbox) + 1) : q # Newcomer /\ Before(q) = p
          BY <1>2, <4>2
        <4>4. q = p
          BY <4>1, <4>3 DEF Before
        <4>5. QED
          BY <1>4, <1>5, <4>2, <4>3, <4>4
      <3>5. UpPlan'
        BY <1>6, <3>2, <3>3, <3>4 DEF UpPlan, planVars, scanVars
      <3>6. QED
        BY <2>4, <2>6, <3>5
    <2>5. CASE ~ (blind \/ order)
      <3>1. DownPlan /\ ~newest
        BY <2>2, <2>5 DEF PlanOK
      <3>2. \A p \in DOMAIN mbox' : Needed(mbox[p])' => todo # <<>> /\ ~edge /\ p <= Head(todo).hi
        BY <1>3, <2>3, <3>1 DEF DownPlan
      <3>3. DownPlan'
        BY <1>6, <3>1, <3>2 DEF DownPlan, planVars, scanVars
      <3>4. QED
        BY <2>5, <2>6, <3>3
    <2>7. QED
      BY <2>4, <2>5
  <1>14. NoHoles'
    BY <1>1, <1>6 DEF NoHoles, Clean, BatchesOK
  <1>15. QED
    BY <1>8, <1>9, <1>11, <1>12, <1>13, <1>14 DEF IInv

LEMMA DepartKeeps == IInv /\ Depart /\ late' = late => IInv'
  <1> SUFFICES ASSUME IInv, Depart, late' = late
               PROVE  IInv'
    OBVIOUS
  <1>1. MailOK /\ BookOK /\ BatchesOK /\ HandlerOK /\ CountOK /\ PlanOK /\ NoHoles
    BY DEF IInv
  <1>2. /\ Len(mbox) \in Nat /\ DOMAIN mbox = 1..Len(mbox) /\ Len(date) \in Nat
        /\ \A p \in 1..Len(mbox) : mbox[p] \in Messages
        /\ mbox \in Seq(Messages)
    BY <1>1, MailFacts DEF MailOK
  <1>3. /\ UNCHANGED <<date, misdated, newest, arrived, memo, pc, planVars, strikes, todo, scanVars, batchVars,
                       writeFailed, outcome, termVars, late>>
        /\ pc # "end" /\ term # "exit"
    BY DEF Depart, Running
  <1>4. PICK i \in 1..Len(mbox) : mbox' = RemoveAt(mbox, i) /\ gone' = gone \cup {mbox[i]}
    BY <1>2 DEF Depart
  <1> DEFINE Was(p) == IF p < i THEN p ELSE p + 1
             n == Len(mbox) - 1
  <1>5. /\ mbox' \in Seq(Messages) /\ Len(mbox') = n /\ DOMAIN mbox' = 1..n
        /\ \A p \in 1..n : mbox'[p] = IF p < i THEN mbox[p] ELSE mbox[p + 1]
    BY <1>2, <1>4, RemoveFacts, LenProperties
  <1>6. \A p \in 1..n : Was(p) \in 1..Len(mbox) /\ Was(p) # i /\ mbox'[p] = mbox[Was(p)] /\ Was(p) >= p /\ p \in Nat
    BY <1>2, <1>5
  <1>7. \A p, q \in 1..n : p < q => Was(p) < Was(q)
    BY <1>2
  <1>8. \A p \in 1..Len(mbox) : p # i => \E q \in 1..n : Was(q) = p
    <2>1. TAKE p \in 1..Len(mbox)
    <2>2. HAVE p # i
    <2>3. CASE p < i
      <3>1. p \in 1..n /\ Was(p) = p
        BY <1>2, <2>3
      <3>2. QED
        BY <3>1
    <2>4. CASE p > i
      <3>1. p - 1 \in 1..n /\ Was(p - 1) = p
        BY <1>2, <2>4
      <3>2. QED
        BY <3>1
    <2>5. QED
      BY <1>2, <2>2, <2>3, <2>4
  <1>9. Messages' = Messages
    BY <1>3 DEF Messages
  <1> HIDE DEF Was, n
  <1>10. MailOK'
    <2>1. Distinct(mbox')
      <3>1. SUFFICES ASSUME NEW j \in 1..n, NEW k \in 1..n, j # k
                     PROVE  mbox'[j] # mbox'[k]
        BY <1>5 DEF Distinct
      <3>2. Was(j) # Was(k)
        <4>1. j < k \/ k < j
          BY <1>2, <3>1 DEF n
        <4>2. Was(j) \in Nat /\ Was(k) \in Nat
          BY <1>2, <1>6, <3>1
        <4>3. QED
          BY <1>7, <3>1, <4>1, <4>2
      <3>3. QED
        BY <1>1, <1>2, <1>6, <3>1, <3>2 DEF MailOK, Distinct
    <2>2. Len(mbox') <= Len(date')
      BY <1>1, <1>2, <1>3, <1>5 DEF MailOK, n
    <2>3. ToSet(mbox') = ToSet(mbox) \ {mbox[i]}
      <3>1. ToSet(mbox') = {mbox'[k] : k \in 1..n} /\ ToSet(mbox) = {mbox[k] : k \in 1..Len(mbox)}
        BY <1>2, <1>5 DEF ToSet
      <3>2. \A k \in 1..Len(mbox) : k # i => mbox[k] # mbox[i]
        BY <1>1, <1>2 DEF MailOK, Distinct
      <3>3. \A k \in 1..n : mbox'[k] \in ToSet(mbox) \ {mbox[i]}
        BY <1>6, <3>1, <3>2
      <3>4. ASSUME NEW p \in 1..Len(mbox), mbox[p] # mbox[i]
            PROVE  mbox[p] \in ToSet(mbox')
        <4>1. PICK q \in 1..n : Was(q) = p
          BY <1>8, <3>4
        <4>2. QED
          BY <1>6, <3>1, <4>1
      <3>5. QED
        BY <3>1, <3>3, <3>4
    <2>4. mbox[i] \in ToSet(mbox)
      BY <1>2 DEF ToSet
    <2>5. gone' \cap ToSet(mbox') = {} /\ gone' \cup ToSet(mbox') = Messages'
      BY <1>1, <1>4, <1>9, <2>3, <2>4 DEF MailOK
    <2>6. ASSUME NEW j \in 1..n, NEW k \in 1..n, j < k, mbox'[j] \notin misdated', mbox'[k] \notin misdated'
          PROVE  IF newest' THEN date'[mbox'[j]] >= date'[mbox'[k]] ELSE date'[mbox'[j]] <= date'[mbox'[k]]
      <3>1. Was(j) < Was(k) /\ Was(j) \in DOMAIN mbox /\ Was(k) \in DOMAIN mbox
        BY <1>2, <1>6, <1>7, <2>6
      <3>2. mbox'[j] = mbox[Was(j)] /\ mbox'[k] = mbox[Was(k)]
        BY <1>6
      <3>3. mbox[Was(j)] \notin misdated /\ mbox[Was(k)] \notin misdated
        BY <1>3, <2>6, <3>2
      <3>4. IF newest THEN date[mbox[Was(j)]] >= date[mbox[Was(k)]] ELSE date[mbox[Was(j)]] <= date[mbox[Was(k)]]
        BY <1>1, <3>1, <3>3 DEF MailOK
      <3>5. QED
        BY <1>3, <3>2, <3>4
    <2>7. \A m \in Messages' \ misdated' : date'[m] # NoDate
      BY <1>1, <1>3, <1>9 DEF MailOK
    <2>8. date' \in Seq(Dates) /\ mbox' \in Seq(Messages') /\ misdated' \subseteq Messages'
          /\ newest' \in BOOLEAN /\ arrived' \in Nat
      BY <1>1, <1>3, <1>5, <1>9 DEF MailOK
    <2>9. QED
      BY <1>5, <2>1, <2>2, <2>5, <2>6, <2>7, <2>8 DEF MailOK
  <1>11. BookOK' /\ HandlerOK'
    BY <1>1, <1>3 DEF BookOK, HandlerOK, CancelStrandsNothing, Kept, planVars, scanVars, batchVars, termVars
  <1>12. InWindow' = InWindow
    BY <1>3, <1>9 DEF InWindow
  <1>13. BatchesOK'
    BY <1>1, <1>3, <1>12 DEF BatchesOK, scanVars, batchVars, termVars
  <1>14. CountOK'
    <2>1. ASSUME pc' \in {"probe", "walk"}, ~blind', arrived' = 0 \/ ~newest', NEW p \in DOMAIN mbox'
          PROVE  /\ p > total' => date'[mbox'[p]] = Above
                 /\ p > limit' /\ Readable' => date'[mbox'[p]] = Above
      <3>1. p \in 1..n /\ total \in Nat /\ limit \in Nat
        BY <1>1, <1>5, <2>1 DEF BookOK
      <3>2. Was(p) \in DOMAIN mbox /\ mbox'[p] = mbox[Was(p)] /\ Was(p) >= p /\ p \in Nat /\ Was(p) \in Nat
        BY <1>2, <1>6, <3>1
      <3>3. /\ Was(p) > total => date[mbox[Was(p)]] = Above
            /\ Was(p) > limit /\ Readable => date[mbox[Was(p)]] = Above
        BY <1>1, <1>3, <2>1, <3>2 DEF CountOK, planVars
      <3>4. Readable' => Readable
        BY <1>3 DEF Readable
      <3>5. (p > total => Was(p) > total) /\ (p > limit => Was(p) > limit)
        BY <3>1, <3>2
      <3>6. QED
        BY <1>3, <3>2, <3>3, <3>4, <3>5 DEF planVars
    <2>2. QED
      BY <1>1, <1>3, <2>1 DEF CountOK, planVars, FullProbe
  <1>15. PlanOK'
    <2>1. SUFFICES ASSUME pc' = "walk", Good'
                   PROVE  (IF blind \/ order THEN UpPlan ELSE DownPlan)'
      BY DEF PlanOK
    <2>2. blind' = blind /\ order' = order /\ ~blind /\ ~order
      BY <1>3, <1>4, <2>1 DEF Good, Anchored, planVars
    <2>3. Good
      BY <1>3, <2>1, <2>2 DEF Good, Oriented, Readable, Anchored, planVars
    <2>4. DownPlan
      BY <1>1, <1>3, <2>1, <2>2, <2>3 DEF PlanOK
    <2>5. ASSUME NEW p \in 1..n, Needed(mbox[p])'
          PROVE  todo # <<>> /\ ~edge /\ p <= Head(todo).hi
      <3>1. Was(p) \in DOMAIN mbox /\ mbox'[p] = mbox[Was(p)] /\ Was(p) >= p /\ p \in Nat /\ Was(p) \in Nat
        BY <1>2, <1>6
      <3>2. Needed(mbox[Was(p)])
        BY <1>3, <2>5, <3>1 DEF Needed, Kept, batchVars
      <3>3. todo # <<>> /\ ~edge /\ Was(p) <= Head(todo).hi
        BY <2>4, <3>1, <3>2 DEF DownPlan
      <3>4. Head(todo).hi \in Nat
        BY <1>1, <3>3, HeadTailProperties, RangeFacts DEF BookOK
      <3>5. QED
        BY <3>1, <3>3, <3>4
    <2>6. DownPlan'
      BY <1>3, <1>5, <2>4, <2>5 DEF DownPlan, planVars, scanVars
    <2>7. QED
      BY <2>2, <2>6
  <1>16. NoHoles'
    BY <1>1, <1>3 DEF NoHoles, Clean, BatchesOK
  <1>17. QED
    BY <1>10, <1>11, <1>13, <1>14, <1>15, <1>16 DEF IInv

-----------------------------------------------------------------------------
(* The steps that read nothing.                                            *)

LEMMA MailStays ==
    ASSUME MailOK, UNCHANGED mailVars
    PROVE  MailOK' /\ Messages' = Messages /\ InWindow' = InWindow
  BY DEF MailOK, mailVars, Messages, InWindow, Distinct, ToSet

\* A plan depends on the mailbox, on what is kept and on where the walk is.
LEMMA PlanStays ==
    ASSUME PlanOK, UNCHANGED <<mailVars, blind, order, defaulted, limit, todo, edge, indexed>>, Kept' = Kept,
           pc' = "walk" => pc = "walk"
    PROVE  PlanOK'
  BY DEF PlanOK, Good, Oriented, Readable, Anchored, UpPlan, DownPlan, Needed, mailVars, Up, Down

LEMMA CountStays ==
    ASSUME CountOK, UNCHANGED <<mailVars, blind, total, limit, probeEnd>>,
           pc' = "walk" => pc = "walk", pc' = "probe" => pc = "probe"
    PROVE  CountOK'
  BY DEF CountOK, Readable, mailVars

LEMMA StopKeeps == IInv /\ Stop => IInv'
  <1> SUFFICES ASSUME IInv, Stop
               PROVE  IInv'
    OBVIOUS
  <1>1. MailOK /\ BookOK /\ BatchesOK /\ HandlerOK /\ CountOK /\ PlanOK /\ NoHoles
    BY DEF IInv
  <1>2. /\ UNCHANGED <<mailVars, memo, pc, planVars, strikes, todo, scanVars, batchVars, writeFailed, outcome, flushOK>>
        /\ term' = "stopped" /\ owed' = ToSet(pending)
    BY DEF Stop
  <1>3. late' \in BOOLEAN
    BY DEF Stop
  <1>4. MailOK' /\ InWindow' = InWindow
    BY <1>1, <1>2, MailStays
  <1>5. BookOK'
    BY <1>1, <1>2, <1>3 DEF BookOK, planVars, scanVars
  <1>6. ToSet(pending) \subseteq InWindow
    BY <1>1, MembersOfSeq DEF BatchesOK
  <1>7. BatchesOK'
    BY <1>1, <1>2, <1>4, <1>6 DEF BatchesOK, scanVars, batchVars
  <1>8. HandlerOK'
    BY <1>2 DEF HandlerOK, CancelStrandsNothing, Kept, batchVars
  <1>9. CountOK' /\ PlanOK'
    BY <1>1, <1>2, CountStays, PlanStays DEF planVars, scanVars, batchVars, Kept
  <1>10. NoHoles'
    BY <1>2 DEF NoHoles, Clean, Cancelled
  <1>11. QED
    BY <1>4, <1>5, <1>7, <1>8, <1>9, <1>10 DEF IInv

LEMMA HandlerKeeps == IInv /\ HandlerStep /\ late' = late => IInv'
  <1> SUFFICES ASSUME IInv, HandlerStep, late' = late
               PROVE  IInv'
    OBVIOUS
  <1>1. MailOK /\ BookOK /\ BatchesOK /\ HandlerOK /\ CountOK /\ PlanOK /\ NoHoles
    BY DEF IInv
  <1>2. PICK ok \in BOOLEAN : HandlerFlush(ok)
    BY DEF HandlerStep, FlushFirst, FlushLast
  <1>3. /\ UNCHANGED <<mailVars, memo, pc, planVars, strikes, todo, scanVars, writeFailed, outcome, owed>>
        /\ term \in {"stopped", "flushed"} /\ term' \in {"flushed", "exit"}
    BY DEF HandlerStep, FlushFirst, FlushLast
  <1>4. flushOK' = (flushOK /\ ok)
    BY <1>2 DEF HandlerFlush
  <1>5. /\ pending' \in Seq(InWindow) /\ staged' \subseteq InWindow /\ Kept' = Kept /\ Len(pending') <= Len(pending)
        /\ ok /\ HasFlusher => pending' = <<>>
        /\ ~HasFlusher => ok /\ UNCHANGED batchVars
        /\ pending = <<>> => pending' = <<>>
    <2>1. CASE HasFlusher
      <3>1. Flush(ok)
        BY <1>2, <2>1 DEF HandlerFlush
      <3>2. /\ pending' \in Seq(InWindow) /\ staged' \subseteq InWindow /\ Kept' = Kept
            /\ Len(pending') <= Len(pending)
            /\ ok => pending' = <<>>
            /\ ~ok => UNCHANGED batchVars
        BY <1>1, <3>1, FlushKeeps DEF BatchesOK
      <3>3. pending = <<>> => pending' = <<>>
        BY <3>1 DEF Flush
      <3>4. QED
        BY <2>1, <3>2, <3>3
    <2>2. CASE ~HasFlusher
      <3>1. ok /\ UNCHANGED batchVars
        BY <1>2, <2>2 DEF HandlerFlush
      <3>2. Len(pending) \in Nat
        BY <1>1, LenProperties DEF BatchesOK
      <3>3. QED
        BY <1>1, <2>2, <3>1, <3>2 DEF BatchesOK, Kept, batchVars
    <2>3. QED
      BY <2>1, <2>2
  <1>6. MailOK' /\ InWindow' = InWindow
    BY <1>1, <1>3, MailStays
  <1>7. BookOK'
    <2>1. flushOK' \in BOOLEAN
      BY <1>4, Zenon
    <2>2. QED
      BY <1>1, <1>3, <2>1 DEF BookOK, planVars, scanVars
  <1>8. BatchesOK'
    <2>1. Len(pending) \in Nat /\ Len(pending') \in Nat
      BY <1>1, <1>5, LenProperties DEF BatchesOK
    <2>2. pc \in {"count", "probe"} => staged' = {}
      <3>1. ASSUME pc \in {"count", "probe"}
            PROVE  staged' = {}
        <4>1. pending = <<>> /\ staged = {}
          BY <1>1, <3>1 DEF BatchesOK
        <4>2. Kept = {}
          BY <4>1 DEF Kept, ToSet
        <4>3. QED
          BY <1>5, <4>2 DEF Kept
      <3>2. QED
        BY <3>1
    <2>3. QED
      BY <1>1, <1>3, <1>5, <1>6, <2>1, <2>2, ConstantFacts DEF BatchesOK, scanVars
  <1>9. HandlerOK'
    <2>1. owed' \subseteq Kept'
      BY <1>1, <1>3, <1>5 DEF HandlerOK
    <2>2. ASSUME flushOK'
          PROVE  owed' \subseteq staged' \/ outcome' = "transport"
      <3>1. ok
        BY <1>4, <2>2
      <3>2. CASE pending' = <<>>
        BY <2>1, <3>2 DEF Kept, ToSet
      <3>3. CASE ~HasFlusher
        <4>1. pending = <<>> \/ outcome = "transport"
          BY <1>1, <3>3 DEF BatchesOK, BookOK, HasFlusher
        <4>2. QED
          BY <1>3, <1>5, <3>2, <4>1
      <3>4. QED
        BY <1>5, <3>1, <3>2, <3>3
    <2>3. QED
      BY <1>3, <2>1, <2>2 DEF HandlerOK, CancelStrandsNothing
  <1>10. CountOK' /\ PlanOK'
    BY <1>1, <1>3, <1>5, CountStays, PlanStays DEF planVars, scanVars
  <1>11. NoHoles'
    BY <1>3 DEF NoHoles, Clean, Cancelled
  <1>12. QED
    BY <1>6, <1>7, <1>8, <1>9, <1>10, <1>11 DEF IInv

-----------------------------------------------------------------------------
(* The count.                                                              *)

LEMMA BatchesStay ==
    ASSUME BatchesOK, InWindow' = InWindow, pc # "end", pc' # "end",
           UNCHANGED <<batchVars, writeFailed, outcome, owed, edge, indexed>>,
           pc' \in {"count", "probe"} => pc \in {"count", "probe"}
    PROVE  BatchesOK'
  BY DEF BatchesOK, batchVars

LEMMA HandlerStays ==
    ASSUME HandlerOK, Running, UNCHANGED termVars, Kept' = Kept
    PROVE  HandlerOK'
  BY DEF HandlerOK, Running, termVars, CancelStrandsNothing

LEMMA BookFacts ==
    ASSUME BookOK
    PROVE  /\ memo \in BOOLEAN /\ blind \in BOOLEAN /\ order \in BOOLEAN /\ defaulted \in BOOLEAN
           /\ edge \in BOOLEAN /\ writeFailed \in BOOLEAN /\ late \in BOOLEAN /\ flushOK \in BOOLEAN
           /\ total \in Nat /\ limit \in Nat /\ probeEnd \in Nat /\ strikes \in Nat /\ indexed \in Nat
           /\ useless \in Nat /\ tail \in Nat /\ todo \in Seq(Ranges)
           /\ (defaulted => order) /\ pc \in {"count", "probe", "walk", "skip", "abort", "end"}
  BY DEF BookOK

\* The books after a step that reads nothing.
LEMMA BookStays ==
    ASSUME BookOK, UNCHANGED <<memo, order, defaulted, scanVars, writeFailed, termVars>>,
           late' \in BOOLEAN, blind' \in BOOLEAN, total' \in Nat, limit' \in Nat, probeEnd' \in Nat, strikes' \in Nat,
           todo' \in Seq(Ranges), pc' \in {"count", "probe", "walk", "skip", "abort", "end"},
           strikes' <= 3, pc' = "walk" => strikes' <= 2, pc' \in {"count", "probe"} => strikes' <= 1,
           pc' = "probe" => 1 <= probeEnd' /\ probeEnd' <= ChunkSize /\ probeEnd' # AvoidWidth
    PROVE  BookOK'
  <1>1. /\ memo' \in BOOLEAN /\ order' \in BOOLEAN /\ defaulted' \in BOOLEAN
        /\ edge' \in BOOLEAN /\ writeFailed' \in BOOLEAN /\ flushOK' \in BOOLEAN
        /\ indexed' \in Nat /\ useless' \in Nat /\ tail' \in Nat /\ (defaulted' => order')
    BY BookFacts DEF scanVars, termVars
  <1>2. strikes' <= (IF pc' \in {"count", "probe"} THEN 1 ELSE IF pc' = "walk" THEN 2 ELSE 3)
    OBVIOUS
  <1>3. QED
    BY <1>1, <1>2 DEF BookOK

\* What remains of a plan after its next range.
LEMMA UpNext ==
    ASSUME NEW s, NEW lo, NEW hi \in Nat, Up(s, lo, hi), s # <<>>
    PROVE  /\ Head(s) \in Ranges /\ Head(s).lo = lo /\ Head(s).hi <= hi
           /\ Tail(s) \in Seq(Ranges) /\ Up(Tail(s), Head(s).hi + 1, hi)
           /\ Tail(s) = <<>> => Head(s).hi = hi
           /\ Tail(s) # <<>> => Head(Tail(s)).lo = Head(s).hi + 1 /\ Up(Tail(s), Head(Tail(s)).lo, hi)
  <1>1. s \in Seq(Ranges) /\ Len(s) \in Nat /\ Len(s) >= 1
    BY LenProperties, EmptySeq DEF Up
  <1>2. Head(s) \in Ranges /\ Tail(s) \in Seq(Ranges) /\ Head(s) = s[1]
    BY <1>1, HeadTailProperties
  <1>3. Head(s).lo = lo /\ Head(s).hi <= hi
    BY <1>1, <1>2 DEF Up
  <1>4. Up(Tail(s), Head(s).hi + 1, hi)
    BY UpTail
  <1>5. Head(s).hi \in Nat
    BY <1>2, RangeFacts
  <1>6. Tail(s) = <<>> => Head(s).hi = hi
    <2>1. Tail(s) = <<>> => Head(s).hi + 1 = hi + 1
      BY <1>4 DEF Up
    <2>2. QED
      BY <1>5, <2>1
  <1>7. Tail(s) # <<>> => Head(Tail(s)).lo = Head(s).hi + 1
    <2>1. Tail(s) # <<>> => Head(Tail(s)) = Tail(s)[1]
      BY <1>2, HeadTailProperties
    <2>2. QED
      BY <1>4, <2>1 DEF Up
  <1>8. QED
    BY <1>2, <1>3, <1>4, <1>6, <1>7

LEMMA DownNext ==
    ASSUME NEW s, NEW hi \in Nat, Down(s, 1, hi), s # <<>>
    PROVE  /\ Head(s) \in Ranges /\ Head(s).hi = hi
           /\ Tail(s) \in Seq(Ranges)
           /\ Tail(s) = <<>> => Head(s).lo = 1
           /\ Tail(s) # <<>> => Head(Tail(s)).hi = Head(s).lo - 1 /\ Down(Tail(s), 1, Head(Tail(s)).hi)
  <1>1. s \in Seq(Ranges) /\ Len(s) \in Nat /\ Len(s) >= 1
    BY LenProperties, EmptySeq DEF Down
  <1>2. Head(s) \in Ranges /\ Tail(s) \in Seq(Ranges) /\ Head(s) = s[1]
    BY <1>1, HeadTailProperties
  <1>3. Head(s).hi = hi
    BY <1>2 DEF Down
  <1>4. Down(Tail(s), 1, Head(s).lo - 1) /\ (Tail(s) = <<>> => Head(s).lo = 1)
    BY DownTail
  <1>5. Tail(s) # <<>> => Head(Tail(s)).hi = Head(s).lo - 1
    <2>1. Tail(s) # <<>> => Head(Tail(s)) = Tail(s)[1]
      BY <1>2, HeadTailProperties
    <2>2. QED
      BY <1>4, <2>1 DEF Down
  <1>6. QED
    BY <1>2, <1>3, <1>4, <1>5

LEMMA ProbeRangeFacts ==
    ASSUME NEW n \in Nat, NEW l \in Nat, n >= 1, l >= 1
    PROVE  LET e == ProbeRange(n, l).hi IN
           /\ e = PieceEnd(1, Least(n, l))
           /\ e \in Nat /\ 1 <= e /\ e <= ChunkSize /\ e # AvoidWidth /\ e <= n /\ e <= l
  <1> DEFINE k == Least(n, l)
             h == Least(ChunkSize, k)
  <1>1. k \in Nat /\ k >= 1 /\ k <= n /\ k <= l /\ Least(l, n) = k
    BY DEF Least
  <1>2. h \in Nat /\ h >= 1 /\ h <= k /\ h <= ChunkSize
    BY <1>1, ConstantFacts DEF Least
  <1>3. Least(1 + ChunkSize - 1, k) = h
    BY <1>1, ConstantFacts DEF Least
  <1>4. ProbeRange(n, l).hi = Most(1, IF h = AvoidWidth THEN h - 1 ELSE h)
    BY <1>1 DEF ProbeRange, Piece
  <1>5. PieceEnd(1, k) = IF h - 1 + 1 = AvoidWidth THEN h - 1 ELSE h
    BY <1>3 DEF PieceEnd
  <1> HIDE DEF h, k
  <1>6. h - 1 + 1 = h
    BY <1>2
  <1>7. QED
    BY <1>1, <1>2, <1>4, <1>5, <1>6, ConstantFacts DEF Most, k

LEMMA FullProbeFacts ==
    /\ FullProbe = PieceEnd(1, Cap)
    /\ FullProbe \in Nat /\ 1 <= FullProbe /\ FullProbe <= ChunkSize /\ FullProbe # AvoidWidth /\ FullProbe <= Cap
  <1>1. Cap \in Nat /\ Cap >= 1 /\ Least(Cap, Cap) = Cap
    BY ConstantFacts DEF Least
  <1>2. QED
    BY <1>1, ProbeRangeFacts DEF FullProbe

LEMMA CountKeeps == IInv /\ Count /\ late' \in BOOLEAN => IInv'
  <1> SUFFICES ASSUME IInv, Count, late' \in BOOLEAN
               PROVE  IInv'
    OBVIOUS
  <1>1. MailOK /\ BookOK /\ BatchesOK /\ HandlerOK /\ CountOK /\ PlanOK /\ NoHoles
    BY DEF IInv
  <1>2. /\ UNCHANGED <<mailVars, memo, order, defaulted, todo, scanVars, batchVars, writeFailed, termVars>>
        /\ pc = "count" /\ Running
    BY DEF Count
  <1>3. /\ MailOK' /\ InWindow' = InWindow /\ Len(mbox) \in Nat /\ Len(date) \in Nat /\ DOMAIN mbox = 1..Len(mbox)
        /\ Len(mbox) <= Len(date)
    BY <1>1, <1>2, MailStays, MailFacts DEF MailOK
  <1>4. HandlerOK'
    BY <1>1, <1>2, HandlerStays DEF Kept, batchVars
  <1>5. pending = <<>> /\ pending' = <<>> /\ outcome = "none" /\ staged = {}
    BY <1>1, <1>2 DEF BatchesOK, batchVars
  <1>6. strikes \in Nat
    BY <1>1 DEF BookOK
  <1>7. CASE /\ total' = Len(mbox) /\ limit' = Least(total', Cap) /\ blind' = FALSE /\ strikes' = 0
             /\ probeEnd' = ProbeRange(total', limit').hi
             /\ IF total' = 0 THEN pc' = "end" /\ outcome' = "ok"
                ELSE pc' = "probe" /\ UNCHANGED outcome
    <2>1. limit' \in Nat /\ (total' >= 1 => limit' >= 1) /\ limit' <= total'
      BY <1>3, <1>7, ConstantFacts DEF Least
    <2>2. total' >= 1 => /\ probeEnd' \in Nat /\ 1 <= probeEnd' /\ probeEnd' <= ChunkSize /\ probeEnd' # AvoidWidth
      BY <1>3, <1>7, <2>1, ProbeRangeFacts
    <2>3. probeEnd' \in Nat
      <3>1. CASE total' = 0
        BY <1>7, <2>1, <3>1, ConstantFacts DEF ProbeRange, Least, Most, Piece
      <3>2. QED
        BY <1>3, <1>7, <2>2, <3>1
    <2>4. BookOK'
      <3>1. total' \in Nat /\ todo' \in Seq(Ranges) /\ blind' \in BOOLEAN /\ strikes' = 0
        BY <1>1, <1>2, <1>3, <1>7, BookFacts
      <3>a. /\ strikes' \in Nat /\ strikes' <= 3 /\ strikes' <= 2 /\ strikes' <= 1
            /\ late' \in BOOLEAN /\ blind' \in BOOLEAN
        BY <3>1
      <3>2. pc' \in {"end", "probe"} /\ (pc' = "probe" => total' >= 1)
        BY <1>3, <1>7
      <3>3. QED
        BY <1>1, <1>2, <2>1, <2>2, <2>3, <3>1, <3>2, <3>a, BookStays DEF scanVars, termVars
    <2>5. BatchesOK'
      BY <1>1, <1>2, <1>3, <1>5, <1>7 DEF BatchesOK, scanVars, batchVars, termVars
    <2>6. CountOK'
      <3>1. mbox' = mbox /\ date' = date /\ misdated' = misdated
        BY <1>2 DEF mailVars
      <3>2. Readable' => limit' = total'
        <4>1. Readable' => Len(date) <= Cap
          BY <3>1 DEF Readable
        <4>2. limit' = Least(total', Cap) /\ total' = Len(mbox)
          BY <1>7
        <4>3. Cap \in Nat /\ Len(mbox) \in Nat /\ Len(date) \in Nat /\ Len(mbox) <= Len(date)
          BY <1>3, ConstantFacts
        <4>4. Len(mbox) <= Cap => Least(Len(mbox), Cap) = Len(mbox)
          BY <4>3 DEF Least
        <4>5. QED
          BY <4>1, <4>2, <4>3, <4>4
      <3>3. \A p \in DOMAIN mbox' : ~ (p > total') /\ (Readable' => ~ (p > limit'))
        BY <1>3, <1>7, <3>1, <3>2
      <3>4. pc' = "probe" => total' >= 1 /\ total' <= Len(date')
        BY <1>3, <1>7, <3>1
      <3>5. QED
        BY <1>7, <3>3, <3>4 DEF CountOK
    <2>7. PlanOK'
      BY <1>7 DEF PlanOK
    <2>8. NoHoles'
      <3>1. CASE total' = 0
        <4>1. ToSet(mbox) = {}
          BY <1>3, <1>7, <3>1 DEF ToSet
        <4>2. gone' = Messages'
          BY <1>1, <1>2, <4>1 DEF MailOK, mailVars, Messages
        <4>3. Missed' = {}
          BY <4>2 DEF Missed, Messages
        <4>4. QED
          BY <4>3 DEF NoHoles
      <3>2. CASE total' # 0
        BY <1>5, <1>7, <3>2 DEF NoHoles, Clean
      <3>3. QED
        BY <3>1, <3>2
    <2>9. QED
      BY <1>3, <1>4, <2>4, <2>5, <2>6, <2>7, <2>8 DEF IInv
  <1>8. CASE strikes = 0 /\ strikes' = 1 /\ UNCHANGED <<total, limit, blind, probeEnd, pc, outcome>>
    <2>1. BookOK'
      <3>1. UNCHANGED <<total, limit, blind, probeEnd, pc, todo>> /\ strikes' = 1 /\ pc = "count"
        BY <1>2, <1>8
      <3>a. /\ strikes' \in Nat /\ strikes' <= 3 /\ strikes' <= 2 /\ strikes' <= 1 /\ late' \in BOOLEAN
        BY <3>1
      <3>b. /\ total' \in Nat /\ limit' \in Nat /\ probeEnd' \in Nat /\ blind' \in BOOLEAN /\ todo' \in Seq(Ranges)
            /\ pc' = "count"
        BY <1>1, <3>1, BookFacts
      <3>2. QED
        BY <1>1, <1>2, <3>a, <3>b, BookStays DEF scanVars, termVars
    <2>2. BatchesOK' /\ NoHoles'
      BY <1>1, <1>2, <1>3, <1>5, <1>8, BatchesStay DEF scanVars, termVars, NoHoles, Clean
    <2>3. CountOK' /\ PlanOK'
      BY <1>2, <1>8 DEF CountOK, PlanOK
    <2>4. QED
      BY <1>3, <1>4, <2>1, <2>2, <2>3 DEF IInv
  <1>9. CASE /\ total' = 0 /\ limit' = Cap /\ blind' = TRUE /\ strikes' = 0
             /\ probeEnd' = FullProbe
             /\ pc' \in {"probe", "abort"} /\ UNCHANGED outcome
    <2>1. BookOK'
      <3>1. todo' \in Seq(Ranges) /\ blind' \in BOOLEAN /\ total' \in Nat /\ limit' \in Nat /\ strikes' = 0
        BY <1>1, <1>2, <1>9, BookFacts, ConstantFacts
      <3>2. probeEnd' \in Nat /\ 1 <= probeEnd' /\ probeEnd' <= ChunkSize /\ probeEnd' # AvoidWidth
        BY <1>9, FullProbeFacts
      <3>a. /\ strikes' \in Nat /\ strikes' <= 3 /\ strikes' <= 2 /\ strikes' <= 1 /\ late' \in BOOLEAN
            /\ pc' \in {"probe", "abort"}
        BY <1>9, <3>1
      <3>3. QED
        BY <1>1, <1>2, <3>1, <3>2, <3>a, BookStays DEF scanVars, termVars
    <2>2. BatchesOK' /\ NoHoles'
      BY <1>1, <1>2, <1>3, <1>5, <1>9, BatchesStay DEF scanVars, termVars, NoHoles, Clean
    <2>3. CountOK' /\ PlanOK'
      <3>1. FullProbe' = FullProbe
        BY DEF FullProbe
      <3>2. probeEnd' <= FullProbe'
        BY <1>9, <3>1, FullProbeFacts
      <3>3. QED
        BY <1>9, <3>2 DEF CountOK, PlanOK
    <2>4. QED
      BY <1>3, <1>4, <2>1, <2>2, <2>3 DEF IInv
  <1>10. QED
    BY <1>7, <1>8, <1>9 DEF Count

-----------------------------------------------------------------------------
(* The probe refused, and reads that fail.                                 *)

LEMMA ProbeFailsKeeps == IInv /\ ProbeFails /\ late' \in BOOLEAN => IInv'
  <1> SUFFICES ASSUME IInv, ProbeFails, late' \in BOOLEAN
               PROVE  IInv'
    OBVIOUS
  <1>1. MailOK /\ BookOK /\ BatchesOK /\ HandlerOK /\ CountOK /\ PlanOK /\ NoHoles
    BY DEF IInv
  <1>2. /\ UNCHANGED <<mailVars, memo, total, limit, blind, order, defaulted, todo, scanVars, batchVars,
                       writeFailed, outcome, termVars>>
        /\ pc = "probe" /\ Running
    BY DEF ProbeFails
  <1>3. pc' \in {"probe", "skip", "abort"} /\ (pc' = "probe" => strikes' <= 1)
        /\ strikes' \in Nat /\ strikes' <= 3
    <2>1. strikes \in Nat /\ strikes <= 1
      BY <1>1, <1>2 DEF BookOK
    <2>2. CASE UNCHANGED strikes
      BY <1>2, <2>1, <2>2 DEF ProbeFails
    <2>3. CASE /\ strikes' = strikes + 1
               /\ IF strikes' >= 2 THEN pc' = "abort" ELSE UNCHANGED pc
      BY <1>2, <2>1, <2>3
    <2>4. QED
      BY <2>2, <2>3 DEF ProbeFails
  <1>4. probeEnd' \in Nat /\ 1 <= probeEnd' /\ probeEnd' <= ChunkSize /\ probeEnd' # AvoidWidth
        /\ probeEnd' <= probeEnd /\ (~blind => probeEnd' = probeEnd)
    <2>1. probeEnd \in Nat /\ 1 <= probeEnd /\ probeEnd <= ChunkSize /\ probeEnd # AvoidWidth
      BY <1>1, <1>2 DEF BookOK
    <2>2. CASE probeEnd' = probeEnd
      BY <2>1, <2>2
    <2>3. CASE blind /\ probeEnd # 1 /\ probeEnd' = probeEnd \div 2
      BY <2>1, <2>3, ConstantFacts
    <2>4. QED
      BY <2>2, <2>3 DEF ProbeFails
  <1>5. MailOK' /\ InWindow' = InWindow
    BY <1>1, <1>2, MailStays
  <1>6. BookOK'
    <2>1. /\ blind' \in BOOLEAN /\ total' \in Nat /\ limit' \in Nat /\ todo' \in Seq(Ranges)
      BY <1>1, <1>2, BookFacts
    <2>2. QED
      BY <1>1, <1>2, <1>3, <1>4, <2>1, BookStays DEF scanVars, termVars
  <1>7. BatchesOK'
    BY <1>1, <1>2, <1>3, <1>5, BatchesStay DEF scanVars, termVars
  <1>8. HandlerOK'
    BY <1>1, <1>2, HandlerStays DEF Kept, batchVars
  <1>9. CountOK'
    <2>1. pc' \in {"probe", "walk"} => pc' = "probe"
      BY <1>3
    <2>2. ASSUME pc' = "probe", blind'
          PROVE  limit' = Cap /\ probeEnd' <= FullProbe'
      <3>1. limit = Cap /\ probeEnd <= FullProbe /\ probeEnd \in Nat
        BY <1>1, <1>2, <2>2 DEF CountOK, BookOK
      <3>2. FullProbe' = FullProbe /\ FullProbe \in Nat
        BY FullProbeFacts DEF FullProbe
      <3>3. QED
        BY <1>2, <1>4, <3>1, <3>2
    <2>3. ASSUME pc' = "probe", ~blind'
          PROVE  /\ total' >= 1 /\ limit' = Least(total', Cap) /\ probeEnd' = ProbeRange(total', limit').hi
                 /\ total' <= Len(date')
      BY <1>1, <1>2, <1>4, <2>3 DEF CountOK, mailVars
    <2>4. ~blind' /\ (arrived' = 0 \/ ~newest') =>
          \A p \in DOMAIN mbox' :
             /\ p > total' => date'[mbox'[p]] = Above
             /\ p > limit' /\ Readable' => date'[mbox'[p]] = Above
      BY <1>1, <1>2 DEF CountOK, mailVars, Readable
    <2>5. QED
      BY <2>1, <2>2, <2>3, <2>4 DEF CountOK
  <1>10. PlanOK'
    BY <1>3 DEF PlanOK
  <1>11. NoHoles'
    BY <1>1, <1>2 DEF NoHoles, Clean, BatchesOK
  <1>12. QED
    BY <1>5, <1>6, <1>7, <1>8, <1>9, <1>10, <1>11 DEF IInv

LEMMA WalkingFacts ==
    ASSUME BookOK, BatchesOK, Walking
    PROVE  /\ todo # <<>> /\ Head(todo) \in Ranges /\ Tail(todo) \in Seq(Ranges)
           /\ pc = "walk" /\ Running /\ ~edge /\ ~writeFailed /\ outcome = "none"
           /\ Head(todo).lo \in Nat /\ Head(todo).hi \in Nat /\ 1 <= Head(todo).lo /\ Head(todo).lo <= Head(todo).hi
           /\ Width(Head(todo)) = Head(todo).hi - Head(todo).lo + 1 /\ Width(Head(todo)) <= ChunkSize
  <1>1. todo # <<>> /\ pc = "walk" /\ Running /\ ~edge /\ ~writeFailed
    BY DEF Walking, Ended
  <1>2. Head(todo) \in Ranges /\ Tail(todo) \in Seq(Ranges)
    BY <1>1, HeadTailProperties DEF BookOK
  <1>3. QED
    BY <1>1, <1>2, RangeFacts DEF BatchesOK

\* A read that failed, once more: only the strikes, the plan and the count
\* change.
LEMMA FailureKeeps ==
    ASSUME IInv, Walking, late' \in BOOLEAN,
           UNCHANGED <<mailVars, memo, limit, blind, probeEnd, order, defaulted, scanVars, batchVars, writeFailed,
                       outcome, termVars>>,
           total' \in Nat, strikes' \in Nat, strikes' <= 3, pc' = "walk" => strikes' <= 2,
           pc' \in {"walk", "abort"}, todo' \in Seq(Ranges),
           ~blind => total' = total \/ total' = Len(mbox),
           pc' = "walk" => PlanOK'
    PROVE  IInv'
  <1>1. MailOK /\ BookOK /\ BatchesOK /\ HandlerOK /\ CountOK /\ PlanOK /\ NoHoles
    BY DEF IInv
  <1>2. pc = "walk" /\ Running /\ outcome = "none"
    BY <1>1, WalkingFacts
  <1>3. MailOK' /\ InWindow' = InWindow
    BY <1>1, MailStays
  <1>4. BookOK'
    <2>1. blind' \in BOOLEAN /\ limit' \in Nat /\ probeEnd' \in Nat /\ pc' # "probe" /\ pc' # "count"
      BY <1>1, BookFacts
    <2>2. QED
      BY <1>1, <2>1, BookStays DEF scanVars, termVars
  <1>5. BatchesOK'
    BY <1>1, <1>2, <1>3, BatchesStay DEF scanVars, termVars
  <1>6. HandlerOK'
    BY <1>1, <1>2, HandlerStays DEF Kept, batchVars
  <1>7. CountOK'
    <2>1. pc' # "probe"
      OBVIOUS
    <2>2. ASSUME ~blind', arrived' = 0 \/ ~newest', NEW p \in DOMAIN mbox'
          PROVE  /\ p > total' => date'[mbox'[p]] = Above
                 /\ p > limit' /\ Readable' => date'[mbox'[p]] = Above
      <3>1. /\ p > total => date[mbox[p]] = Above
            /\ p > limit /\ Readable => date[mbox[p]] = Above
            /\ p \in 1..Len(mbox) /\ Len(mbox) \in Nat /\ ~blind
        BY <1>1, <1>2, <2>2, MailFacts DEF CountOK, mailVars
      <3>2. Readable' => Readable
        BY DEF Readable, mailVars
      <3>3. p > total' => p > total
        BY <3>1
      <3>4. QED
        BY <3>1, <3>2, <3>3 DEF mailVars
    <2>3. blind' => limit' = Cap
      BY <1>1, <1>2 DEF CountOK
    <2>4. QED
      BY <2>1, <2>2, <2>3 DEF CountOK
  <1>8. PlanOK'
    BY DEF PlanOK
  <1>9. NoHoles'
    BY <1>2 DEF NoHoles, Clean
  <1>10. QED
    BY <1>3, <1>4, <1>5, <1>6, <1>7, <1>8, <1>9 DEF IInv

LEMMA StrikeFacts ==
    ASSUME BookOK, pc = "walk", Strike
    PROVE  /\ strikes' \in Nat /\ strikes' <= 3 /\ (pc' = "walk" => strikes' <= 2)
           /\ pc' \in {"walk", "abort"}
  <1>1. strikes \in Nat /\ strikes <= 2
    BY DEF BookOK
  <1>2. QED
    BY <1>1 DEF Strike

LEMMA RefusedKeeps ==
    ASSUME IInv, NotVerified \/ BlindReadFails \/ Mistaken, late' \in BOOLEAN
    PROVE  IInv'
  <1>1. MailOK /\ BookOK /\ BatchesOK /\ PlanOK
    BY DEF IInv
  <1>2. /\ Walking
        /\ UNCHANGED <<mailVars, memo, planVars, todo, scanVars, batchVars, writeFailed, outcome, termVars>>
    BY DEF NotVerified, BlindReadFails, Mistaken
  <1>3. pc = "walk"
    BY <1>1, <1>2, WalkingFacts
  <1>4. /\ strikes' \in Nat /\ strikes' <= 3 /\ (pc' = "walk" => strikes' <= 2)
        /\ pc' \in {"walk", "abort"}
    <2>1. CASE Strike
      BY <1>1, <1>3, <2>1, StrikeFacts
    <2>2. CASE pc' = "abort" /\ UNCHANGED strikes
      BY <1>1, <1>3, <2>2 DEF BookOK
    <2>3. QED
      BY <2>1, <2>2 DEF NotVerified, BlindReadFails, Mistaken
  <1>5. total' \in Nat /\ todo' \in Seq(Ranges) /\ total' = total
    BY <1>1, <1>2, BookFacts DEF planVars
  <1>6. PlanOK'
    BY <1>1, <1>2, <1>3, PlanStays DEF planVars, scanVars, batchVars, Kept
  <1>7. QED
    BY <1>2, <1>4, <1>5, <1>6, FailureKeeps DEF planVars

LEMMA GoodStays ==
    ASSUME UNCHANGED <<mailVars, blind, order, defaulted>>, Kept' = Kept
    PROVE  Good' = Good /\ (\A m : Needed(m)' = Needed(m))
  <1>1. Good' = Good
    BY DEF Good, Oriented, Readable, Anchored, mailVars
  <1>2. ASSUME NEW m
        PROVE  Needed(m)' = Needed(m)
    BY DEF Needed, mailVars
  <1>3. QED
    BY <1>1, <1>2

\* The next range of the plan holds nothing of the window, nor does what lies
\* beyond it.
LEMMA NothingThere ==
    ASSUME MailOK, BookOK, BatchesOK, PlanOK, Walking, ~blind, todo' = Tail(todo),
           UNCHANGED <<mailVars, blind, order, defaulted, limit, edge, indexed>>, Kept' = Kept,
           Good => \A p \in DOMAIN mbox : p >= Head(todo).lo => date[mbox[p]] # In
    PROVE  PlanOK'
  <1> DEFINE h == Head(todo)
             t == Tail(todo)
  <1>1. /\ todo # <<>> /\ h \in Ranges /\ t \in Seq(Ranges) /\ pc = "walk"
        /\ h.lo \in Nat /\ h.hi \in Nat /\ 1 <= h.lo /\ h.lo <= h.hi
    BY WalkingFacts
  <1>2. indexed \in Nat /\ limit \in Nat /\ blind \in BOOLEAN /\ order \in BOOLEAN /\ todo \in Seq(Ranges)
    BY BookFacts
  <1>3. DOMAIN mbox = 1..Len(mbox) /\ Len(mbox) \in Nat
    BY MailFacts
  <1>4. Good' = Good /\ \A m : Needed(m)' = Needed(m)
    BY GoodStays
  <1>5. SUFFICES ASSUME Good
                 PROVE  IF blind \/ order THEN UpPlan' ELSE DownPlan'
    BY <1>4 DEF PlanOK
  <1>6. \A p \in DOMAIN mbox : p >= h.lo => ~Needed(mbox[p])
    BY <1>5 DEF Needed
  <1>7. t # <<>> => Head(t) \in Ranges /\ Head(t).lo \in Nat /\ Head(t).hi \in Nat
    <2>1. t # <<>> => Head(t) \in Ranges
      BY <1>1, HeadTailProperties
    <2>2. QED
      BY <2>1, RangeFacts
  <1>8. CASE order
    <2>1. UpPlan
      BY <1>1, <1>5, <1>8 DEF PlanOK
    <2>2. \A p \in DOMAIN mbox : ~Needed(mbox[p])
      BY <1>6, <2>1 DEF UpPlan
    <2>3. Up(todo, h.lo, limit) /\ indexed < h.lo
      BY <1>1, <2>1 DEF UpPlan
    <2>4. t # <<>> => Head(t).lo = h.hi + 1 /\ Up(t, Head(t).lo, limit)
      BY <1>1, <1>2, <2>3, UpNext
    <2>5. t # <<>> => indexed < Head(t).lo
      BY <1>1, <1>2, <2>3, <2>4
    <2>6. ASSUME order, ~newest, ~edge, indexed > 0, t # <<>>
          PROVE  \E p \in DOMAIN mbox : p < Head(t).lo /\ date[mbox[p]] = In
      <3>1. PICK p \in DOMAIN mbox : p < h.lo /\ date[mbox[p]] = In
        BY <1>1, <2>1, <2>6 DEF UpPlan
      <3>2. p < Head(t).lo
        BY <1>1, <1>3, <1>7, <2>4, <2>6, <3>1
      <3>3. QED
        BY <3>1, <3>2
    <2> HIDE DEF t, h
    <2>7. /\ todo' # <<>> => Up(todo', Head(todo').lo, limit') /\ indexed' < Head(todo').lo
          /\ \A p \in DOMAIN mbox' : ~(Needed(mbox[p])')
      <3>1. todo' = t /\ limit' = limit /\ indexed' = indexed
        BY DEF t
      <3>2. mbox' = mbox
        BY DEF mailVars
      <3>3. \A p \in DOMAIN mbox' : ~(Needed(mbox[p])')
        BY <1>4, <2>2, <3>2
      <3>4. QED
        BY <2>4, <2>5, <3>1, <3>3
    <2>8. order' /\ ~newest' /\ ~edge' /\ indexed' > 0 /\ todo' # <<>> =>
             \E p \in DOMAIN mbox' : p < Head(todo').lo /\ date'[mbox'[p]] = In
      BY <2>6 DEF mailVars, t
    <2>9. UpPlan'
      BY <2>7, <2>8 DEF UpPlan
    <2>10. QED
      BY <1>8, <2>9
  <1>9. CASE ~order
    <2>1. DownPlan
      BY <1>1, <1>5, <1>9 DEF PlanOK
    <2>2. Down(todo, 1, h.hi) /\ indexed + h.hi <= limit
      BY <1>1, <2>1 DEF DownPlan
    <2>3. /\ t = <<>> => h.lo = 1
          /\ t # <<>> => Head(t).hi = h.lo - 1 /\ Down(t, 1, Head(t).hi)
      BY <1>1, <2>2, DownNext
    <2>4. t # <<>> => indexed + Head(t).hi <= limit
      BY <1>1, <1>2, <1>7, <2>2, <2>3
    <2>5. \A p \in DOMAIN mbox : Needed(mbox[p]) => t # <<>> /\ ~edge /\ p <= Head(t).hi
      <3>1. SUFFICES ASSUME NEW p \in DOMAIN mbox, Needed(mbox[p])
                     PROVE  t # <<>> /\ ~edge /\ p <= Head(t).hi
        OBVIOUS
      <3>2. ~edge /\ p \in Nat /\ p >= 1 /\ ~(p >= h.lo)
        BY <1>3, <1>6, <2>1, <3>1 DEF DownPlan
      <3>3. h.lo # 1
        BY <1>1, <3>2
      <3>4. QED
        BY <1>1, <1>7, <2>3, <3>2, <3>3
    <2> HIDE DEF t, h
    <2>6. todo' = t /\ limit' = limit /\ indexed' = indexed /\ mbox' = mbox
      BY DEF t, mailVars
    <2>e. ~edge => ~edge'
      OBVIOUS
    <2>7. \A p \in DOMAIN mbox' : Needed(mbox[p])' => todo' # <<>> /\ ~edge' /\ p <= Head(todo').hi
      <3>1. \A p \in DOMAIN mbox' : Needed(mbox[p])' => Needed(mbox[p])
        BY <1>4, <2>6
      <3>2. QED
        BY <2>5, <2>6, <2>e, <3>1
    <2>8. DownPlan'
      BY <2>3, <2>4, <2>6, <2>7 DEF DownPlan
    <2>9. QED
      BY <1>9, <2>8
  <1>10. QED
    BY <1>2, <1>8, <1>9

LEMMA PassBeyondKeeps ==
    ASSUME IInv, PassBeyond, late' \in BOOLEAN
    PROVE  IInv'
  <1>1. MailOK /\ BookOK /\ BatchesOK /\ CountOK /\ PlanOK
    BY DEF IInv
  <1>2. /\ Walking /\ ~blind /\ Head(todo).lo > total /\ todo' = Tail(todo)
        /\ UNCHANGED <<mailVars, memo, pc, planVars, strikes, scanVars, batchVars, writeFailed, outcome, termVars>>
    BY DEF PassBeyond, Beyond
  <1>3. /\ pc = "walk" /\ Tail(todo) \in Seq(Ranges) /\ Head(todo).lo \in Nat
        /\ total \in Nat /\ strikes \in Nat /\ strikes <= 2
    BY <1>1, <1>2, WalkingFacts DEF BookOK
  <1>4. Good => \A p \in DOMAIN mbox : p >= Head(todo).lo => date[mbox[p]] # In
    <2>1. SUFFICES ASSUME Good, NEW p \in DOMAIN mbox, p >= Head(todo).lo
                   PROVE  date[mbox[p]] # In
      OBVIOUS
    <2>2. p \in Nat /\ p > total
      BY <1>1, <1>2, <1>3, <2>1, MailFacts
    <2>3. arrived = 0 \/ ~newest
      BY <1>2, <2>1 DEF Good, Anchored
    <2>4. date[mbox[p]] = Above
      BY <1>1, <1>2, <1>3, <2>1, <2>2, <2>3 DEF CountOK
    <2>5. QED
      BY <2>4 DEF Above, In
  <1>5. PlanOK'
    <2>1. Kept' = Kept
      BY <1>2 DEF Kept, batchVars
    <2>2. UNCHANGED <<mailVars, blind, order, defaulted, limit, edge, indexed>>
      BY <1>2 DEF planVars, scanVars
    <2>3. QED
      BY <1>1, <1>2, <1>4, <2>1, <2>2, NothingThere
  <1>6. total' \in Nat /\ strikes' \in Nat /\ strikes' <= 2 /\ strikes' <= 3 /\ pc' \in {"walk", "abort"}
        /\ total' = total /\ todo' \in Seq(Ranges)
    BY <1>2, <1>3 DEF planVars
  <1>7. QED
    BY <1>2, <1>5, <1>6, FailureKeeps DEF planVars

LEMMA CountedReadFailsKeeps ==
    ASSUME IInv, CountedReadFails, late' \in BOOLEAN
    PROVE  IInv'
  <1>1. MailOK /\ BookOK /\ BatchesOK /\ CountOK /\ PlanOK
    BY DEF IInv
  <1>2. /\ Walking /\ ~blind
        /\ UNCHANGED <<mailVars, memo, limit, blind, probeEnd, order, defaulted, scanVars, batchVars,
                       writeFailed, outcome, termVars>>
    BY DEF CountedReadFails
  <1>3. PICK counted \in BOOLEAN :
          /\ total' = IF counted THEN Len(mbox) ELSE total
          /\ IF counted /\ Head(todo).lo > Len(mbox)
             THEN todo' = Tail(todo) /\ strikes' = 0 /\ UNCHANGED pc
             ELSE Strike /\ UNCHANGED todo
    BY DEF CountedReadFails
  <1>4. /\ pc = "walk" /\ Tail(todo) \in Seq(Ranges) /\ todo \in Seq(Ranges) /\ Head(todo).lo \in Nat
        /\ total \in Nat /\ Len(mbox) \in Nat /\ DOMAIN mbox = 1..Len(mbox)
    BY <1>1, <1>2, WalkingFacts, MailFacts, BookFacts
  <1>5. total' \in Nat /\ (total' = total \/ total' = Len(mbox))
    BY <1>3, <1>4
  <1>6. Kept' = Kept
    BY <1>2 DEF Kept, batchVars
  <1>7. CASE Head(todo).lo > Len(mbox) /\ todo' = Tail(todo) /\ strikes' = 0 /\ UNCHANGED pc
    <2>1. \A p \in DOMAIN mbox : ~(p >= Head(todo).lo)
      BY <1>4, <1>7
    <2>2. UNCHANGED <<mailVars, blind, order, defaulted, limit, edge, indexed>>
      BY <1>2 DEF scanVars
    <2>3. PlanOK'
      BY <1>1, <1>2, <1>6, <1>7, <2>1, <2>2, NothingThere
    <2>4. strikes' \in Nat /\ strikes' <= 3 /\ strikes' <= 2 /\ pc' \in {"walk", "abort"} /\ todo' \in Seq(Ranges)
      BY <1>4, <1>7
    <2>5. QED
      BY <1>2, <1>5, <2>3, <2>4, FailureKeeps
  <1>8. CASE Strike /\ UNCHANGED todo
    <2>1. /\ strikes' \in Nat /\ strikes' <= 3 /\ (pc' = "walk" => strikes' <= 2) /\ pc' \in {"walk", "abort"}
      BY <1>1, <1>4, <1>8, StrikeFacts
    <2>2. PlanOK'
      BY <1>1, <1>2, <1>4, <1>6, <1>8, PlanStays DEF scanVars
    <2>3. todo' \in Seq(Ranges)
      BY <1>4, <1>8
    <2>4. QED
      BY <1>2, <1>5, <2>1, <2>2, <2>3, FailureKeeps
  <1>9. QED
    BY <1>3, <1>7, <1>8

\* The halves of the next range take its place.
LEMMA BlindOutOfRangeKeeps ==
    ASSUME IInv, BlindOutOfRange, late' \in BOOLEAN
    PROVE  IInv'
  <1> DEFINE r == Head(todo)
  <1>1. MailOK /\ BookOK /\ BatchesOK /\ PlanOK
    BY DEF IInv
  <1>2. /\ Walking /\ blind /\ OutOfRange(r)
        /\ todo' = IF Width(r) > 1 THEN Halves(r) \o Tail(todo) ELSE <<>>
        /\ UNCHANGED <<mailVars, memo, pc, planVars, strikes, scanVars, batchVars, writeFailed, outcome, termVars>>
    BY DEF BlindOutOfRange
  <1>3. /\ todo # <<>> /\ r \in Ranges /\ pc = "walk" /\ Tail(todo) \in Seq(Ranges)
        /\ r.lo \in Nat /\ r.hi \in Nat /\ 1 <= r.lo /\ r.lo <= r.hi
        /\ Width(r) = r.hi - r.lo + 1 /\ Width(r) <= ChunkSize
        /\ total \in Nat /\ strikes \in Nat /\ strikes <= 2 /\ limit \in Nat /\ indexed \in Nat
    BY <1>1, <1>2, WalkingFacts DEF BookOK
  <1>4. Len(mbox) \in Nat /\ DOMAIN mbox = 1..Len(mbox) /\ r.hi > Len(mbox)
    BY <1>1, <1>2, MailFacts DEF OutOfRange
  <1>5. Good' = Good /\ \A m : Needed(m)' = Needed(m)
    <2>1. Kept' = Kept
      BY <1>2 DEF Kept, batchVars
    <2>2. QED
      BY <1>2, <2>1, GoodStays DEF planVars
  <1>6. Width(r) > 1 => Up(Halves(r), r.lo, r.hi) /\ Halves(r) # <<>>
    <2>1. r = Piece(r.lo, r.hi)
      BY <1>3 DEF Ranges, Piece
    <2> DEFINE lo == r.lo
               hi == r.hi
    <2>2. lo \in Nat /\ hi \in Nat /\ 1 <= lo /\ hi - lo + 1 <= ChunkSize /\ (Width(r) > 1 => lo < hi)
      BY <1>3
    <2>3. Width(r) > 1 => Up(Halves(Piece(lo, hi)), lo, hi) /\ Halves(Piece(lo, hi)) # <<>>
      <3> HIDE DEF lo, hi
      <3>1. QED
        BY <2>2, HalvesAreUp
    <2>4. QED
      BY <2>1, <2>3
  <1>7. todo' \in Seq(Ranges)
    <2>1. Width(r) > 1 => Halves(r) \in Seq(Ranges)
      BY <1>6 DEF Up
    <2>2. QED
      BY <1>2, <1>3, <2>1, ConcatProperties, EmptySeq
  <1>8. PlanOK'
    <2>1. SUFFICES ASSUME Good
                   PROVE  UpPlan'
      BY <1>2, <1>5 DEF PlanOK, planVars
    <2>2. UpPlan
      BY <1>1, <1>2, <1>3, <2>1 DEF PlanOK
    <2>3. Up(todo, r.lo, limit) /\ indexed < r.lo
      BY <1>3, <2>2 DEF UpPlan
    <2>4. mbox' = mbox /\ date' = date /\ newest' = newest /\ limit' = limit /\ indexed' = indexed /\ edge' = edge
          /\ order' = order
      BY <1>2 DEF mailVars, planVars, scanVars
    <2>5. \A p \in DOMAIN mbox : Needed(mbox[p])' => Needed(mbox[p])
      BY <1>5, <2>4 DEF Needed
    <2>6. CASE Width(r) > 1
      <3>1. todo' = Halves(r) \o Tail(todo)
        BY <1>2, <2>6
      <3>2. Up(Tail(todo), r.hi + 1, limit) /\ r.hi <= limit
        BY <1>3, <2>3, UpNext
      <3>3. Up(todo', r.lo, limit)
        <4> DEFINE lo == r.lo
                   hi == r.hi
        <4>1. lo \in Nat /\ hi \in Nat /\ hi <= limit /\ limit \in Nat /\ Up(Halves(r), lo, hi)
              /\ Up(Tail(todo), hi + 1, limit)
          BY <1>3, <1>6, <2>6, <3>2
        <4> HIDE DEF lo, hi, r
        <4>2. Up(Halves(r) \o Tail(todo), lo, limit)
          BY <4>1, UpConcat
        <4>3. QED
          BY <3>1, <4>2 DEF lo
      <3>4. todo' # <<>>
        <4>1. Halves(r) \in Seq(Ranges) /\ Len(Halves(r)) # 0
          BY <1>6, <2>6, EmptySeq, LenProperties DEF Up
        <4>2. Len(todo') # 0
          BY <1>3, <3>1, <4>1, ConcatProperties, LenProperties
        <4>3. QED
          BY <4>2, EmptySeq
      <3>5. Head(todo').lo = r.lo
        <4>1. Head(todo') = todo'[1]
          BY <1>7, <3>4, HeadTailProperties
        <4>2. QED
          BY <3>3, <3>4, <4>1 DEF Up
      <3>6. /\ \A p \in DOMAIN mbox : Needed(mbox[p])' => ~edge /\ p >= r.lo
            /\ order /\ ~newest /\ ~edge /\ indexed > 0 =>
                  \E p \in DOMAIN mbox : p < r.lo /\ date[mbox[p]] = In
        BY <1>3, <2>2, <2>5 DEF UpPlan
      <3> HIDE DEF r
      <3>7. QED
        BY <2>3, <2>4, <3>3, <3>4, <3>5, <3>6 DEF UpPlan
    <2>7. CASE ~(Width(r) > 1)
      <3>1. todo' = <<>>
        BY <1>2, <2>7
      <3>2. r.lo > Len(mbox)
        BY <1>3, <1>4, <2>7
      <3>3. \A p \in DOMAIN mbox : ~(p >= r.lo)
        BY <1>3, <1>4, <3>2
      <3>4. \A p \in DOMAIN mbox : ~(Needed(mbox[p])')
        BY <2>2, <2>5, <3>3 DEF UpPlan
      <3>5. QED
        BY <2>4, <3>1, <3>4 DEF UpPlan
    <2>8. QED
      BY <2>6, <2>7
  <1>9. total' \in Nat /\ strikes' \in Nat /\ strikes' <= 2 /\ strikes' <= 3 /\ pc' \in {"walk", "abort"}
        /\ total' = total
    BY <1>2, <1>3 DEF planVars
  <1>10. QED
    BY <1>2, <1>7, <1>8, <1>9, FailureKeeps DEF planVars

-----------------------------------------------------------------------------
(* The end of the walk.                                                    *)

\* A walk that went to its end has everything it needed.
LEMMA EndedHasAll ==
    ASSUME BookOK, PlanOK, pc = "walk", Good, Ended, ~writeFailed
    PROVE  \A p \in DOMAIN mbox : ~Needed(mbox[p])
  <1>1. SUFFICES ASSUME NEW p \in DOMAIN mbox, Needed(mbox[p])
                 PROVE  FALSE
    OBVIOUS
  <1>2. indexed \in Nat /\ limit \in Nat /\ todo \in Seq(Ranges) /\ blind \in BOOLEAN /\ order \in BOOLEAN
    BY BookFacts
  <1>3. todo # <<>> /\ ~edge
    BY <1>1 DEF PlanOK, UpPlan, DownPlan
  <1>4. indexed >= limit
    BY <1>3 DEF Ended
  <1>5. Head(todo) \in Ranges /\ Head(todo).lo \in Nat /\ Head(todo).hi \in Nat /\ 1 <= Head(todo).lo
        /\ Head(todo).lo <= Head(todo).hi
    <2>1. Head(todo) \in Ranges
      BY <1>2, <1>3, HeadTailProperties
    <2>2. QED
      BY <2>1, RangeFacts
  <1>6. CASE UpPlan
    <2>1. Up(todo, Head(todo).lo, limit) /\ indexed < Head(todo).lo
      BY <1>3, <1>6 DEF UpPlan
    <2>2. Head(todo).hi <= limit
      BY <1>2, <1>3, <2>1, UpNext
    <2>3. QED
      BY <1>2, <1>4, <1>5, <2>1, <2>2
  <1>7. CASE DownPlan
    <2>1. indexed + Head(todo).hi <= limit
      BY <1>3, <1>7 DEF DownPlan
    <2>2. QED
      BY <1>2, <1>4, <1>5, <2>1
  <1>8. QED
    BY <1>6, <1>7 DEF PlanOK

LEMMA FinishKeeps ==
    ASSUME IInv, Finish, late' \in BOOLEAN
    PROVE  IInv'
  <1>1. MailOK /\ BookOK /\ BatchesOK /\ HandlerOK /\ CountOK /\ PlanOK /\ NoHoles
    BY DEF IInv
  <1>2. /\ UNCHANGED <<mailVars, memo, planVars, strikes, todo, scanVars, writeFailed, termVars>>
        /\ Running /\ pc' = "end" /\ pc # "end"
    BY DEF Finish
  <1>3. PICK ok \in BOOLEAN :
          /\ Flush(ok)
          /\ outcome' = IF ~ok \/ pc = "abort" \/ (pc = "walk" /\ writeFailed) THEN "transport"
                        ELSE IF pc = "skip" THEN "skip"
                        ELSE "ok"
    BY DEF Finish
  <1>4. MailOK' /\ InWindow' = InWindow /\ Messages' = Messages
    BY <1>1, <1>2, MailStays
  <1>5. /\ pending' \in Seq(InWindow) /\ staged' \subseteq InWindow /\ Kept' = Kept
        /\ Len(pending') <= Len(pending)
        /\ ok => pending' = <<>> /\ staged' = Kept
    BY <1>1, <1>3, FlushKeeps DEF BatchesOK
  <1>6. BookOK'
    <2>1. /\ blind' \in BOOLEAN /\ total' \in Nat /\ limit' \in Nat /\ probeEnd' \in Nat /\ strikes' \in Nat
          /\ todo' \in Seq(Ranges)
      BY <1>1, <1>2, BookFacts DEF planVars
    <2>2. strikes' <= 3
      BY <1>1, <1>2 DEF BookOK
    <2>3. UNCHANGED <<memo, order, defaulted, scanVars, writeFailed, termVars>> /\ pc' = "end"
      BY <1>2 DEF planVars
    <2>4. QED
      BY <1>1, <2>1, <2>2, <2>3, BookStays
  <1>7. BatchesOK'
    <2>1. /\ Len(pending) \in Nat /\ Len(pending') \in Nat /\ Len(pending) < BatchSize + ChunkSize
          /\ ~writeFailed => Len(pending) < BatchSize
      BY <1>1, <1>5, LenProperties DEF BatchesOK
    <2>2. BatchSize \in Nat /\ ChunkSize \in Nat
      BY ConstantFacts
    <2>3. Len(pending') < BatchSize + ChunkSize /\ (~writeFailed => Len(pending') < BatchSize)
      BY <1>5, <2>1, <2>2
    <2>4. owed' \subseteq InWindow' /\ pending' \in Seq(InWindow') /\ staged' \subseteq InWindow'
      BY <1>1, <1>2, <1>4, <1>5 DEF BatchesOK, termVars
    <2>5. /\ outcome' \in {"ok", "skip", "transport"}
          /\ pending' = <<>> \/ outcome' = "transport"
      BY <1>3, <1>5
    <2>6. ~writeFailed' => ~writeFailed
      BY <1>2
    <2>7. QED
      BY <1>2, <2>3, <2>4, <2>5, <2>6 DEF BatchesOK
  <1>8. HandlerOK'
    BY <1>1, <1>2, <1>5, HandlerStays
  <1>9. CountOK' /\ PlanOK'
    BY <1>2 DEF CountOK, PlanOK
  <1>10. NoHoles'
    <2>1. SUFFICES ASSUME Clean', Oriented', Readable', Anchored', NEW m \in Missed'
                   PROVE  FALSE
      BY DEF NoHoles
    <2>2. Good
      BY <1>2, <2>1 DEF Good, Oriented, Readable, Anchored, mailVars, planVars
    <2>3. outcome' = "ok" /\ ~Cancelled
      BY <1>2, <2>1 DEF Clean, Cancelled, termVars
    <2>4. ok /\ pc = "walk" /\ ~writeFailed
      BY <1>3, <2>3 DEF Finish
    <2>5. Ended
      BY <2>3, <2>4 DEF Finish, Unnoticed
    <2>6. \A p \in DOMAIN mbox : ~Needed(mbox[p])
      BY <1>1, <2>2, <2>4, <2>5, EndedHasAll
    <2>7. m \in Messages /\ date[m] = In /\ m \notin Kept /\ m \notin gone /\ m \notin misdated
      BY <1>2, <1>4, <1>5, <2>1, <2>4 DEF Missed, mailVars, Messages
    <2>8. m \in ToSet(mbox)
      BY <1>1, <2>7 DEF MailOK
    <2>9. PICK p \in DOMAIN mbox : m = mbox[p]
      BY <2>8 DEF ToSet
    <2>10. Needed(mbox[p])
      BY <2>7, <2>9 DEF Needed
    <2>11. QED
      BY <2>6, <2>10
  <1>11. QED
    BY <1>4, <1>6, <1>7, <1>8, <1>9, <1>10 DEF IInv

-----------------------------------------------------------------------------
(* A chunk read.                                                           *)

\* The messages of the window lie within the limit of the walk.
LEMMA WithinLimit ==
    ASSUME MailOK, CountOK, limit \in Nat, pc \in {"probe", "walk"}, Readable, arrived = 0 \/ blind \/ ~newest
    PROVE  \A p \in DOMAIN mbox : date[mbox[p]] = In => p <= limit
  <1>1. Len(mbox) \in Nat /\ Len(date) \in Nat /\ Len(mbox) <= Len(date) /\ DOMAIN mbox = 1..Len(mbox) /\ Cap \in Nat
    BY MailFacts, ConstantFacts DEF MailOK
  <1>2. CASE blind
    <2>1. limit = Cap /\ Len(date) <= Cap
      BY <1>2 DEF CountOK, Readable
    <2>2. QED
      BY <1>1, <2>1
  <1>3. CASE ~blind
    <2>1. \A p \in DOMAIN mbox : p > limit => date[mbox[p]] = Above
      BY <1>3 DEF CountOK
    <2>2. QED
      BY <1>1, <2>1 DEF Above, In
  <1>4. QED
    BY <1>2, <1>3

\* The plan of a walk upwards after a chunk.
LEMMA UpChunk ==
    ASSUME MailOK, ScanTyped, NEW r \in Ranges, Answers(r), limit \in Nat,
           NEW asc \in BOOLEAN, NEW unsure \in BOOLEAN, NEW s, s = Scan(Rows(r), asc), ~GivenUp(s, unsure),
           \A p \in DOMAIN mbox : Needed(mbox[p]) => p >= r.lo,
           ~newest /\ ~asc /\ indexed > 0 => \E p \in DOMAIN mbox : p < r.lo /\ date[mbox[p]] = In,
           indexed < r.lo,
           UNCHANGED <<mailVars, limit>>, Kept' = Kept \cup ToSet(s.recs), edge' = s.edge,
           indexed' = indexed + Len(s.recs),
           Good', asc <=> ~order', unsure <=> defaulted', defaulted' => order',
           todo' = <<>> => \A p \in DOMAIN mbox : date[mbox[p]] = In => p <= r.hi,
           todo' # <<>> => Head(todo').lo = r.hi + 1 /\ Up(todo', Head(todo').lo, limit)
    PROVE  UpPlan'
  <1>1. r.lo \in Nat /\ r.hi \in Nat /\ 1 <= r.lo /\ r.lo <= r.hi /\ Width(r) = r.hi - r.lo + 1
    BY RangeFacts
  <1>2. Len(mbox) \in Nat /\ DOMAIN mbox = 1..Len(mbox) /\ indexed \in Nat /\ newest \in BOOLEAN
    BY MailFacts DEF ScanTyped, MailOK
  <1>3. s.edge \in BOOLEAN /\ Len(s.recs) \in Nat /\ Len(s.recs) <= Width(r)
    <2>1. FALSE \in BOOLEAN
      OBVIOUS
    <2>2. s \in Scans /\ Len(s.recs) \in Nat /\ Len(s.recs) <= Width(r)
      BY <1>1, <2>1, RangeScan
    <2>3. QED
      BY <2>2 DEF Scans
  <1>4. Cardinality(misdated) <= EdgeTolerance
    BY DEF Good, Readable, mailVars
  <1>5. (asc <=> ~newest) \/ (unsure /\ misdated = {} /\ ~newest /\ ~asc)
    <2>1. order' = newest \/ (defaulted' /\ misdated = {})
      BY DEF Good, Oriented, mailVars
    <2>2. QED
      BY <1>2, <2>1
  <1>6. /\ \A p \in 1..Len(mbox) : Needed(mbox[p]) /\ mbox[p] \notin ToSet(s.recs) => ~s.edge /\ p > r.hi
        /\ ~newest /\ ~asc /\ indexed + Len(s.recs) > 0 /\ ~s.edge =>
              \E p \in 1..Len(mbox) : p <= r.hi /\ date[mbox[p]] = In
    BY <1>1, <1>2, <1>4, <1>5, UpRead
  <1>7. \A p \in DOMAIN mbox : Needed(mbox[p])' => ~s.edge /\ p > r.hi /\ date[mbox[p]] = In
    <2>1. SUFFICES ASSUME NEW p \in DOMAIN mbox, Needed(mbox[p])'
                   PROVE  ~s.edge /\ p > r.hi /\ date[mbox[p]] = In
      OBVIOUS
    <2>2. Needed(mbox[p]) /\ mbox[p] \notin ToSet(s.recs) /\ date[mbox[p]] = In
      BY <2>1 DEF Needed, mailVars
    <2>3. QED
      BY <1>2, <1>6, <2>2
  <1>8. \A p \in DOMAIN mbox : Needed(mbox[p])' => todo' # <<>> /\ ~s.edge /\ p >= Head(todo').lo
    <2>1. SUFFICES ASSUME NEW p \in DOMAIN mbox, Needed(mbox[p])'
                   PROVE  todo' # <<>> /\ ~s.edge /\ p >= Head(todo').lo
      OBVIOUS
    <2>2. ~s.edge /\ p > r.hi /\ date[mbox[p]] = In
      BY <1>7, <2>1
    <2>3. todo' # <<>>
      BY <1>1, <1>2, <2>2
    <2>4. QED
      BY <1>1, <1>2, <2>2, <2>3
  <1>9. todo' # <<>> => indexed' < Head(todo').lo
    BY <1>1, <1>2, <1>3
  <1>10. ASSUME order', ~newest', ~edge', indexed' > 0, todo' # <<>>
         PROVE  \E p \in DOMAIN mbox : p < Head(todo').lo /\ date[mbox[p]] = In
    <2>1. ~newest /\ ~asc /\ ~s.edge /\ indexed + Len(s.recs) > 0
      BY <1>10 DEF mailVars
    <2>2. PICK p \in 1..Len(mbox) : p <= r.hi /\ date[mbox[p]] = In
      BY <1>6, <2>1
    <2>3. p < Head(todo').lo
      BY <1>1, <1>2, <1>10, <2>2
    <2>4. QED
      BY <1>2, <2>2, <2>3
  <1>11. mbox' = mbox /\ date' = date /\ limit' = limit
    BY DEF mailVars
  <1>12. ~s.edge => ~edge'
    OBVIOUS
  <1>13. QED
    BY <1>8, <1>9, <1>10, <1>11, <1>12 DEF UpPlan

\* ... and of one downwards.
LEMMA DownChunk ==
    ASSUME MailOK, ScanTyped, BookOK, todo # <<>>, NEW r, r = Head(todo), Answers(r),
           NEW asc \in BOOLEAN, ~asc, NEW s, s = Scan(Reverse(Rows(r)), asc),
           DownPlan, ~newest, Readable,
           UNCHANGED <<mailVars, limit>>, Kept' = Kept \cup ToSet(s.recs), edge' = s.edge,
           indexed' = indexed + Len(s.recs), todo' = Tail(todo)
    PROVE  DownPlan'
  <1> DEFINE t == Tail(todo)
  <1>1. limit \in Nat /\ indexed \in Nat /\ todo \in Seq(Ranges) /\ Len(mbox) \in Nat /\ DOMAIN mbox = 1..Len(mbox)
    BY BookFacts, MailFacts
  <1>2. r \in Ranges
    BY <1>1, HeadTailProperties
  <1>3. r.lo \in Nat /\ r.hi \in Nat /\ 1 <= r.lo /\ r.lo <= r.hi /\ Width(r) = r.hi - r.lo + 1
    BY <1>2, RangeFacts
  <1>4. Down(todo, 1, r.hi) /\ indexed + r.hi <= limit
    BY DEF DownPlan
  <1>5. /\ t \in Seq(Ranges) /\ (t = <<>> => r.lo = 1)
        /\ t # <<>> => Head(t).hi = r.lo - 1 /\ Down(t, 1, Head(t).hi)
    BY <1>3, <1>4, DownNext
  <1>6. Len(s.recs) \in Nat /\ Len(s.recs) <= Width(r)
    <2>1. TRUE \in BOOLEAN /\ Reverse(Rows(r)) = IF TRUE THEN Reverse(Rows(r)) ELSE Rows(r)
      OBVIOUS
    <2>2. QED
      BY <1>3, <2>1, RangeScan
  <1>7. \A p \in 1..Len(mbox) : Needed(mbox[p]) => p <= r.hi
    BY <1>1 DEF DownPlan
  <1>8. \A p \in 1..Len(mbox) : Needed(mbox[p]) /\ mbox[p] \notin ToSet(s.recs) => ~s.edge /\ p < r.lo
    BY <1>3, <1>7, DownRead DEF Readable
  <1>9. \A p \in DOMAIN mbox : Needed(mbox[p])' => t # <<>> /\ ~s.edge /\ p <= Head(t).hi
    <2>1. SUFFICES ASSUME NEW p \in DOMAIN mbox, Needed(mbox[p])'
                   PROVE  t # <<>> /\ ~s.edge /\ p <= Head(t).hi
      OBVIOUS
    <2>2. Needed(mbox[p]) /\ mbox[p] \notin ToSet(s.recs)
      BY <2>1 DEF Needed, mailVars
    <2>3. ~s.edge /\ p < r.lo /\ p \in Nat /\ p >= 1
      BY <1>1, <1>8, <2>2
    <2>4. t # <<>>
      BY <1>3, <1>5, <2>3
    <2>5. QED
      BY <1>3, <1>5, <2>3, <2>4
  <1>10. t # <<>> => indexed' + Head(t).hi <= limit
    <2> DEFINE n == Len(s.recs)
               lo == r.lo
               hi == r.hi
    <2>1. n \in Nat /\ n <= hi - lo + 1 /\ lo \in Nat /\ hi \in Nat /\ indexed + hi <= limit /\ indexed' = indexed + n
      BY <1>3, <1>4, <1>6
    <2>2. t # <<>> => Head(t).hi = lo - 1
      BY <1>5
    <2> HIDE DEF n, lo, hi, t
    <2>3. indexed' + (lo - 1) <= limit
      BY <1>1, <2>1
    <2>4. QED
      BY <2>2, <2>3
  <1>11. mbox' = mbox /\ limit' = limit /\ todo' = t
    BY DEF mailVars
  <1>12. ~s.edge => ~edge'
    OBVIOUS
  <1> HIDE DEF t
  <1>13. QED
    BY <1>5, <1>9, <1>10, <1>11, <1>12 DEF DownPlan

LEMMA ReadChunkKeeps ==
    ASSUME IInv, ReadChunk, late' \in BOOLEAN
    PROVE  IInv'
  <1> DEFINE r == Head(todo)
             rows == Rows(r)
             s == Scan(IF Reversed THEN Reverse(rows) ELSE rows, Ascending)
             rest == IF blind /\ Len(rows) < Width(r) THEN <<>> ELSE Tail(todo)
  <1>1. MailOK /\ BookOK /\ BatchesOK /\ HandlerOK /\ CountOK /\ PlanOK /\ NoHoles
    BY DEF IInv
  <1>2. /\ Walking /\ Answers(r) /\ Fold(s, rest, defaulted) /\ strikes' = 0
        /\ UNCHANGED <<mailVars, memo, planVars, outcome, termVars>>
    BY DEF ReadChunk
  <1>3. /\ todo # <<>> /\ r \in Ranges /\ Tail(todo) \in Seq(Ranges) /\ pc = "walk" /\ Running
        /\ ~writeFailed /\ outcome = "none"
        /\ r.lo \in Nat /\ r.hi \in Nat /\ 1 <= r.lo /\ r.lo <= r.hi
        /\ Width(r) = r.hi - r.lo + 1 /\ Width(r) <= ChunkSize /\ Width(r) \in Nat
    BY <1>1, <1>2, WalkingFacts, RangeFacts
  <1>4. ScanTyped
    BY <1>1 DEF ScanTyped, BookOK, MailOK
  <1>5. Reversed \in BOOLEAN /\ Ascending \in BOOLEAN
    BY DEF Reversed, Ascending
  <1>6. s \in Scans /\ s.recs \in Seq(InWindow) /\ Len(s.recs) \in Nat /\ Len(s.recs) <= Width(r)
    BY <1>1, <1>2, <1>3, <1>4, <1>5, RangeScan
  <1>7. s.edge \in BOOLEAN /\ s.useless \in Nat /\ s.tail \in Nat /\ Len(s.recs) <= ChunkSize
    <2>1. Len(s.recs) <= ChunkSize
      BY <1>3, <1>6, ConstantFacts
    <2>2. QED
      BY <1>6, <2>1 DEF Scans
  <1>8. rest \in Seq(Ranges)
    BY <1>3, EmptySeq
  <1> HIDE DEF s, rest
  <1>9. /\ MailOK' /\ BookOK' /\ BatchesOK' /\ HandlerOK'
        /\ Kept' = Kept \cup ToSet(s.recs) /\ edge' = s.edge /\ todo' = rest
        /\ indexed' = indexed + Len(s.recs)
        /\ pc' \in {"walk", "skip"} /\ (pc' = "walk" => ~GivenUp(s, defaulted))
    <2>1. writeFailed = FALSE
      BY <1>1, <1>3 DEF BookOK
    <2>2. /\ order' \in BOOLEAN /\ defaulted' \in BOOLEAN /\ (defaulted' => order') /\ defaulted \in BOOLEAN
      BY <1>1, <1>2, BookFacts DEF planVars
    <2>3. UNCHANGED <<mailVars, memo, total, limit, blind, probeEnd, outcome, termVars>>
      BY <1>2 DEF planVars
    <2>4. QED
      BY <1>1, <1>2, <1>3, <1>6, <1>7, <1>8, <2>1, <2>2, <2>3, FoldKeeps
  <1>10. CountOK'
    BY <1>1, <1>2, <1>3, <1>9, CountStays DEF planVars
  <1>11. NoHoles'
    BY <1>2, <1>3 DEF NoHoles, Clean
  <1>12. PlanOK'
    <2>1. SUFFICES ASSUME pc' = "walk", Good'
                   PROVE  IF blind \/ order THEN UpPlan' ELSE DownPlan'
      BY <1>2 DEF PlanOK, planVars
    <2>2. Good
      BY <1>2, <2>1 DEF Good, Oriented, Readable, Anchored, mailVars, planVars
    <2>3. /\ limit \in Nat /\ Len(mbox) \in Nat /\ DOMAIN mbox = 1..Len(mbox)
          /\ blind \in BOOLEAN /\ order \in BOOLEAN /\ defaulted \in BOOLEAN /\ (defaulted => order)
      BY <1>1, BookFacts, MailFacts
    <2>4. CASE blind \/ order
      <3>1. UpPlan
        BY <1>1, <1>3, <2>2, <2>4 DEF PlanOK
      <3>2. s = Scan(rows, Ascending) /\ (Ascending <=> ~order)
        BY <2>4 DEF s, Reversed, Ascending
      <3>3. Up(todo, r.lo, limit) /\ indexed < r.lo
        BY <1>3, <3>1 DEF UpPlan
      <3>4. /\ Tail(todo) = <<>> => r.hi = limit
            /\ Tail(todo) # <<>> => Head(Tail(todo)).lo = r.hi + 1 /\ Up(Tail(todo), Head(Tail(todo)).lo, limit)
        BY <1>3, <2>3, <3>3, UpNext
      <3>5. \A p \in DOMAIN mbox : Needed(mbox[p]) => p >= r.lo
        BY <3>1 DEF UpPlan
      <3>6. ~newest /\ ~Ascending /\ indexed > 0 => \E p \in DOMAIN mbox : p < r.lo /\ date[mbox[p]] = In
        <4>1. ~edge
          BY <1>1, <1>2, WalkingFacts
        <4>2. QED
          BY <1>3, <2>4, <3>1, <3>2, <4>1 DEF UpPlan
      <3>7. todo' = <<>> => \A p \in DOMAIN mbox : date[mbox[p]] = In => p <= r.hi
        <4>1. CASE blind /\ Len(rows) < Width(r)
          <5>1. Len(rows) = Least(r.hi, Len(mbox)) - r.lo + 1
            BY <1>1, <1>2, <1>3, RowsFacts
          <5>2. Len(mbox) < r.hi
            BY <1>3, <2>3, <4>1, <5>1 DEF Least
          <5>3. QED
            BY <1>3, <2>3, <5>2
        <4>2. CASE ~(blind /\ Len(rows) < Width(r))
          <5>1. todo' = Tail(todo)
            BY <1>9, <4>2 DEF rest
          <5>2. arrived = 0 \/ blind \/ ~newest
            BY <2>2 DEF Good, Anchored
          <5>3. \A p \in DOMAIN mbox : date[mbox[p]] = In => p <= limit
            BY <1>1, <1>3, <2>2, <2>3, <5>2, WithinLimit DEF Good
          <5>4. QED
            BY <3>4, <5>1, <5>3
        <4>3. QED
          BY <4>1, <4>2
      <3>8. todo' # <<>> => Head(todo').lo = r.hi + 1 /\ Up(todo', Head(todo').lo, limit)
        <4>1. todo' # <<>> => todo' = Tail(todo)
          BY <1>9 DEF rest
        <4>2. QED
          BY <3>4, <4>1
      <3>9. /\ (Ascending <=> ~order') /\ (defaulted <=> defaulted') /\ (defaulted' => order')
            /\ UNCHANGED <<mailVars, limit>>
        BY <1>2, <2>3, <3>2 DEF planVars
      <3> HIDE DEF r, rows
      <3>10. UpPlan'
        BY <1>1, <1>2, <1>3, <1>4, <1>5, <1>9, <2>1, <2>3, <3>2, <3>3, <3>5, <3>6, <3>7, <3>8, <3>9, UpChunk DEF rows
      <3>11. QED
        BY <2>4, <3>10
    <2>5. CASE ~(blind \/ order)
      <3>1. DownPlan
        BY <1>1, <1>3, <2>2, <2>5 DEF PlanOK
      <3>2. s = Scan(Reverse(rows), Ascending) /\ ~Ascending
        BY <2>5 DEF s, Reversed, Ascending
      <3>3. ~newest /\ Readable
        BY <2>2, <2>3, <2>5 DEF Good, Oriented
      <3>4. todo' = Tail(todo) /\ UNCHANGED <<mailVars, limit>>
        BY <1>2, <1>9, <2>5 DEF rest, planVars
      <3>5. DownPlan'
        BY <1>1, <1>2, <1>3, <1>4, <1>5, <1>9, <3>1, <3>2, <3>3, <3>4, DownChunk
      <3>6. QED
        BY <2>5, <3>5
    <2>6. QED
      BY <2>4, <2>5
  <1>13. QED
    BY <1>9, <1>10, <1>11, <1>12 DEF IInv

-----------------------------------------------------------------------------
(* The probe answered.                                                     *)

LEMMA EmptyConcat ==
    ASSUME NEW S, NEW s \in Seq(S)
    PROVE  <<>> \o s = s
  BY ConcatEmptySeq

LEMMA ProbeFacts ==
    ASSUME BookOK, CountOK, pc = "probe"
    PROVE  /\ probeEnd \in Nat /\ 1 <= probeEnd /\ probeEnd <= ChunkSize /\ probeEnd # AvoidWidth
           /\ Piece(1, probeEnd) \in Ranges
           /\ Piece(1, probeEnd).lo = 1 /\ Piece(1, probeEnd).hi = probeEnd
           /\ limit \in Nat /\ limit >= 1 /\ total \in Nat
           /\ blind => limit = Cap /\ PieceEnd(1, limit) = FullProbe /\ probeEnd <= FullProbe
           /\ ~blind => /\ total >= 1 /\ limit <= total /\ Least(total, limit) = limit /\ limit = Least(total, Cap)
                        /\ PieceEnd(1, limit) = probeEnd /\ total <= Len(date)
  <1>1. probeEnd \in Nat /\ 1 <= probeEnd /\ probeEnd <= ChunkSize /\ probeEnd # AvoidWidth
        /\ limit \in Nat /\ total \in Nat
    BY DEF BookOK
  <1>2. probeEnd - 1 + 1 = probeEnd /\ 1 \in Nat /\ 1 <= 1
    BY <1>1
  <1>3. Piece(1, probeEnd) \in Ranges /\ Piece(1, probeEnd).lo = 1 /\ Piece(1, probeEnd).hi = probeEnd
    BY <1>1, <1>2, PieceIsRange
  <1>4. Cap \in Nat /\ Cap >= 1
    BY ConstantFacts
  <1>5. CASE blind
    <2>1. limit = Cap /\ probeEnd <= FullProbe
      BY <1>5 DEF CountOK
    <2>2. QED
      BY <1>1, <1>3, <1>4, <1>5, <2>1, FullProbeFacts
  <1>6. CASE ~blind
    <2>1. total >= 1 /\ limit = Least(total, Cap) /\ probeEnd = ProbeRange(total, limit).hi /\ total <= Len(date)
      BY <1>6 DEF CountOK
    <2>2. limit >= 1 /\ limit <= total /\ Least(total, limit) = limit
      BY <1>1, <1>4, <2>1 DEF Least
    <2>3. PieceEnd(1, limit) = probeEnd
      BY <1>1, <2>1, <2>2, ProbeRangeFacts
    <2>4. QED
      BY <1>1, <1>3, <1>6, <2>1, <2>2, <2>3
  <1>7. QED
    BY <1>5, <1>6

\* What remains of the first range after a shrunken probe.
LEMMA UnprobedIsUp ==
    ASSUME BookOK, CountOK, pc = "probe"
    PROVE  /\ blind /\ probeEnd < FullProbe => Up(Unprobed, probeEnd + 1, FullProbe)
           /\ ~blind \/ probeEnd >= FullProbe => Unprobed = <<>>
  <1> DEFINE lo == probeEnd + 1
             hi == FullProbe
             rest == Piece(lo, hi)
  <1>1. probeEnd \in Nat /\ 1 <= probeEnd /\ hi \in Nat /\ hi <= ChunkSize /\ ChunkSize \in Nat /\ AvoidWidth > 1
        /\ AvoidWidth \in Nat
    BY ProbeFacts, FullProbeFacts, ConstantFacts
  <1>2. ASSUME blind, probeEnd < FullProbe
        PROVE  Up(Unprobed, lo, hi)
    <2>1. lo \in Nat /\ 1 <= lo /\ lo <= hi /\ hi - lo + 1 <= ChunkSize
      BY <1>1, <1>2
    <2>2. Unprobed = IF Width(rest) = AvoidWidth THEN Halves(rest) ELSE <<rest>>
      BY <1>1, <1>2 DEF Unprobed
    <2>3. Width(rest) = hi - lo + 1
      BY DEF Width, Piece
    <2> HIDE DEF lo, hi
    <2>4. CASE Width(rest) = AvoidWidth
      <3>1. lo < hi
        BY <1>1, <2>1, <2>3, <2>4
      <3>2. QED
        BY <1>1, <2>1, <2>2, <2>4, <3>1, HalvesAreUp
    <2>5. CASE Width(rest) # AvoidWidth
      <3>1. rest \in Ranges /\ rest.lo = lo /\ rest.hi = hi
        BY <1>1, <2>1, <2>3, <2>5, PieceIsRange
      <3>2. QED
        BY <2>2, <2>5, <3>1, UpSingle
    <2>6. QED
      BY <2>4, <2>5
  <1>3. ASSUME ~blind \/ probeEnd >= FullProbe
        PROVE  Unprobed = <<>>
    BY <1>3 DEF Unprobed
  <1>4. QED
    BY <1>2, <1>3

\* The plan after a probe that was its first chunk.
LEMMA FirstPlan ==
    ASSUME BookOK, CountOK, pc = "probe"
    PROVE  LET plan == WalkRanges(IF blind THEN limit ELSE total, limit, TRUE) IN
           Up(Unprobed \o Tail(plan), probeEnd + 1, limit)
  <1> DEFINE plan == WalkRanges(IF blind THEN limit ELSE total, limit, TRUE)
             u == Unprobed
  <1>1. /\ probeEnd \in Nat /\ limit \in Nat /\ limit >= 1 /\ total \in Nat
        /\ blind => PieceEnd(1, limit) = FullProbe /\ probeEnd <= FullProbe
        /\ ~blind => Least(total, limit) = limit /\ PieceEnd(1, limit) = probeEnd
    BY ProbeFacts
  <1>2. plan = Cut(1, limit)
    BY <1>1 DEF WalkRanges, Least
  <1> HIDE DEF plan
  <1>3. Up(plan, 1, limit) /\ plan # <<>> /\ Head(plan) = Piece(1, PieceEnd(1, limit))
    <2>1. 1 \in Nat /\ 1 <= 1 /\ 1 <= limit
      BY <1>1
    <2>2. Up(Cut(1, limit), 1, limit) /\ Cut(1, limit) # <<>>
          /\ Head(Cut(1, limit)) = Piece(1, PieceEnd(1, limit))
      BY <1>1, <2>1, PlanIsContiguous
    <2>3. QED
      BY <1>2, <2>2
  <1> DEFINE e == PieceEnd(1, limit)
             t == Tail(plan)
  <1>4. Head(plan).hi = e
    BY <1>3 DEF Piece
  <1>5. e \in Nat /\ 1 <= e /\ e <= limit
    BY <1>1, PieceEndFacts
  <1>6. Up(t, e + 1, limit) /\ t \in Seq(Ranges)
    <2>1. Up(t, Head(plan).hi + 1, limit) /\ t \in Seq(Ranges)
      BY <1>1, <1>3, UpNext
    <2> HIDE DEF t, e
    <2>2. QED
      BY <1>4, <2>1
  <1>7. CASE blind /\ probeEnd < FullProbe
    <2>1. Up(u, probeEnd + 1, e)
      <3>1. Up(u, probeEnd + 1, FullProbe) /\ FullProbe = e
        BY <1>1, <1>7, UnprobedIsUp
      <3> HIDE DEF u, e
      <3>2. QED
        BY <3>1
    <2> HIDE DEF u, t, e
    <2>2. probeEnd + 1 \in Nat
      BY <1>1
    <2>3. Up(u \o t, probeEnd + 1, limit)
      BY <1>1, <1>5, <1>6, <2>1, <2>2, UpConcat
    <2>4. QED
      BY <2>3 DEF u, t, plan
  <1>8. CASE ~(blind /\ probeEnd < FullProbe)
    <2>0. ~blind \/ probeEnd >= FullProbe
      BY <1>1, <1>8, FullProbeFacts
    <2>1. u = <<>>
      BY <2>0, UnprobedIsUp
    <2>2. u \o t = t
      <3> HIDE DEF t, u
      <3>1. QED
        BY <1>6, <2>1, EmptyConcat
    <2>3. e = probeEnd
      BY <1>1, <1>5, <2>0, FullProbeFacts
    <2> HIDE DEF u, t, e
    <2>4. Up(u \o t, probeEnd + 1, limit)
      BY <1>6, <2>2, <2>3
    <2>5. QED
      BY <2>4 DEF u, t, plan
  <1>9. QED
    BY <1>7, <1>8

\* ... and the plan of a walk downwards.
LEMMA DownPlanned ==
    ASSUME BookOK, CountOK, pc = "probe", ~blind, NEW first \in BOOLEAN, ~first
    PROVE  LET plan == WalkRanges(total, limit, first) IN
           /\ plan \in Seq(Ranges) /\ plan # <<>>
           /\ Readable => Down(plan, 1, total) /\ limit = total
  <1> DEFINE start == Most(1, total - limit + 1)
             cut == Cut(start, total)
  <1>1. total \in Nat /\ limit \in Nat /\ limit >= 1 /\ limit <= total /\ total >= 1 /\ total <= Len(date)
        /\ limit = Least(total, Cap)
    BY ProbeFacts
  <1>2. start \in Nat /\ 1 <= start /\ start <= total
    BY <1>1 DEF Most
  <1>3. Up(cut, start, total) /\ cut # <<>>
    <2> HIDE DEF start
    <2>1. QED
      BY <1>1, <1>2, PlanIsContiguous
  <1>4. Down(Reverse(cut), start, total) /\ Reverse(cut) # <<>>
    <2> HIDE DEF start, cut
    <2>1. QED
      BY <1>3, ReverseIsDown
  <1>5. WalkRanges(total, limit, first) = Reverse(cut)
    BY DEF WalkRanges
  <1>6. ASSUME Readable
        PROVE  limit = total /\ start = 1
    <2>1. Len(date) <= Cap
      BY <1>6 DEF Readable
    <2>2. limit = total
      <3>1. CASE total < Cap
        BY <1>1, <3>1 DEF Least
      <3>2. CASE ~(total < Cap)
        <4>1. limit = Cap
          BY <1>1, <3>2 DEF Least
        <4>2. QED
          BY <1>1, <4>1, <2>1, <3>2, ConstantFacts DEF Readable
      <3>3. QED
        BY <3>1, <3>2
    <2>3. QED
      BY <1>1, <2>2 DEF Most
  <1> HIDE DEF start, cut
  <1>7. Reverse(cut) \in Seq(Ranges)
    BY <1>4 DEF Down
  <1>8. QED
    BY <1>4, <1>5, <1>6, <1>7

LEMMA ProbeKeeps ==
    ASSUME IInv, Probe, late' \in BOOLEAN
    PROVE  IInv'
  <1> DEFINE r == Piece(1, probeEnd)
             rows == Rows(r)
             first == blind \/ order'
             asc == blind /\ ~order'
             plan == WalkRanges(IF blind THEN limit ELSE total, limit, first)
             s == IF first THEN Scan(rows, asc) ELSE NoScan
             rest == IF first THEN Unprobed \o Tail(plan) ELSE plan
             unsure == first /\ defaulted'
  <1>1. MailOK /\ BookOK /\ BatchesOK /\ HandlerOK /\ CountOK /\ PlanOK /\ NoHoles
    BY DEF IInv
  <1>2. /\ pc = "probe" /\ Running /\ Answers(r) /\ strikes' = 0
        /\ UNCHANGED <<mailVars, memo, total, limit, blind, probeEnd, outcome, termVars>>
    BY DEF Probe
  <1>3. order' \in BOOLEAN /\ defaulted' \in BOOLEAN /\ (defaulted' => order')
    <2>1. \E hints : defaulted' = (hints = {}) /\ order' = (FALSE \notin hints)
      BY DEF Probe
    <2>2. QED
      BY <2>1
  <1>4. Fold(s, rest, unsure)
    <2>1. CASE first
      <3>1. Fold(Scan(rows, asc), Unprobed \o Tail(plan), defaulted')
        BY <2>1 DEF Probe
      <3>2. unsure = defaulted'
        BY <1>3, <2>1
      <3>3. s = Scan(rows, asc) /\ rest = Unprobed \o Tail(plan)
        BY <2>1
      <3> HIDE DEF s, rest, unsure, asc, rows, plan, first
      <3>4. QED
        BY <3>1, <3>2, <3>3
    <2>2. CASE ~first
      <3>1. Fold(NoScan, plan, FALSE)
        BY <2>2 DEF Probe
      <3>2. unsure = FALSE
        BY <2>2
      <3>3. s = NoScan /\ rest = plan
        BY <2>2
      <3> HIDE DEF s, rest, unsure, asc, rows, plan, first
      <3>4. QED
        BY <3>1, <3>2, <3>3
    <2>3. QED
      BY <2>1, <2>2
  <1>5. /\ probeEnd \in Nat /\ 1 <= probeEnd /\ probeEnd <= ChunkSize
        /\ r \in Ranges /\ r.lo = 1 /\ r.hi = probeEnd
        /\ limit \in Nat /\ limit >= 1 /\ total \in Nat /\ Width(r) = r.hi - r.lo + 1 /\ Width(r) <= ChunkSize
    BY <1>1, <1>2, ProbeFacts, RangeFacts
  <1>6. blind \in BOOLEAN /\ Len(mbox) \in Nat /\ DOMAIN mbox = 1..Len(mbox)
    BY <1>1, BookFacts, MailFacts
  <1>7. pending = <<>> /\ staged = {} /\ indexed = 0 /\ ~writeFailed /\ outcome = "none"
    BY <1>1, <1>2 DEF BatchesOK
  <1>8. ScanTyped
    BY <1>1 DEF ScanTyped, BookOK, MailOK
  <1>9. first \in BOOLEAN /\ asc \in BOOLEAN /\ unsure \in BOOLEAN
    BY <1>3, <1>6
  <1>10. s.recs \in Seq(InWindow) /\ Len(s.recs) <= ChunkSize /\ s.edge \in BOOLEAN /\ s.useless \in Nat /\ s.tail \in Nat
    <2>1. CASE first
      <3>1. s = Scan(IF FALSE THEN Reverse(Rows(r)) ELSE Rows(r), asc) /\ FALSE \in BOOLEAN
        BY <2>1
      <3>a. r.lo \in Nat /\ r.hi \in Nat /\ 1 <= r.lo /\ r.lo <= r.hi
        BY <1>5
      <3> HIDE DEF s, asc, r
      <3>2. s \in Scans /\ s.recs \in Seq(InWindow) /\ Len(s.recs) <= Width(r) /\ Len(s.recs) \in Nat
        BY <1>1, <1>2, <1>8, <1>9, <3>1, <3>a, RangeScan
      <3>3. Len(s.recs) <= ChunkSize
        BY <1>5, <3>2, ConstantFacts
      <3>4. QED
        BY <3>2, <3>3 DEF Scans
    <2>2. CASE ~first
      <3>1. s = NoScan
        BY <2>2
      <3> HIDE DEF s
      <3>2. useless \in Nat /\ tail \in Nat
        BY <1>8 DEF ScanTyped
      <3>3. Len(<<>>) <= ChunkSize /\ <<>> \in Seq(InWindow)
        BY ConstantFacts
      <3>4. QED
        BY <3>1, <3>2, <3>3 DEF NoScan
    <2>3. QED
      BY <2>1, <2>2
  <1>11. first => Up(rest, probeEnd + 1, limit)
    <2>1. SUFFICES ASSUME first
                   PROVE  Up(rest, probeEnd + 1, limit)
      OBVIOUS
    <2>2. first = TRUE
      BY <1>9, <2>1
    <2>3. plan = WalkRanges(IF blind THEN limit ELSE total, limit, TRUE)
      <3> HIDE DEF first
      <3>1. QED
        BY <2>2
    <2>4. rest = Unprobed \o Tail(plan)
      BY <2>1
    <2> HIDE DEF rest, plan, first
    <2>5. QED
      BY <1>1, <1>2, <2>3, <2>4, FirstPlan
  <1>12. ~first => /\ rest \in Seq(Ranges) /\ rest # <<>>
                   /\ Readable => Down(rest, 1, total) /\ limit = total
    <2>1. SUFFICES ASSUME ~first
                   PROVE  /\ rest \in Seq(Ranges) /\ rest # <<>>
                          /\ Readable => Down(rest, 1, total) /\ limit = total
      OBVIOUS
    <2>2. ~blind /\ rest = plan
      BY <2>1
    <2>3. rest = WalkRanges(total, limit, first)
      <3> HIDE DEF first, rest
      <3>1. QED
        BY <2>2
    <2> HIDE DEF rest, first
    <2>4. QED
      BY <1>1, <1>2, <1>9, <2>1, <2>2, <2>3, DownPlanned
  <1>13. rest \in Seq(Ranges)
    <2> HIDE DEF rest, first
    <2>1. QED
      BY <1>9, <1>11, <1>12 DEF Up
  <1>14. first => s = Scan(rows, asc)
    OBVIOUS
  <1>15. ~first => ~s.edge /\ Len(s.recs) = 0 /\ ToSet(s.recs) = {}
    BY DEF NoScan, ToSet
  <1>16. first <=> blind \/ order'
    OBVIOUS
  <1>17. (asc <=> blind /\ ~order') /\ (unsure <=> first /\ defaulted')
    OBVIOUS
  <1> HIDE DEF s, rest, unsure, asc, first, plan, rows, r
  <1>18. /\ MailOK' /\ BookOK' /\ BatchesOK' /\ HandlerOK'
         /\ Kept' = Kept \cup ToSet(s.recs) /\ edge' = s.edge /\ todo' = rest
         /\ indexed' = indexed + Len(s.recs)
         /\ pc' \in {"walk", "skip"} /\ (pc' = "walk" => ~GivenUp(s, unsure))
    <2>1. writeFailed = FALSE
      BY <1>1, <1>7 DEF BookOK
    <2>2. QED
      BY <1>1, <1>2, <1>3, <1>4, <1>9, <1>10, <1>13, <2>1, FoldKeeps
  <1>19. CountOK'
    <2>1. pc' # "probe"
      BY <1>18
    <2>2. blind' => limit' = Cap
      BY <1>1, <1>2 DEF CountOK
    <2>3. ~blind' /\ (arrived' = 0 \/ ~newest') =>
          \A p \in DOMAIN mbox' :
             /\ p > total' => date'[mbox'[p]] = Above
             /\ p > limit' /\ Readable' => date'[mbox'[p]] = Above
      BY <1>1, <1>2 DEF CountOK, mailVars, Readable
    <2>4. QED
      BY <2>1, <2>2, <2>3 DEF CountOK
  <1>20. NoHoles'
    BY <1>2, <1>7 DEF NoHoles, Clean
  <1>21. PlanOK'
    <2>1. SUFFICES ASSUME pc' = "walk", Good'
                   PROVE  IF blind \/ order' THEN UpPlan' ELSE DownPlan'
      BY <1>2 DEF PlanOK
    <2>2. Readable /\ (arrived = 0 \/ blind \/ ~newest)
      BY <1>2, <2>1 DEF Good, Readable, Anchored, mailVars
    <2>3. \A p \in DOMAIN mbox : date[mbox[p]] = In => p <= limit
      BY <1>1, <1>2, <1>5, <2>2, WithinLimit
    <2>4. CASE first
      <3>1. Up(todo', probeEnd + 1, limit)
        BY <1>11, <1>18, <2>4
      <3>2. todo' # <<>> => Head(todo').lo = probeEnd + 1
        <4>1. todo' \in Seq(Ranges)
          BY <1>13, <1>18
        <4>2. todo' # <<>> => Head(todo') = todo'[1]
          BY <4>1, HeadTailProperties
        <4>3. QED
          BY <3>1, <4>2 DEF Up
      <3>3. todo' # <<>> => Head(todo').lo = r.hi + 1 /\ Up(todo', Head(todo').lo, limit)
        BY <1>5, <3>1, <3>2
      <3>4. todo' = <<>> => \A p \in DOMAIN mbox : date[mbox[p]] = In => p <= r.hi
        <4>1. todo' = <<>> => probeEnd + 1 = limit + 1
          BY <3>1 DEF Up
        <4>2. QED
          BY <1>5, <2>3, <4>1
      <3>5. /\ \A p \in DOMAIN mbox : Needed(mbox[p]) => p >= r.lo
            /\ ~(indexed > 0) /\ indexed < r.lo
        BY <1>5, <1>6, <1>7
      <3>6. (asc <=> ~order') /\ (unsure <=> defaulted')
        BY <1>16, <1>17, <2>4
      <3>7. s = Scan(Rows(r), asc)
        BY <1>14, <2>4 DEF rows
      <3>8. UNCHANGED <<mailVars, limit>>
        BY <1>2
      <3>9. UpPlan'
        BY <1>1, <1>2, <1>3, <1>5, <1>8, <1>9, <1>18, <2>1, <3>3, <3>4, <3>5, <3>6, <3>7, <3>8, UpChunk
      <3>10. QED
        BY <1>16, <2>4, <3>9
    <2>5. CASE ~first
      <3>1. /\ todo' # <<>> /\ todo' \in Seq(Ranges) /\ Down(todo', 1, total) /\ limit = total
        BY <1>12, <1>18, <2>2, <2>5
      <3>2. Head(todo').hi = total
        <4>1. Head(todo') = todo'[1]
          BY <3>1, HeadTailProperties
        <4>2. QED
          BY <3>1, <4>1 DEF Down
      <3>3. indexed' + Head(todo').hi <= limit
        BY <1>5, <1>7, <1>15, <1>18, <2>5, <3>1, <3>2
      <3>4. \A p \in DOMAIN mbox : Needed(mbox[p])' => p <= Head(todo').hi
        <4>1. \A p \in DOMAIN mbox : Needed(mbox[p])' => date[mbox[p]] = In
          BY <1>2 DEF Needed, mailVars
        <4>2. QED
          BY <2>3, <3>1, <3>2, <4>1
      <3>5. ~edge'
        BY <1>15, <1>18, <2>5
      <3>6. mbox' = mbox /\ limit' = limit
        BY <1>2 DEF mailVars
      <3>7. DownPlan'
        BY <3>1, <3>2, <3>3, <3>4, <3>5, <3>6 DEF DownPlan
      <3>8. QED
        BY <1>16, <2>5, <3>7
    <2>6. QED
      BY <1>9, <2>4, <2>5
  <1>22. QED
    BY <1>18, <1>19, <1>20, <1>21 DEF IInv

-----------------------------------------------------------------------------
(* The theorems.                                                           *)

LEMMA StutterKeeps ==
    ASSUME IInv, UNCHANGED vars
    PROVE  IInv'
  <1>1. UNCHANGED <<mailVars, memo, pc, planVars, strikes, todo, scanVars, batchVars, writeFailed, outcome,
                    termVars, late>>
    BY DEF vars
  <1>2. MailOK /\ BookOK /\ BatchesOK /\ HandlerOK /\ CountOK /\ PlanOK /\ NoHoles
    BY DEF IInv
  <1>3. MailOK' /\ InWindow' = InWindow /\ Messages' = Messages
    BY <1>1, <1>2, MailStays
  <1>4. Kept' = Kept
    BY <1>1 DEF Kept, batchVars
  <1>5. BookOK'
    BY <1>1, <1>2 DEF BookOK, planVars, scanVars, termVars
  <1>6. BatchesOK'
    BY <1>1, <1>2, <1>3 DEF BatchesOK, batchVars, scanVars, termVars
  <1>7. HandlerOK'
    BY <1>1, <1>2, <1>4 DEF HandlerOK, CancelStrandsNothing, termVars, batchVars
  <1>8. CountOK'
    BY <1>1, <1>2, CountStays DEF planVars
  <1>9. PlanOK'
    BY <1>1, <1>2, <1>4, PlanStays DEF planVars, scanVars
  <1>10. NoHoles'
    BY <1>1, <1>2 DEF NoHoles, Clean, Cancelled, Oriented, Readable, Anchored, Missed, mailVars, planVars, batchVars,
                      termVars
  <1>11. QED
    BY <1>3, <1>5, <1>6, <1>7, <1>8, <1>9, <1>10 DEF IInv

LEMMA NextKeeps == IInv /\ [Next]_vars => IInv'
  <1> SUFFICES ASSUME IInv, [Next]_vars
               PROVE  IInv'
    OBVIOUS
  <1>1. CASE Stop
    BY <1>1, StopKeeps
  <1>2. CASE (HandlerStep \/ Arrive \/ Depart) /\ UNCHANGED late
    BY <1>2, HandlerKeeps, ArriveKeeps, DepartKeeps
  <1>3. CASE WalkStep /\ late' = FALSE
    <2>1. late' \in BOOLEAN
      BY <1>3
    <2>2. CASE Count
      BY <2>1, <2>2, CountKeeps
    <2>3. CASE Probe
      BY <2>1, <2>3, ProbeKeeps
    <2>4. CASE ProbeFails
      BY <2>1, <2>4, ProbeFailsKeeps
    <2>5. CASE PassBeyond
      BY <2>1, <2>5, PassBeyondKeeps
    <2>6. CASE ReadChunk
      BY <2>1, <2>6, ReadChunkKeeps
    <2>7. CASE NotVerified \/ BlindReadFails \/ Mistaken
      BY <2>1, <2>7, RefusedKeeps
    <2>8. CASE BlindOutOfRange
      BY <2>1, <2>8, BlindOutOfRangeKeeps
    <2>9. CASE CountedReadFails
      BY <2>1, <2>9, CountedReadFailsKeeps
    <2>10. CASE Finish
      BY <2>1, <2>10, FinishKeeps
    <2>11. QED
      BY <1>3, <2>2, <2>3, <2>4, <2>5, <2>6, <2>7, <2>8, <2>9, <2>10 DEF WalkStep
  <1>4. CASE UNCHANGED vars
    BY <1>4, StutterKeeps
  <1>5. QED
    BY <1>1, <1>2, <1>3, <1>4 DEF Next

\* The invariant is inductive: every walk keeps it.
THEOREM IInvTheorem == Spec => []IInv
  <1>1. Init => IInv
    BY InitKeeps
  <1>2. IInv /\ [Next]_vars => IInv'
    BY NextKeeps
  <1>3. QED
    BY <1>1, <1>2, PTL DEF Spec

LEMMA IInvTypeOK == IInv => TypeOK
  <1> SUFFICES ASSUME IInv
               PROVE  TypeOK
    OBVIOUS
  <1>1. MailOK /\ BookOK /\ BatchesOK /\ HandlerOK
    BY DEF IInv
  <1>2. /\ mbox \in Seq(1..Len(date)) /\ date \in Seq(Dates) /\ misdated \subseteq 1..Len(date)
        /\ \A i, j \in DOMAIN mbox : i # j => mbox[i] # mbox[j]
        /\ gone \cap ToSet(mbox) = {} /\ gone \cup ToSet(mbox) = 1..Len(date) /\ newest \in BOOLEAN
    BY <1>1 DEF MailOK, Messages, Distinct
  <1>3. /\ {memo, blind, order, defaulted, edge, writeFailed, late, flushOK} \subseteq BOOLEAN
        /\ pc \in {"count", "probe", "walk", "skip", "abort", "end"}
        /\ pc = "probe" => probeEnd >= 1
    BY <1>1 DEF BookOK
  <1>4. strikes \in 0..3
    <2>1. strikes \in Nat /\ strikes <= (IF pc \in {"count", "probe"} THEN 1 ELSE IF pc = "walk" THEN 2 ELSE 3)
      BY <1>1 DEF BookOK
    <2>2. QED
      BY <2>1
  <1>5. \A i \in DOMAIN todo : 1 <= todo[i].lo /\ todo[i].lo <= todo[i].hi
    <2>1. \A i \in DOMAIN todo : todo[i] \in Ranges
      BY <1>1 DEF BookOK
    <2>2. QED
      BY <2>1, RangeFacts
  <1>6. ToSet(pending) \cup staged \cup owed \subseteq {m \in 1..Len(date) : date[m] = In}
    <2>1. ToSet(pending) \subseteq InWindow
      BY <1>1, MembersOfSeq DEF BatchesOK
    <2>2. QED
      BY <1>1, <2>1 DEF BatchesOK, InWindow, Messages
  <1>7. /\ Len(pending) < BatchSize + ChunkSize
        /\ outcome \in {"none", "ok", "skip", "transport"} /\ (outcome = "none" <=> pc # "end")
        /\ term \in {"none", "stopped", "flushed", "exit"}
    BY <1>1 DEF BatchesOK, HandlerOK
  <1>8. QED
    BY <1>2, <1>3, <1>4, <1>5, <1>6, <1>7 DEF TypeOK

LEMMA IInvNoAmbiguousWidth == IInv => NoAmbiguousWidth
  <1> SUFFICES ASSUME IInv
               PROVE  NoAmbiguousWidth
    OBVIOUS
  <1>1. todo \in Seq(Ranges) /\ (pc = "probe" => probeEnd # AvoidWidth)
    BY DEF IInv, BookOK
  <1>2. \A i \in DOMAIN todo : todo[i] \in Ranges
    BY <1>1
  <1>3. QED
    BY <1>1, <1>2, RangeFacts DEF NoAmbiguousWidth

\* Every variable has its type, no message is twice in the mailbox, and only
\* messages of the window are staged.
THEOREM TypeCorrect == Spec => []TypeOK
  BY IInvTheorem, IInvTypeOK, PTL

\* No range is read that is as wide as a message has properties: of the plan,
\* of the halves of a refused read and of what a shrunken probe left.
THEOREM WidthsAreUnambiguous == Spec => []NoAmbiguousWidth
  BY IInvTheorem, IInvNoAmbiguousWidth, PTL

\* A walk that ends "ok" has staged every message of its window, if it was
\* oriented and anchored in a readable mailbox.
THEOREM NoHolesTheorem == Spec => []NoHoles
  <1>1. IInv => NoHoles
    BY DEF IInv
  <1>2. QED
    BY IInvTheorem, <1>1, PTL

\* SIGTERM strands no record that was pending, unless a flush failed or the
\* walk reports an error.
THEOREM CancelTheorem == Spec => []CancelStrandsNothing
  <1>1. IInv => CancelStrandsNothing
    BY DEF IInv, HandlerOK
  <1>2. QED
    BY IInvTheorem, <1>1, PTL

\* All that WalkIsSound says of a walk at any moment.
THEOREM WalkIsSoundTheorem == Spec => []WalkIsSound
  <1>1. IInv => WalkIsSound
    BY IInvTypeOK, IInvNoAmbiguousWidth DEF IInv, HandlerOK, WalkIsSound
  <1>2. QED
    BY IInvTheorem, <1>1, PTL

=============================================================================

--------------------------- MODULE IndexIngestProofs ---------------------------
(***************************************************************************)
(* Proofs about IndexIngest, for any processes, rows, containers, batches, *)
(* crashes and mixes of calls: what is purged stays out, what was staged   *)
(* is not lost, and no row goes back to an older record.                   *)
(*                                                                         *)
(* The argument: without ingest_pending whoever works on the table holds   *)
(* the writer lock (Exclusive), so the scopes it read still cover those    *)
(* recorded (Careful).  An ingest that lists a batch lists every older one *)
(* that is staged (Complete), merges before it removes (Merged), and       *)
(* removes the oldest first, so that a batch that is gone leaves no older  *)
(* one behind (Gone, Listed): the newest record an ingest finds for a row  *)
(* is not older than the one the table has.                                *)
(***************************************************************************)
EXTENDS IndexIngest, WellFoundedInduction, TLAPS

\* A row that is yet to be merged has a record among the batches read.
RestIsRead == \A p \in Procs : pc[p] = "merge" =>
    \A r \in rest[p] : \E n \in got[p] : r \in content[n]

\* A wipe is run only by a process that makes such calls.
WipersWipe == \A p \in Procs : pc[p] \in {"drop", "unstage", "unscope"} => "wipe" \in runs[p]

\* An index_forget names a container.
ForgetsName == \A p \in Procs : pc[p] \in {"delete", "load", "record"} => target[p] \in Scopes

\* Whoever works on the table holds the writer lock.
Exclusive == \A p \in Procs : pc[p] \in Locked \cup Owning => writer = p

\* A container whose rows are not in the table.
Empty(s) == \A r \in Rows : index[r] # 0 => ScopeAt[index[r]][r] # s

Careful(p) ==
    /\ pc[p] \in {"list", "read", "merge"} => purged \subseteq scopes[p]
    /\ pc[p] = "merge" => \A r \in rest[p] : ScopeAt[Newest(p, r)][r] \notin scopes[p]
    /\ pc[p] \in {"load", "record"} => Empty(target[p])
    /\ pc[p] = "record" => \A s \in scopes[p] : Empty(s)

\* Every record of batch n went in a wipe.
Wiped(n) == ~Without("wipe") /\ \A r \in Rows : <<n, r>> \in disposed

\* No batch of N that is older than n has records.
NoneOlder(n, N) == \A m \in N : m < n => content[m] = {}

IndexIsRead == \A r \in Rows : index[r] # 0 => r \in content[index[r]]

Gone == \A n \in 1..(next - 1) : content[n] # {} =>
    n \in staged \/ Wiped(n) \/ NoneOlder(n, staged)

\* The batches an ingest listed and has not removed.
Held(p) == unread[p] \cup got[p]

Complete(p) == \A m \in staged : \A n \in Held(p) :
    m < n /\ content[m] # {} => m \in Held(p)

Listed(p) == \A n \in 1..(next - 1) : content[n] # {} =>
    n \in staged \/ n \in got[p] \/ Wiped(n) \/ NoneOlder(n, Held(p))

\* The records the table holds are not newer than the listing.
Current(p) == \A r \in Rows : index[r] # 0 /\ index[r] \in staged => index[r] \in Held(p)

Merged(p) == \A n \in got[p] : \A r \in content[n] :
    r \in rest[p] \/ index[r] >= n \/ <<n, r>> \in disposed

Kept(p) ==
    /\ pc[p] \in {"read", "merge"} => Complete(p) /\ Listed(p) /\ Current(p)
    /\ pc[p] = "merge" => unread[p] = {} /\ Merged(p)

NothingIsLost == \A n \in 1..(next - 1) : \A r \in content[n] :
    n \in staged \/ index[r] >= n \/ <<n, r>> \in disposed

Durable == \A s \in purged : Empty(s)

\* The inductive invariant, in layers.
TypeInv == TypeOK /\ RestIsRead /\ WipersWipe /\ ForgetsName
PurgeInv == Without("pending") => Exclusive /\ Durable /\ \A p \in Procs : Careful(p)
KeepInv == Without("pending") =>
    IndexIsRead /\ Gone /\ NothingIsLost /\ \A p \in Procs : Kept(p)
IInv == TypeInv /\ PurgeInv /\ KeepInv

-----------------------------------------------------------------------------
\* A set of naturals that is not empty has a least member, and Min finds it.
LEMMA MinFacts ==
    ASSUME NEW T, T \subseteq Nat, T # {}
    PROVE  Min(T) \in T /\ \A n \in T : Min(T) <= n
  <1>1. PICK R : /\ IsWellFoundedOn(R, Nat)
                 /\ \A x, y \in Nat : <<y, x>> \in R <=> y < x
    <2>1. \A x, y \in Nat : <<y, x>> \in OpToRel(<, Nat) <=> y < x
      BY DEF OpToRel
    <2>2. QED
      BY <2>1, NatLessThanWellFounded, Zenon
  <1>2. PICK x \in T : \A y \in T : ~(<<y, x>> \in R)
    BY <1>1, WFMin
  <1>3. \A y \in T : x <= y
    <2>1. ASSUME NEW y \in T
          PROVE  x <= y
      <3>1. x \in Nat /\ y \in Nat
        OBVIOUS
      <3>2. ~(y < x)
        BY <1>1, <1>2, <3>1, Zenon
      <3>3. QED
        BY <3>1, <3>2
    <2>2. QED
      BY <2>1
  <1>4. \E m \in T : \A y \in T : m <= y
    BY <1>3
  <1>5. QED
    BY <1>4 DEF Min

\* A set of naturals that is not empty and has a bound has a greatest member,
\* and Max finds it: it is the least bound.
LEMMA MaxFacts ==
    ASSUME NEW T, T \subseteq Nat, T # {}, NEW b \in Nat, \A n \in T : n <= b
    PROVE  Max(T) \in T /\ \A n \in T : n <= Max(T)
  <1> DEFINE Bounds == {m \in Nat : \A n \in T : n <= m}
             l == Min(Bounds)
  <1>1. Bounds \subseteq Nat /\ Bounds # {}
    OBVIOUS
  <1>2. l \in Bounds /\ \A m \in Bounds : l <= m
    BY <1>1, MinFacts
  <1> HIDE DEF l
  <1>3. l \in T
    <2>1. SUFFICES ASSUME l \notin T
                   PROVE  FALSE
      OBVIOUS
    <2>2. \A n \in T : n < l
      BY <1>2, <2>1
    <2>3. PICK n \in T : TRUE
      OBVIOUS
    <2>4. l - 1 \in Nat /\ \A k \in T : k <= l - 1
      BY <1>2, <2>2, <2>3
    <2>5. QED
      BY <1>2, <2>4
  <1>4. \E m \in T : \A n \in T : m >= n
    BY <1>2, <1>3
  <1>5. Max(T) \in T /\ \A n \in T : Max(T) >= n
    BY <1>4 DEF Max
  <1>6. QED
    BY <1>5

\* The newest record of a row among the batches a process read.
LEMMA NewestFacts ==
    ASSUME TypeOK, NEW p \in Procs, NEW r, \E n \in got[p] : r \in content[n]
    PROVE  /\ Newest(p, r) \in got[p] /\ r \in content[Newest(p, r)]
           /\ Newest(p, r) \in 1..(next - 1)
           /\ \A n \in got[p] : r \in content[n] => n <= Newest(p, r)
  <1> DEFINE T == {n \in got[p] : r \in content[n]}
  <1>1. next \in Nat /\ got[p] \subseteq 1..(next - 1)
    BY IndexAssumption DEF TypeOK
  <1>2. T \subseteq Nat /\ T # {} /\ next \in Nat /\ \A n \in T : n <= next
    BY <1>1
  <1>3. Max(T) \in T /\ \A n \in T : n <= Max(T)
    BY <1>2, MaxFacts
  <1>4. Newest(p, r) = Max(T)
    BY DEF Newest
  <1>5. QED
    BY <1>1, <1>3, <1>4

\* The records of the rows in R up to the one the table holds.
LEMMA UpFacts ==
    ASSUME NEW R
    PROVE  /\ Up(R) \subseteq Batches \X R
           /\ \A n \in Batches : \A r \in R : n <= index[r] => <<n, r>> \in Up(R)
  <1>1. QED
    BY DEF Up

-----------------------------------------------------------------------------
(***************************************************************************)
(* Types.                                                                  *)
(***************************************************************************)
LEMMA TypeInit == Init => TypeInv
  <1>1. Init => TypeOK
    BY IndexAssumption DEF Init, TypeOK, PcStates
  <1>2. QED
    BY <1>1 DEF Init, TypeInv, RestIsRead, WipersWipe, ForgetsName

LEMMA TypeStep == TypeInv /\ [Next]_vars => TypeInv'
  <1> SUFFICES ASSUME TypeInv, [Next]_vars
               PROVE  TypeInv'
    OBVIOUS
  <1> USE DEF Goes, PcStates, Locked, Owning, dirVars, lockVars, localVars
  <1>1. /\ TypeOK /\ MaxBatch \in Nat /\ MaxCrashes \in Nat
        /\ NoProc \notin Procs
    BY IndexAssumption DEF TypeInv
  <1>2. TypeOK'
    <2>1. CASE Stage
      BY <1>1, <2>1 DEF TypeOK, Stage, Batches
    <2>2. ASSUME NEW p \in Procs, TakeIngestLock(p)
          PROVE  TypeOK'
      BY <1>1, <2>2 DEF TypeOK, TakeIngestLock
    <2>3. ASSUME NEW p \in Procs, StartPending(p)
          PROVE  TypeOK'
      BY <1>1, <2>3 DEF TypeOK, StartPending
    <2>4. ASSUME NEW p \in Procs, TakeWriter(p)
          PROVE  TypeOK'
      BY <1>1, <2>4 DEF TypeOK, TakeWriter
    <2>5. ASSUME NEW p \in Procs, StandDown(p)
          PROVE  TypeOK'
      BY <1>1, <2>5 DEF TypeOK, StandDown, Unlock
    <2>6. ASSUME NEW p \in Procs, ReadScopes(p)
          PROVE  TypeOK'
      BY <1>1, <2>6 DEF TypeOK, ReadScopes
    <2>7. ASSUME NEW p \in Procs, ListBatches(p)
          PROVE  TypeOK'
      BY <1>1, <2>7 DEF TypeOK, ListBatches
    <2>8. ASSUME NEW p \in Procs, ReadBatch(p)
          PROVE  TypeOK'
      <3>1. PICK n : /\ n \in unread[p]
                     /\ unread' = [unread EXCEPT ![p] = @ \ {n}]
                     /\ got' \in {got, [got EXCEPT ![p] = @ \cup {n}]}
                     /\ staged' \subseteq staged
        <4>1. unread[p] \subseteq Nat /\ unread[p] # {}
          BY <1>1, <2>8 DEF TypeOK, ReadBatch
        <4>2. Min(unread[p]) \in unread[p]
          BY <4>1, MinFacts
        <4>3. got = [got EXCEPT ![p] = @]
          BY <1>1 DEF TypeOK
        <4>4. QED
          BY <2>8, <4>2, <4>3 DEF ReadBatch
      <3>2. /\ unread' \in [Procs -> SUBSET (1..(next - 1))]
            /\ got' \in [Procs -> SUBSET (1..(next - 1))]
        BY <1>1, <3>1 DEF TypeOK
      <3>3. UNCHANGED <<content, next, index, purged, lockVars, pc, scopes, rest, target,
                        crashes, runs, disposed>>
        BY <2>8 DEF ReadBatch
      <3>4. QED
        BY <1>1, <3>1, <3>2, <3>3 DEF TypeOK
    <2>9. ASSUME NEW p \in Procs, Select(p)
          PROVE  TypeOK'
      <3>1. Seen(p) \subseteq Rows /\ Survivors(p) \subseteq Rows /\ got[p] \subseteq Batches
        BY <1>1 DEF TypeOK, Seen, Survivors, Batches
      <3>2. disposed' \subseteq Batches \X Rows
        BY <1>1, <2>9, <3>1 DEF TypeOK, Select
      <3>3. rest' \in [Procs -> SUBSET Rows]
        BY <1>1, <2>9, <3>1 DEF TypeOK, Select
      <3>4. /\ pc' = [pc EXCEPT ![p] = "merge"] /\ UNCHANGED <<dirVars, index, purged,
                  lockVars, scopes, unread, got, target, crashes, runs>>
        BY <2>9 DEF Select
      <3>5. QED
        BY <1>1, <3>2, <3>3, <3>4 DEF TypeOK
    <2>10. ASSUME NEW p \in Procs, MergeChunk(p)
           PROVE  TypeOK'
      <3>1. PICK r \in rest[p] : /\ index' = [index EXCEPT ![r] = Newest(p, r)]
                                 /\ rest' = [rest EXCEPT ![p] = @ \ {r}]
        BY <2>10 DEF MergeChunk
      <3>2. r \in Rows /\ Newest(p, r) \in 0..(next - 1)
        <4>1. \E n \in got[p] : r \in content[n]
          BY <2>10, <3>1 DEF TypeInv, RestIsRead, MergeChunk
        <4>2. Newest(p, r) \in 1..(next - 1)
          BY <1>1, <4>1, NewestFacts
        <4>3. QED
          BY <1>1, <3>1, <4>2 DEF TypeOK
      <3>3. QED
        BY <1>1, <2>10, <3>1, <3>2 DEF TypeOK, MergeChunk
    <2>11. ASSUME NEW p \in Procs, MergeFails(p) \/ Ingested(p) \/ ForgetFails(p)
           PROVE  TypeOK'
      BY <1>1, <2>11 DEF TypeOK, MergeFails, Ingested, ForgetFails
    <2>12. ASSUME NEW p \in Procs, RemoveBatch(p)
           PROVE  TypeOK'
      BY <1>1, <2>12 DEF TypeOK, RemoveBatch
    <2>13. ASSUME NEW p \in Procs, Return(p)
           PROVE  TypeOK'
      BY <1>1, <2>13 DEF TypeOK, Return, Leave, Unlock
    <2>14. ASSUME NEW p \in Procs, StartForget(p)
           PROVE  TypeOK'
      BY <1>1, <2>14 DEF TypeOK, StartForget
    <2>15. ASSUME NEW p \in Procs, DeleteRows(p)
           PROVE  TypeOK'
      <3>1. disposed' \subseteq Batches \X Rows
        BY <1>1, <2>15, UpFacts DEF TypeOK, DeleteRows, InTarget
      <3>2. index' \in [Rows -> 0..(next - 1)]
        BY <1>1, <2>15 DEF TypeOK, DeleteRows
      <3>3. QED
        BY <1>1, <2>15, <3>1, <3>2 DEF TypeOK, DeleteRows
    <2>16. ASSUME NEW p \in Procs, LoadScopes(p)
           PROVE  TypeOK'
      BY <1>1, <2>16 DEF TypeOK, LoadScopes
    <2>17. ASSUME NEW p \in Procs, RecordScope(p)
           PROVE  TypeOK'
      <3>1. target[p] \in Scopes
        BY <2>17 DEF TypeInv, ForgetsName, RecordScope
      <3>2. purged' \subseteq Scopes
        BY <1>1, <2>17, <3>1 DEF TypeOK, RecordScope
      <3>3. QED
        BY <1>1, <2>17, <3>2 DEF TypeOK, RecordScope
    <2>18. ASSUME NEW p \in Procs, StartWipe(p)
           PROVE  TypeOK'
      BY <1>1, <2>18 DEF TypeOK, StartWipe
    <2>19. ASSUME NEW p \in Procs, DropTable(p)
           PROVE  TypeOK'
      <3>1. disposed' \subseteq Batches \X Rows
        BY <1>1, <2>19, UpFacts DEF TypeOK, DropTable
      <3>2. index' \in [Rows -> 0..(next - 1)]
        BY <1>1, <2>19 DEF TypeOK, DropTable
      <3>3. QED
        BY <1>1, <2>19, <3>1, <3>2 DEF TypeOK, DropTable, Unlock
    <2>20. ASSUME NEW p \in Procs, WipeFails(p)
           PROVE  TypeOK'
      <3>1. disposed' \subseteq Batches \X Rows
        BY <1>1, <2>20, UpFacts DEF TypeOK, WipeFails
      <3>2. index' \in [Rows -> 0..(next - 1)]
        BY <1>1, <2>20 DEF TypeOK, WipeFails
      <3>3. QED
        BY <1>1, <2>20, <3>1, <3>2 DEF TypeOK, WipeFails
    <2>21. ASSUME NEW p \in Procs, RemoveStaging(p)
           PROVE  TypeOK'
      <3>1. staged \subseteq Batches
        BY <1>1 DEF TypeOK, Batches
      <3>2. disposed' \subseteq Batches \X Rows
        BY <1>1, <2>21, <3>1 DEF TypeOK, RemoveStaging
      <3>3. QED
        BY <1>1, <2>21, <3>2 DEF TypeOK, RemoveStaging
    <2>22. ASSUME NEW p \in Procs, RemoveScopes(p)
           PROVE  TypeOK'
      BY <1>1, <2>22 DEF TypeOK, RemoveScopes, Leave, Unlock
    <2>23. ASSUME NEW p \in Procs, Crash(p)
           PROVE  TypeOK'
      BY <1>1, <2>23 DEF TypeOK, Crash, Leave, Unlock
    <2>24. CASE UNCHANGED vars
      BY <1>1, <2>24 DEF TypeOK, vars
    <2>25. QED
      BY <2>1, <2>2, <2>3, <2>4, <2>5, <2>6, <2>7, <2>8, <2>9, <2>10, <2>11, <2>12, <2>13,
         <2>14, <2>15, <2>16, <2>17, <2>18, <2>19, <2>20, <2>21, <2>22, <2>23, <2>24
         DEF Next, IngestStep, OwnerStep
  <1>3. RestIsRead'
    <2> SUFFICES ASSUME NEW q \in Procs, pc'[q] = "merge", NEW r \in rest'[q]
                 PROVE  \E n \in got'[q] : r \in content'[n]
      BY DEF RestIsRead
    <2>1. ASSUME NEW p \in Procs, Select(p)
          PROVE  \E n \in got'[q] : r \in content'[n]
      <3>1. CASE q = p
        <4>1. r \in Seen(p) /\ got' = got /\ content' = content
          BY <1>1, <2>1, <3>1 DEF Select, Survivors, TypeOK
        <4>2. QED
          BY <3>1, <4>1 DEF Seen
      <3>2. CASE q # p
        BY <1>1, <2>1, <3>2 DEF TypeInv, RestIsRead, Select, TypeOK
      <3>3. QED
        BY <3>1, <3>2
    <2>2. CASE Stage
      <3>1. pc[q] = "merge" /\ r \in rest[q] /\ got' = got
        BY <2>2 DEF Stage
      <3>2. PICK n \in got[q] : r \in content[n]
        BY <3>1 DEF TypeInv, RestIsRead
      <3>3. n \in 1..(next - 1) /\ next \in Nat /\ n # next
        BY <1>1 DEF TypeOK
      <3>4. content'[n] = content[n]
        BY <1>1, <2>2, <3>3 DEF Stage, TypeOK
      <3>5. QED
        BY <3>1, <3>2, <3>4
    <2>3. ASSUME NEW p \in Procs, MergeChunk(p) \/ RemoveBatch(p)
          PROVE  \E n \in got'[q] : r \in content'[n]
      BY <1>1, <2>3 DEF TypeInv, RestIsRead, MergeChunk, RemoveBatch, TypeOK
    <2>4. ASSUME NEW p \in Procs,
                 \/ Return(p) \/ RemoveScopes(p) \/ Crash(p) \/ StandDown(p) \/ ReadBatch(p)
          PROVE  \E n \in got'[q] : r \in content'[n]
      <3>1. pc[q] = "merge" /\ q # p
        BY <1>1, <2>4 DEF TypeOK, Return, RemoveScopes, Crash, Leave, StandDown, ReadBatch
      <3>2. rest'[q] = rest[q] /\ got'[q] = got[q] /\ content' = content
        BY <1>1, <2>4, <3>1
           DEF TypeOK, Return, RemoveScopes, Crash, Leave, StandDown, ReadBatch
      <3>3. QED
        BY <3>1, <3>2 DEF TypeInv, RestIsRead
    <2>5. ASSUME NEW p \in Procs,
                 \/ TakeIngestLock(p) \/ StartPending(p) \/ TakeWriter(p) \/ ReadScopes(p)
                 \/ ListBatches(p) \/ MergeFails(p) \/ Ingested(p) \/ StartForget(p)
                 \/ DeleteRows(p) \/ ForgetFails(p) \/ LoadScopes(p) \/ RecordScope(p)
                 \/ StartWipe(p) \/ DropTable(p) \/ WipeFails(p) \/ RemoveStaging(p)
          PROVE  \E n \in got'[q] : r \in content'[n]
      <3>1. /\ pc'[p] # "merge" /\ \A o \in Procs : o # p => pc'[o] = pc[o] /\ got'[o] = got[o]
            /\ rest' = rest /\ content' = content
        BY <1>1, <2>5 DEF TypeOK, TakeIngestLock, StartPending, TakeWriter, ReadScopes,
           ListBatches, MergeFails, Ingested, StartForget, DeleteRows, ForgetFails,
           LoadScopes, RecordScope, StartWipe, DropTable, WipeFails, RemoveStaging
      <3>2. QED
        BY <3>1 DEF TypeInv, RestIsRead
    <2>6. CASE UNCHANGED vars
      BY <2>6 DEF vars, TypeInv, RestIsRead
    <2>7. QED
      BY <2>1, <2>2, <2>3, <2>4, <2>5, <2>6 DEF Next, IngestStep, OwnerStep
  <1>4. WipersWipe'
    <2>1. runs' = runs /\ WipersWipe
      BY DEF TypeInv, Next, IngestStep, OwnerStep, Stage, TakeIngestLock, StartPending,
         TakeWriter, StandDown, ReadScopes, ListBatches, ReadBatch, Select, MergeChunk,
         MergeFails, RemoveBatch, Ingested, Return, StartForget, DeleteRows, ForgetFails,
         LoadScopes, RecordScope, StartWipe, DropTable, WipeFails, RemoveStaging,
         RemoveScopes, Crash, vars
    <2>2. ASSUME NEW q \in Procs, pc'[q] \in {"drop", "unstage", "unscope"}
          PROVE  pc[q] \in {"drop", "unstage", "unscope"} \/ "wipe" \in runs[q]
      BY <1>1, <2>2 DEF TypeOK, Next, IngestStep, OwnerStep, Stage, TakeIngestLock,
         StartPending, TakeWriter, StandDown, ReadScopes, ListBatches, ReadBatch, Select,
         MergeChunk, MergeFails, RemoveBatch, Ingested, Return, StartForget, DeleteRows,
         ForgetFails, LoadScopes, RecordScope, StartWipe, DropTable, WipeFails,
         RemoveStaging, RemoveScopes, Crash, Leave, vars
    <2>3. QED
      BY <2>1, <2>2 DEF WipersWipe
  <1>5. ForgetsName'
    <2>1. ASSUME NEW q \in Procs, pc'[q] \in {"delete", "load", "record"}
          PROVE  target'[q] \in Scopes
      BY <1>1, <2>1 DEF TypeInv, ForgetsName, TypeOK, Next, IngestStep, OwnerStep, Stage,
         TakeIngestLock, StartPending, TakeWriter, StandDown, ReadScopes, ListBatches,
         ReadBatch, Select, MergeChunk, MergeFails, RemoveBatch, Ingested, Return,
         StartForget, DeleteRows, ForgetFails, LoadScopes, RecordScope, StartWipe,
         DropTable, WipeFails, RemoveStaging, RemoveScopes, Crash, Leave, vars
    <2>2. QED
      BY <2>1 DEF ForgetsName
  <1> QED
    BY <1>2, <1>3, <1>4, <1>5 DEF TypeInv

-----------------------------------------------------------------------------
(***************************************************************************)
(* The writer lock.                                                        *)
(***************************************************************************)

\* Every way process p moves, but for StartPending.
Moves(p) == TakeIngestLock(p) \/ IngestStep(p) \/ OwnerStep(p) \/ Crash(p)

\* What a step does when it is not one of the process that works on the table.
Aside(q) ==
    /\ pc'[q] = pc[q] /\ scopes'[q] = scopes[q] /\ unread'[q] = unread[q]
    /\ got'[q] = got[q] /\ rest'[q] = rest[q] /\ target'[q] = target[q]
    /\ index' = index /\ (purged' = purged \/ purged' = {})
    /\ next <= next' /\ \A n \in 1..(next - 1) : content'[n] = content[n]

LEMMA RunsStay == [Next]_vars => runs' = runs
  <1>1. QED
    BY DEF Next, IngestStep, OwnerStep, Stage, TakeIngestLock, StartPending, TakeWriter,
       StandDown, ReadScopes, ListBatches, ReadBatch, Select, MergeChunk, MergeFails,
       RemoveBatch, Ingested, Return, StartForget, DeleteRows, ForgetFails, LoadScopes,
       RecordScope, StartWipe, DropTable, WipeFails, RemoveStaging, RemoveScopes, Crash, vars

LEMMA NextMoves ==
    ASSUME Without("pending"), [Next]_vars
    PROVE  Stage \/ (\E p \in Procs : Moves(p)) \/ UNCHANGED vars
  <1>1. QED
    BY DEF Next, Moves, Without, StartPending

LEMMA ExclusiveStep ==
    ASSUME TypeInv, Exclusive, Without("pending"), [Next]_vars
    PROVE  Exclusive'
  <1>1. TypeOK /\ NoProc \notin Procs
    BY IndexAssumption DEF TypeInv
  <1>2. CASE Stage \/ UNCHANGED vars
    BY <1>2 DEF Exclusive, Stage, vars, lockVars
  <1>3. ASSUME NEW p \in Procs, Moves(p), NEW q \in Procs, pc'[q] \in Locked \cup Owning
        PROVE  writer' = q
    <2>1. CASE q = p
      BY <1>1, <1>3, <2>1 DEF Exclusive, TypeOK, Locked, Owning, Goes, Moves, IngestStep,
         OwnerStep, TakeIngestLock, TakeWriter, StandDown, ReadScopes, ListBatches,
         ReadBatch, Select, MergeChunk, MergeFails, RemoveBatch, Ingested, Return,
         StartForget, DeleteRows, ForgetFails, LoadScopes, RecordScope, StartWipe,
         DropTable, WipeFails, RemoveStaging, RemoveScopes, Crash, Leave, lockVars
    <2>2. CASE q # p
      <3>1. pc'[q] = pc[q]
        BY <1>1, <1>3, <2>2 DEF TypeOK, Goes, Moves, IngestStep,
           OwnerStep, TakeIngestLock, TakeWriter, StandDown, ReadScopes, ListBatches,
           ReadBatch, Select, MergeChunk, MergeFails, RemoveBatch, Ingested, Return,
           StartForget, DeleteRows, ForgetFails, LoadScopes, RecordScope, StartWipe,
           DropTable, WipeFails, RemoveStaging, RemoveScopes, Crash, Leave
      <3>2. writer = q
        BY <1>3, <3>1 DEF Exclusive
      <3>3. QED
        BY <1>1, <1>3, <2>2, <3>2 DEF Moves, IngestStep,
           OwnerStep, TakeIngestLock, TakeWriter, StandDown, ReadScopes, ListBatches,
           ReadBatch, Select, MergeChunk, MergeFails, RemoveBatch, Ingested, Return,
           StartForget, DeleteRows, ForgetFails, LoadScopes, RecordScope, StartWipe,
           DropTable, WipeFails, RemoveStaging, RemoveScopes, Crash, Leave, Unlock, lockVars
    <2>3. QED
      BY <2>1, <2>2
  <1>4. QED
    BY <1>2, <1>3, NextMoves DEF Exclusive

\* While a process works on the table, another only stages, waits, or goes on
\* with a wipe whose table is dropped.
LEMMA OthersStandAside ==
    ASSUME TypeInv, Exclusive, Without("pending"), [Next]_vars,
           NEW q \in Procs, pc'[q] \in Locked \cup Owning, ~Moves(q)
    PROVE  Aside(q)
  <1>1. TypeOK /\ NoProc \notin Procs
    BY IndexAssumption DEF TypeInv
  <1>2. CASE UNCHANGED vars
    BY <1>1, <1>2 DEF vars, dirVars, localVars, Aside, TypeOK
  <1>3. CASE Stage
    <2>1. next \in Nat /\ next' = next + 1 /\ content \in [Batches -> SUBSET Rows]
      BY <1>1, <1>3 DEF Stage, TypeOK
    <2>2. \A n \in 1..(next - 1) : content'[n] = content[n]
      BY <1>1, <1>3, <2>1 DEF Stage, TypeOK, Batches
    <2>3. QED
      BY <1>3, <2>1, <2>2 DEF Stage, Aside, localVars
  <1>4. ASSUME NEW p \in Procs, p # q, Moves(p)
        PROVE  Aside(q)
    <2>1. pc'[q] = pc[q]
      BY <1>1, <1>4 DEF TypeOK, Goes, Moves, IngestStep,
         OwnerStep, TakeIngestLock, TakeWriter, StandDown, ReadScopes, ListBatches,
         ReadBatch, Select, MergeChunk, MergeFails, RemoveBatch, Ingested, Return,
         StartForget, DeleteRows, ForgetFails, LoadScopes, RecordScope, StartWipe,
         DropTable, WipeFails, RemoveStaging, RemoveScopes, Crash, Leave
    <2>2. writer = q /\ pc[p] \notin Locked \cup Owning
      BY <1>4, <2>1 DEF Exclusive
    <2>3. TakeIngestLock(p) \/ StandDown(p) \/ RemoveStaging(p) \/ RemoveScopes(p) \/ Crash(p)
      BY <1>1, <1>4, <2>2 DEF Goes, Moves, IngestStep, OwnerStep, Locked, Owning,
         TakeWriter, ReadScopes, ListBatches,
         ReadBatch, Select, MergeChunk, MergeFails, RemoveBatch, Ingested, Return,
         StartForget, DeleteRows, ForgetFails, LoadScopes, RecordScope, StartWipe,
         DropTable, WipeFails
    <2>4. next \in Nat
      BY <1>1 DEF TypeOK
    <2>5. QED
      BY <1>1, <1>4, <2>1, <2>3, <2>4 DEF Aside, TypeOK, TakeIngestLock, StandDown,
         RemoveStaging, RemoveScopes, Crash, Leave, dirVars, localVars
  <1>5. QED
    BY <1>2, <1>3, <1>4, NextMoves

-----------------------------------------------------------------------------
(***************************************************************************)
(* The purge.                                                              *)
(***************************************************************************)

\* While the process stands aside its newest records stay.
LEMMA NewestStays ==
    ASSUME TypeOK, NEW q \in Procs, got'[q] = got[q],
           \A n \in 1..(next - 1) : content'[n] = content[n]
    PROVE  \A r : Newest(q, r)' = Newest(q, r)
  <1>1. got[q] \subseteq 1..(next - 1)
    BY DEF TypeOK
  <1>2. ASSUME NEW r
        PROVE  Newest(q, r)' = Newest(q, r)
    <2>1. {n \in got'[q] : r \in content'[n]} = {n \in got[q] : r \in content[n]}
      BY <1>1
    <2>2. QED
      BY <2>1 DEF Newest
  <1>3. QED
    BY <1>2

LEMMA PurgeInit == Init => PurgeInv
  <1>1. QED
    BY DEF Init, PurgeInv, Exclusive, Durable, Careful, Locked, Owning

LEMMA CarefulStep ==
    ASSUME TypeInv, TypeOK', Exclusive, Durable, Without("pending"), [Next]_vars,
           NEW q \in Procs, Careful(q)
    PROVE  Careful(q)'
  <1> DEFINE Safe(r) == ScopeAt[Newest(q, r)][r] \notin scopes[q]
  <1>1. TypeOK
    BY DEF TypeInv
  <1>2. CASE pc'[q] \notin {"list", "read", "merge", "load", "record"}
    BY <1>2 DEF Careful
  <1>3. CASE /\ pc'[q] \in {"list", "read", "merge", "load", "record"}
             /\ ~Moves(q)
    <2>1. Aside(q)
      BY <1>3, OthersStandAside DEF Locked, Owning
    <2>2. pc[q] = "merge" => \A r \in rest'[q] : ScopeAt'[Newest(q, r)'][r] \notin scopes'[q]
      BY <1>1, <2>1, NewestStays DEF Aside, Careful
    <2>3. \A t : Empty(t) => Empty(t)'
      BY <2>1 DEF Aside, Empty
    <2>4. QED
      BY <2>1, <2>2, <2>3 DEF Aside, Careful
  <1>4. CASE /\ pc'[q] \in {"list", "read", "merge", "load", "record"}
             /\ Moves(q)
    <2>1. CASE ReadScopes(q)
      BY <1>1, <2>1 DEF ReadScopes, Goes, Careful, TypeOK
    <2>2. CASE ListBatches(q) \/ ReadBatch(q)
      BY <1>1, <2>2 DEF ListBatches, ReadBatch, Goes, Careful, TypeOK
    <2>3. CASE Select(q)
      <3>1. /\ pc[q] = "read" /\ pc'[q] = "merge" /\ purged' = purged /\ scopes' = scopes
            /\ got' = got /\ content' = content /\ rest'[q] = Survivors(q)
        BY <1>1, <2>3 DEF Select, Goes, TypeOK, dirVars
      <3>2. \A r : Newest(q, r)' = Newest(q, r)
        BY <3>1 DEF Newest
      <3>3. \A r \in rest'[q] : ScopeAt[Newest(q, r)'][r] \notin scopes[q]
        BY <3>1, <3>2 DEF Survivors
      <3>4. QED
        BY <3>1, <3>3 DEF Careful
    <2>4. CASE MergeChunk(q)
      <3>1. /\ pc[q] = "merge" /\ pc' = pc /\ purged' = purged /\ scopes' = scopes
            /\ got' = got /\ content' = content /\ rest'[q] \subseteq rest[q]
        BY <1>1, <2>4 DEF MergeChunk, TypeOK, dirVars
      <3>2. \A r : Newest(q, r)' = Newest(q, r)
        BY <3>1 DEF Newest
      <3>3. \A r \in rest'[q] : ScopeAt[Newest(q, r)'][r] \notin scopes[q]
        BY <3>1, <3>2 DEF Careful
      <3>4. QED
        BY <3>1, <3>3 DEF Careful
    <2>5. CASE RemoveBatch(q)
      BY <1>1, <2>5 DEF RemoveBatch, Careful, TypeOK
    <2>6. CASE DeleteRows(q)
      <3>1. pc'[q] = "load" /\ target' = target
        BY <1>1, <2>6 DEF DeleteRows, Goes, TypeOK, localVars
      <3>2. ASSUME NEW r \in Rows, index'[r] # 0
            PROVE  ScopeAt[index'[r]][r] # target[q]
        <4>1. r \notin InTarget(q) /\ index'[r] = index[r]
          BY <2>6, <3>2 DEF DeleteRows
        <4>2. QED
          BY <3>2, <4>1 DEF InTarget
      <3>3. Empty(target[q])'
        BY <3>1, <3>2 DEF Empty
      <3>4. QED
        BY <3>1, <3>3 DEF Careful
    <2>7. CASE LoadScopes(q)
      <3>1. /\ pc[q] = "load" /\ pc'[q] = "record" /\ scopes'[q] = purged
            /\ index' = index /\ target' = target
        BY <1>1, <2>7 DEF LoadScopes, Goes, TypeOK
      <3>2. Empty(target[q]) /\ \A t \in purged : Empty(t)
        BY <3>1 DEF Careful, Durable
      <3>3. QED
        BY <3>1, <3>2 DEF Careful, Empty
    <2>8. QED
      BY <1>1, <1>4, <2>1, <2>2, <2>3, <2>4, <2>5, <2>6, <2>7 DEF TypeOK, Goes, Moves,
         IngestStep, OwnerStep, TakeIngestLock, TakeWriter, StandDown, MergeFails, Ingested,
         Return, StartForget, ForgetFails, RecordScope, StartWipe, DropTable, WipeFails,
         RemoveStaging, RemoveScopes, Crash, Leave
  <1>5. QED
    BY <1>2, <1>3, <1>4

\* Only what the table may hold is merged, and a container is recorded when
\* none of its rows are left.
LEMMA DurableStep ==
    ASSUME TypeInv, Durable, \A p \in Procs : Careful(p), Without("pending"), [Next]_vars
    PROVE  Durable'
  <1>1. TypeOK
    BY DEF TypeInv
  <1>2. CASE Stage \/ UNCHANGED vars
    BY <1>2 DEF Stage, vars, Durable, Empty
  <1>3. ASSUME NEW p \in Procs, Moves(p)
        PROVE  Durable'
    <2>1. CASE MergeChunk(p)
      <3>1. PICK r \in rest[p] : index' = [index EXCEPT ![r] = Newest(p, r)]
        BY <2>1 DEF MergeChunk
      <3>2. /\ purged' = purged /\ purged \subseteq scopes[p] /\ index \in [Rows -> Nat]
            /\ ScopeAt[Newest(p, r)][r] \notin scopes[p]
        BY <1>1, <2>1, <3>1 DEF Careful, MergeChunk, TypeOK
      <3>3. ASSUME NEW t \in purged, NEW o \in Rows, index'[o] # 0
            PROVE  ScopeAt[index'[o]][o] # t
        <4>1. CASE o = r
          BY <3>1, <3>2, <3>3, <4>1
        <4>2. CASE o # r
          BY <3>1, <3>2, <3>3, <4>2 DEF Durable, Empty
        <4>3. QED
          BY <4>1, <4>2
      <3>4. QED
        BY <3>2, <3>3 DEF Durable, Empty
    <2>2. CASE DeleteRows(p) \/ DropTable(p) \/ WipeFails(p)
      <3>1. purged' = purged /\ \A r \in Rows : index'[r] # 0 => index'[r] = index[r]
        BY <2>2 DEF DeleteRows, DropTable, WipeFails
      <3>2. QED
        BY <3>1 DEF Durable, Empty
    <2>3. CASE RecordScope(p)
      <3>1. pc[p] = "record" /\ index' = index /\ purged' \subseteq purged \cup scopes[p] \cup {target[p]}
        BY <2>3 DEF RecordScope, Goes
      <3>2. Empty(target[p]) /\ \A t \in scopes[p] \cup purged : Empty(t)
        BY <3>1 DEF Careful, Durable
      <3>3. QED
        BY <3>1, <3>2 DEF Durable, Empty
    <2>4. CASE index' = index /\ (purged' = purged \/ purged' = {})
      BY <2>4 DEF Durable, Empty
    <2>5. QED
      BY <1>3, <2>1, <2>2, <2>3, <2>4 DEF Moves, IngestStep, OwnerStep, TakeIngestLock,
         TakeWriter, StandDown, ReadScopes, ListBatches, ReadBatch, Select, MergeFails,
         RemoveBatch, Ingested, Return, StartForget, ForgetFails, LoadScopes, StartWipe,
         RemoveStaging, RemoveScopes, Crash
  <1>4. QED
    BY <1>2, <1>3, NextMoves

LEMMA PurgeStep == TypeInv /\ TypeInv' /\ PurgeInv /\ [Next]_vars => PurgeInv'
  <1> SUFFICES ASSUME TypeInv, TypeInv', PurgeInv, [Next]_vars, Without("pending")'
               PROVE  Exclusive' /\ Durable' /\ \A p \in Procs : Careful(p)'
    BY DEF PurgeInv
  <1>1. Without("pending")
    BY RunsStay DEF Without
  <1>2. Exclusive /\ Durable /\ \A p \in Procs : Careful(p)
    BY <1>1 DEF PurgeInv
  <1>3. Exclusive' /\ Durable'
    BY <1>1, <1>2, ExclusiveStep, DurableStep
  <1>4. \A p \in Procs : Careful(p)'
    BY <1>1, <1>2, CarefulStep DEF TypeInv
  <1>5. QED
    BY <1>3, <1>4

-----------------------------------------------------------------------------
(***************************************************************************)
(* The staged batches.                                                     *)
(***************************************************************************)

\* Types of what the rest of the proof speaks of.
LEMMA Shapes ==
    ASSUME TypeOK
    PROVE  /\ next \in Nat /\ staged \subseteq 1..(next - 1) /\ 1..(next - 1) \subseteq Batches
           /\ content \in [Batches -> SUBSET Rows] /\ index \in [Rows -> 0..(next - 1)]
           /\ index \in [Rows -> Nat]
           /\ \A p \in Procs : /\ Held(p) \subseteq 1..(next - 1)
                               /\ got[p] \subseteq 1..(next - 1) /\ got[p] \subseteq Held(p)
                               /\ unread[p] \subseteq 1..(next - 1)
                               /\ rest[p] \subseteq Rows
  <1>1. MaxBatch \in Nat
    BY IndexAssumption
  <1>2. QED
    BY <1>1 DEF TypeOK, Batches, Held

\* What is disposed of stays so.
LEMMA DisposedStays == [Next]_vars => disposed \subseteq disposed'
  <1>1. QED
    BY DEF Next, IngestStep, OwnerStep, Stage, TakeIngestLock, StartPending, TakeWriter,
       StandDown, ReadScopes, ListBatches, ReadBatch, Select, MergeChunk, MergeFails,
       RemoveBatch, Ingested, Return, StartForget, DeleteRows, ForgetFails, LoadScopes,
       RecordScope, StartWipe, DropTable, WipeFails, RemoveStaging, RemoveScopes, Crash, vars

LEMMA WipedStays == [Next]_vars => \A n : Wiped(n) => Wiped(n)'
  <1>1. QED
    BY DisposedStays, RunsStay DEF Wiped, Without

\* What a step does to the files: nothing, stage the next batch, remove one
\* that has no records or that the process has merged, or remove them all.
FilesStay == staged' = staged /\ next' = next /\ content' = content
Unstages(p) ==
    /\ staged' = {} /\ next' = next /\ content' = content
    /\ \A n \in staged : Wiped(n)'
Quarantines(n) ==
    /\ content[n] = {} /\ staged' = staged \ {n} /\ next' = next /\ content' = content

LEMMA StageFacts ==
    ASSUME TypeOK, Stage
    PROVE  /\ next \in Nat /\ next' = next + 1 /\ staged' = staged \cup {next}
           /\ \A n \in 1..(next - 1) : content'[n] = content[n]
           /\ index' = index /\ got' = got /\ unread' = unread /\ rest' = rest
           /\ pc' = pc /\ disposed' = disposed /\ runs' = runs
  <1>1. next \in Nat /\ next' = next + 1 /\ content \in [Batches -> SUBSET Rows]
    BY DEF Stage, TypeOK
  <1>2. \A n \in 1..(next - 1) : content'[n] = content[n]
    BY <1>1 DEF Stage, Batches, TypeOK
  <1>3. QED
    BY <1>1, <1>2 DEF Stage, localVars

LEMMA UnstageFacts ==
    ASSUME TypeInv, NEW p \in Procs, RemoveStaging(p)
    PROVE  Unstages(p) /\ index' = index
  <1>1. "wipe" \in runs[p] /\ runs' = runs
    BY DEF TypeInv, WipersWipe, RemoveStaging, Goes
  <1>2. \A n \in staged : \A r \in Rows : <<n, r>> \in disposed'
    BY DEF RemoveStaging
  <1>3. \A n \in staged : Wiped(n)'
    BY <1>1, <1>2 DEF Wiped, Without
  <1>4. QED
    BY <1>3 DEF RemoveStaging, Unstages

\* The oldest unread batch is kept, or has no records, or is gone.
LEMMA ReadFacts ==
    ASSUME TypeOK, NEW p \in Procs, ReadBatch(p)
    PROVE  \E n \in unread[p] :
              /\ unread'[p] = unread[p] \ {n}
              /\ next' = next /\ content' = content /\ index' = index
              /\ \/ n \in staged /\ content[n] # {} /\ got'[p] = got[p] \cup {n} /\ staged' = staged
                 \/ n \notin staged /\ got'[p] = got[p] /\ staged' = staged
                 \/ got'[p] = got[p] /\ Quarantines(n)
  <1>1. unread[p] \subseteq Nat /\ unread[p] # {}
    BY DEF TypeOK, ReadBatch
  <1>2. Min(unread[p]) \in unread[p]
    BY <1>1, MinFacts
  <1>3. PICK n \in unread[p] : n = Min(unread[p])
    BY <1>2
  <1>4. /\ unread' = [unread EXCEPT ![p] = @ \ {n}]
        /\ got' = [got EXCEPT ![p] = IF n \in staged /\ content[n] # {} THEN @ \cup {n} ELSE @]
        /\ staged' = IF n \in staged /\ content[n] # {} THEN staged ELSE staged \ {n}
        /\ next' = next /\ content' = content /\ index' = index
    BY <1>3 DEF ReadBatch
  <1>5. /\ unread'[p] = unread[p] \ {n}
        /\ got'[p] = IF n \in staged /\ content[n] # {} THEN got[p] \cup {n} ELSE got[p]
    BY <1>4 DEF TypeOK
  <1>6. CASE n \in staged /\ content[n] # {}
    BY <1>4, <1>5, <1>6
  <1>7. CASE n \notin staged
    BY <1>4, <1>5, <1>7
  <1>8. CASE content[n] = {}
    BY <1>4, <1>5, <1>8 DEF Quarantines
  <1>9. QED
    BY <1>6, <1>7, <1>8

LEMMA RemoveFacts ==
    ASSUME TypeOK, NEW p \in Procs, RemoveBatch(p)
    PROVE  \E n \in got[p] :
              /\ \A m \in got[p] : n <= m
              /\ staged' = staged \ {n} /\ got'[p] = got[p] \ {n}
              /\ pc[p] = "merge" /\ rest[p] = {} /\ pc' = pc /\ rest' = rest
              /\ unread' = unread /\ next' = next /\ content' = content /\ index' = index
              /\ disposed' = disposed
  <1>1. got[p] \subseteq Nat /\ got[p] # {}
    BY DEF TypeOK, RemoveBatch
  <1>2. Min(got[p]) \in got[p] /\ \A m \in got[p] : Min(got[p]) <= m
    BY <1>1, MinFacts
  <1>3. got'[p] = got[p] \ {Min(got[p])}
    BY DEF RemoveBatch, TypeOK
  <1>4. QED
    BY <1>2, <1>3 DEF RemoveBatch

\* A batch that is newer than the record an ingest merges for a row, and has
\* that row too, is staged and not listed yet, or went in a wipe.
LEMMA MergeIsForward ==
    ASSUME TypeInv, NEW p \in Procs, Kept(p), pc[p] = "merge", NEW r \in rest[p],
           NEW n \in 1..(next - 1), r \in content[n], Newest(p, r) < n
    PROVE  n \notin got[p] /\ (n \in staged \/ Wiped(n))
  <1>1. TypeOK /\ Listed(p)
    BY DEF TypeInv, Kept
  <1>2. /\ Newest(p, r) \in got[p] /\ r \in content[Newest(p, r)]
        /\ Newest(p, r) \in 1..(next - 1)
        /\ \A k \in got[p] : r \in content[k] => k <= Newest(p, r)
    BY <1>1, NewestFacts DEF TypeInv, RestIsRead
  <1>3. got[p] \subseteq Held(p) /\ next \in Nat
    BY <1>1, Shapes
  <1>4. n \notin got[p]
    BY <1>2, <1>3
  <1>5. ~NoneOlder(n, Held(p))
    BY <1>2, <1>3 DEF NoneOlder
  <1>6. QED
    BY <1>1, <1>4, <1>5 DEF Listed

LEMMA KeepInit == Init => KeepInv
  <1>1. QED
    BY DEF Init, KeepInv, IndexIsRead, Gone, NothingIsLost, Kept

\* Every step on files and table, by what it does to them.
LEMMA FileSteps ==
    ASSUME Without("pending"), TypeInv, [Next]_vars
    PROVE  \/ Stage
           \/ \E p \in Procs : ReadBatch(p) \/ RemoveBatch(p) \/ RemoveStaging(p)
           \/ FilesStay
  <1>1. QED
    BY NextMoves DEF Moves, IngestStep, OwnerStep, FilesStay, TakeIngestLock,
       TakeWriter, StandDown, ReadScopes, ListBatches, Select, MergeChunk, MergeFails,
       Ingested, Return, StartForget, DeleteRows, ForgetFails, LoadScopes, RecordScope,
       StartWipe, DropTable, WipeFails, RemoveScopes, Crash, vars, dirVars

LEMMA TableSteps ==
    ASSUME Without("pending"), [Next]_vars
    PROVE  \/ \E p \in Procs : MergeChunk(p)
           \/ \E p \in Procs : DeleteRows(p) \/ DropTable(p) \/ WipeFails(p)
           \/ index' = index
  <1>1. QED
    BY NextMoves DEF Moves, IngestStep, OwnerStep, Stage, TakeIngestLock, TakeWriter,
       StandDown, ReadScopes, ListBatches, ReadBatch, Select, MergeFails, RemoveBatch,
       Ingested, Return, StartForget, ForgetFails, LoadScopes, RecordScope, StartWipe,
       RemoveStaging, RemoveScopes, Crash, vars

\* A row that leaves the table is disposed of, with its older records.
LEMMA RowsLeave ==
    ASSUME TypeOK, NEW p \in Procs, DeleteRows(p) \/ DropTable(p) \/ WipeFails(p)
    PROVE  /\ FilesStay
           /\ \A r \in Rows : \/ index'[r] = index[r]
                              \/ /\ index'[r] = 0
                                 /\ \A n \in Batches : n <= index[r] => <<n, r>> \in disposed'
  <1>1. CASE DeleteRows(p)
    <2>1. InTarget(p) \subseteq Rows
      BY DEF InTarget
    <2>2. \A r \in InTarget(p) : \A n \in Batches : n <= index[r] => <<n, r>> \in disposed'
      BY <1>1, UpFacts DEF DeleteRows
    <2>3. QED
      BY <1>1, <2>1, <2>2 DEF DeleteRows, FilesStay, dirVars
  <1>2. CASE DropTable(p)
    BY <1>2, UpFacts DEF DropTable, FilesStay, dirVars
  <1>3. CASE WipeFails(p)
    <2>1. CASE UNCHANGED <<index, disposed>>
      BY <1>3, <2>1 DEF WipeFails, FilesStay, dirVars
    <2>2. CASE index' = [r \in Rows |-> 0] /\ disposed' = disposed \cup Up(Rows)
      BY <1>3, <2>2, UpFacts DEF WipeFails, FilesStay, dirVars
    <2>3. QED
      BY <1>3, <2>1, <2>2 DEF WipeFails
  <1>4. QED
    BY <1>1, <1>2, <1>3

LEMMA ReadStep ==
    ASSUME TypeInv, Without("pending"), IndexIsRead, [Next]_vars
    PROVE  IndexIsRead'
  <1>1. TypeOK
    BY DEF TypeInv
  <1>2. \A n \in 1..(next - 1) : content'[n] = content[n]
    <2>1. CASE Stage
      BY <1>1, <2>1, StageFacts
    <2>2. CASE content' = content
      BY <2>2
    <2>3. QED
      BY <1>1, <2>1, <2>2, FileSteps DEF FilesStay, ReadBatch, RemoveBatch, RemoveStaging
  <1>3. index \in [Rows -> 0..(next - 1)] /\ next \in Nat
    BY <1>1, Shapes
  <1>4. CASE index' = index
    BY <1>2, <1>3, <1>4 DEF IndexIsRead
  <1>5. ASSUME NEW p \in Procs, MergeChunk(p)
        PROVE  IndexIsRead'
    <2>1. PICK r \in rest[p] : index' = [index EXCEPT ![r] = Newest(p, r)]
      BY <1>5 DEF MergeChunk
    <2>2. r \in content[Newest(p, r)] /\ Newest(p, r) \in 1..(next - 1)
      BY <1>1, <1>5, <2>1, NewestFacts DEF TypeInv, RestIsRead, MergeChunk
    <2>3. QED
      BY <1>2, <1>3, <2>1, <2>2 DEF IndexIsRead
  <1>6. ASSUME NEW p \in Procs, DeleteRows(p) \/ DropTable(p) \/ WipeFails(p)
        PROVE  IndexIsRead'
    <2>1. \A r \in Rows : index'[r] = index[r] \/ index'[r] = 0
      BY <1>1, <1>6, RowsLeave
    <2>2. QED
      BY <1>2, <1>3, <2>1 DEF IndexIsRead
  <1>7. QED
    BY <1>4, <1>5, <1>6, TableSteps

LEMMA GoneStep ==
    ASSUME TypeInv, Without("pending"), Gone, \A p \in Procs : Kept(p), [Next]_vars
    PROVE  Gone'
  <1>1. /\ TypeOK /\ next \in Nat /\ staged \subseteq 1..(next - 1)
        /\ \A n : Wiped(n) => Wiped(n)'
    BY Shapes, WipedStays DEF TypeInv
  <1>2. CASE Stage
    <2>1. /\ next' = next + 1 /\ staged' = staged \cup {next}
          /\ \A n \in 1..(next - 1) : content'[n] = content[n]
      BY <1>1, <1>2, StageFacts
    <2>2. ASSUME NEW n \in 1..(next' - 1), content'[n] # {}
          PROVE  n \in staged' \/ Wiped(n)' \/ NoneOlder(n, staged)'
      <3>1. CASE n = next
        BY <2>1, <3>1
      <3>2. CASE n # next
        <4>1. n \in 1..(next - 1) /\ content[n] # {}
          BY <1>1, <2>1, <2>2, <3>2
        <4>2. CASE NoneOlder(n, staged)
          <5>1. \A m \in staged' : m < n => content'[m] = {}
            BY <1>1, <2>1, <4>1, <4>2 DEF NoneOlder
          <5>2. QED
            BY <5>1 DEF NoneOlder
        <4>3. QED
          BY <1>1, <2>1, <4>1, <4>2 DEF Gone
      <3>3. QED
        BY <3>1, <3>2
    <2>3. QED
      BY <2>2 DEF Gone
  <1>3. ASSUME NEW p \in Procs, ReadBatch(p)
        PROVE  Gone'
    <2>1. /\ next' = next /\ content' = content
          /\ staged' \subseteq staged /\ \A n \in staged : content[n] # {} => n \in staged'
      BY <1>1, <1>3, ReadFacts DEF Quarantines
    <2>2. \A n : NoneOlder(n, staged) => NoneOlder(n, staged)'
      BY <2>1 DEF NoneOlder
    <2>3. QED
      BY <1>1, <2>1, <2>2 DEF Gone
  <1>4. ASSUME NEW p \in Procs, RemoveBatch(p)
        PROVE  Gone'
    <2>1. PICK k \in got[p] : /\ \A m \in got[p] : k <= m
                              /\ staged' = staged \ {k} /\ pc[p] = "merge"
                              /\ next' = next /\ content' = content
      BY <1>1, <1>4, RemoveFacts
    <2>2. \A n : NoneOlder(n, staged) => NoneOlder(n, staged)'
      BY <2>1 DEF NoneOlder
    <2>3. k \in staged => NoneOlder(k, staged)'
      <3>1. SUFFICES ASSUME NEW m \in staged', m < k, content[m] # {}
                     PROVE  FALSE
        BY <2>1 DEF NoneOlder
      <3>2. m \in staged /\ k \in Held(p) /\ k \in Nat /\ m \in Nat
        BY <1>1, <2>1, <3>1, Shapes
      <3>3. m \in Held(p) /\ unread[p] = {}
        BY <2>1, <3>1, <3>2 DEF Kept, Complete
      <3>4. m \in got[p]
        BY <3>3 DEF Held
      <3>5. QED
        BY <2>1, <3>1, <3>2, <3>4
    <2>4. QED
      BY <1>1, <2>1, <2>2, <2>3 DEF Gone
  <1>5. ASSUME NEW p \in Procs, RemoveStaging(p)
        PROVE  Gone'
    <2>1. Unstages(p)
      BY <1>5, UnstageFacts
    <2>2. \A n : NoneOlder(n, staged)'
      BY <2>1 DEF Unstages, NoneOlder
    <2>3. QED
      BY <2>2 DEF Gone
  <1>6. CASE FilesStay
    BY <1>1, <1>6 DEF FilesStay, Gone, NoneOlder
  <1>7. QED
    BY <1>2, <1>3, <1>4, <1>5, <1>6, FileSteps

LEMMA LossStep ==
    ASSUME TypeInv, Without("pending"), NothingIsLost, \A p \in Procs : Kept(p), [Next]_vars
    PROVE  NothingIsLost'
  <1>1. /\ TypeOK /\ next \in Nat /\ 1..(next - 1) \subseteq Batches
        /\ content \in [Batches -> SUBSET Rows] /\ index \in [Rows -> Nat]
        /\ disposed \subseteq disposed'
    BY Shapes, DisposedStays DEF TypeInv
  <1>2. CASE Stage
    <2>1. /\ next' = next + 1 /\ staged' = staged \cup {next} /\ index' = index
          /\ \A n \in 1..(next - 1) : content'[n] = content[n]
      BY <1>1, <1>2, StageFacts
    <2>2. ASSUME NEW n \in 1..(next' - 1), NEW r \in content'[n]
          PROVE  n \in staged' \/ index'[r] >= n \/ <<n, r>> \in disposed'
      <3>1. CASE n = next
        BY <2>1, <3>1
      <3>2. CASE n # next
        <4>1. n \in 1..(next - 1) /\ r \in content[n]
          BY <1>1, <2>1, <2>2, <3>2
        <4>2. n \in staged \/ index[r] >= n \/ <<n, r>> \in disposed
          BY <4>1 DEF NothingIsLost
        <4>3. QED
          BY <1>1, <2>1, <4>2
      <3>3. QED
        BY <3>1, <3>2
    <2>3. QED
      BY <2>2 DEF NothingIsLost
  <1>3. ASSUME NEW p \in Procs, ReadBatch(p)
        PROVE  NothingIsLost'
    <2>1. /\ next' = next /\ content' = content /\ index' = index
          /\ \A n \in staged : content[n] # {} => n \in staged'
      BY <1>1, <1>3, ReadFacts DEF Quarantines
    <2>2. ASSUME NEW n \in 1..(next - 1), NEW r \in content[n]
          PROVE  n \in staged' \/ index[r] >= n \/ <<n, r>> \in disposed'
      <3>1. content[n] # {} /\ (n \in staged \/ index[r] >= n \/ <<n, r>> \in disposed)
        BY <2>2 DEF NothingIsLost
      <3>2. QED
        BY <1>1, <2>1, <3>1
    <2>3. QED
      BY <2>1, <2>2 DEF NothingIsLost
  <1>4. ASSUME NEW p \in Procs, RemoveBatch(p)
        PROVE  NothingIsLost'
    <2>1. PICK k \in got[p] : /\ staged' = staged \ {k} /\ pc[p] = "merge" /\ rest[p] = {}
                              /\ next' = next /\ content' = content /\ index' = index
      BY <1>1, <1>4, RemoveFacts
    <2>2. \A r \in content[k] : index[r] >= k \/ <<k, r>> \in disposed
      BY <2>1 DEF Kept, Merged
    <2>3. QED
      BY <1>1, <2>1, <2>2 DEF NothingIsLost
  <1>5. ASSUME NEW p \in Procs, RemoveStaging(p)
        PROVE  NothingIsLost'
    <2>1. Unstages(p) /\ index' = index
      BY <1>5, UnstageFacts DEF TypeInv
    <2>2. \A n \in staged : \A r \in Rows : <<n, r>> \in disposed'
      BY <2>1 DEF Unstages, Wiped
    <2>3. QED
      BY <1>1, <2>1, <2>2 DEF NothingIsLost, Unstages
  <1>6. ASSUME NEW p \in Procs, MergeChunk(p)
        PROVE  NothingIsLost'
    <2>1. PICK r \in rest[p] : index' = [index EXCEPT ![r] = Newest(p, r)]
      BY <1>6 DEF MergeChunk
    <2>2. /\ FilesStay /\ pc[p] = "merge" /\ r \in Rows
          /\ disposed' = disposed
      BY <1>1, <1>6, Shapes DEF MergeChunk, FilesStay, dirVars
    <2>3. ASSUME NEW n \in 1..(next - 1), r \in content[n], n \notin staged
          PROVE  Newest(p, r) >= n \/ <<n, r>> \in disposed
      <3>1. Newest(p, r) \in Nat
        BY <1>1, <2>2, NewestFacts DEF TypeInv, RestIsRead
      <3>2. CASE Newest(p, r) < n
        <4>1. Wiped(n)
          BY <2>2, <2>3, <3>2, MergeIsForward
        <4>2. QED
          BY <2>2, <4>1 DEF Wiped
      <3>3. QED
        BY <3>1, <3>2
    <2>4. ASSUME NEW n \in 1..(next - 1), NEW o \in content[n]
          PROVE  n \in staged \/ index'[o] >= n \/ <<n, o>> \in disposed
      <3>1. o \in Rows
        BY <1>1, <2>4
      <3>2. CASE o = r
        BY <1>1, <2>1, <2>2, <2>3, <2>4, <3>2
      <3>3. CASE o # r
        BY <1>1, <2>1, <2>4, <3>1, <3>3 DEF NothingIsLost
      <3>4. QED
        BY <3>2, <3>3
    <2>5. QED
      BY <2>2, <2>4 DEF NothingIsLost, FilesStay
  <1>7. ASSUME NEW p \in Procs, DeleteRows(p) \/ DropTable(p) \/ WipeFails(p)
        PROVE  NothingIsLost'
    <2>1. /\ FilesStay
          /\ \A r \in Rows : \/ index'[r] = index[r]
                             \/ /\ index'[r] = 0
                                /\ \A n \in Batches : n <= index[r] => <<n, r>> \in disposed'
      BY <1>1, <1>7, RowsLeave
    <2>2. QED
      BY <1>1, <2>1 DEF NothingIsLost, FilesStay
  <1>8. CASE FilesStay /\ index' = index
    BY <1>1, <1>8 DEF NothingIsLost, FilesStay
  <1>9. QED
    BY <1>2, <1>3, <1>4, <1>5, <1>6, <1>7, <1>8, FileSteps, TableSteps

\* What was listed stays so while another process stands by.
LEMMA KeptAside ==
    ASSUME TypeInv, Without("pending"), [Next]_vars, NEW q \in Procs, Kept(q),
           Aside(q), ~Moves(q), pc[q] \in {"read", "merge"}, Exclusive
    PROVE  Kept(q)'
  <1>1. /\ TypeOK /\ next \in Nat /\ staged \subseteq 1..(next - 1)
        /\ Held(q) \subseteq 1..(next - 1) /\ got[q] \subseteq 1..(next - 1)
        /\ index \in [Rows -> 0..(next - 1)]
        /\ Complete(q) /\ Listed(q) /\ Current(q)
        /\ (pc[q] = "merge" => unread[q] = {} /\ Merged(q))
        /\ \A n : Wiped(n) => Wiped(n)'
    BY Shapes, WipedStays DEF TypeInv, Kept
  <1>2. /\ pc'[q] = pc[q] /\ got'[q] = got[q] /\ unread'[q] = unread[q] /\ rest'[q] = rest[q]
        /\ index' = index /\ Held(q)' = Held(q) /\ disposed \subseteq disposed'
        /\ \A n \in 1..(next - 1) : content'[n] = content[n]
    BY DisposedStays DEF Aside, Held
  <1>3. Merged(q) => Merged(q)'
    BY <1>1, <1>2 DEF Merged
  <1>4. \A n : NoneOlder(n, Held(q)) => NoneOlder(n, Held(q))'
    BY <1>1, <1>2 DEF NoneOlder
  <1>5. CASE Stage
    <2>1. next' = next + 1 /\ staged' = staged \cup {next}
      BY <1>1, <1>5, StageFacts
    <2>2. Complete(q)'
      BY <1>1, <1>2, <2>1 DEF Complete
    <2>3. Current(q)'
      BY <1>1, <1>2, <2>1 DEF Current
    <2>4. Listed(q)'
      <3>1. ASSUME NEW n \in 1..(next' - 1), content'[n] # {}
            PROVE  n \in staged' \/ n \in got'[q] \/ Wiped(n)' \/ NoneOlder(n, Held(q))'
        <4>1. CASE n = next
          BY <2>1, <4>1
        <4>2. CASE n # next
          <5>1. n \in 1..(next - 1) /\ content[n] # {}
            BY <1>1, <1>2, <2>1, <3>1, <4>2
          <5>2. QED
            BY <1>1, <1>2, <1>4, <2>1, <5>1 DEF Listed
        <4>3. QED
          BY <4>1, <4>2
      <3>2. QED
        BY <3>1 DEF Listed
    <2>5. QED
      BY <1>1, <1>2, <1>3, <2>2, <2>3, <2>4 DEF Kept
  <1>6. CASE FilesStay
    <2>1. Complete(q)' /\ Current(q)' /\ Listed(q)'
      BY <1>1, <1>2, <1>4, <1>6 DEF FilesStay, Complete, Current, Listed
    <2>2. QED
      BY <1>1, <1>2, <1>3, <2>1 DEF Kept
  <1>7. ASSUME NEW p \in Procs, RemoveStaging(p)
        PROVE  Kept(q)'
    <2>1. Unstages(p)
      BY <1>7, UnstageFacts
    <2>2. Complete(q)' /\ Current(q)' /\ Listed(q)'
      BY <1>1, <1>2, <1>4, <2>1 DEF Unstages, Complete, Current, Listed
    <2>3. QED
      BY <1>1, <1>2, <1>3, <2>2 DEF Kept
  <1>8. \A p \in Procs : ~ReadBatch(p) /\ ~RemoveBatch(p)
    <2>1. ASSUME NEW p \in Procs, ReadBatch(p) \/ RemoveBatch(p)
          PROVE  FALSE
      <3>1. p # q
        BY <2>1 DEF Moves, IngestStep
      <3>2. pc[p] \in {"read", "merge"}
        BY <2>1 DEF ReadBatch, RemoveBatch
      <3>3. QED
        BY <3>1, <3>2 DEF Exclusive, Locked
    <2>2. QED
      BY <2>1
  <1>9. QED
    BY <1>5, <1>6, <1>7, <1>8, FileSteps

\* What an ingest lists, and what is left of it after each of its steps.
LEMMA KeptOwn ==
    ASSUME TypeInv, TypeOK', Without("pending"), Gone, IndexIsRead, [Next]_vars,
           NEW q \in Procs, Kept(q), Moves(q), pc'[q] \in {"read", "merge"}
    PROVE  Kept(q)'
  <1>1. /\ TypeOK /\ next \in Nat /\ staged \subseteq 1..(next - 1)
        /\ Held(q) \subseteq 1..(next - 1) /\ got[q] \subseteq 1..(next - 1)
        /\ unread[q] \subseteq 1..(next - 1) /\ rest[q] \subseteq Rows
        /\ content \in [Batches -> SUBSET Rows] /\ 1..(next - 1) \subseteq Batches
        /\ index \in [Rows -> 0..(next - 1)] /\ index \in [Rows -> Nat]
        /\ \A n : Wiped(n) => Wiped(n)'
    BY Shapes, WipedStays DEF TypeInv
  <1>2. CASE ListBatches(q)
    <2>1. /\ pc'[q] = "read" /\ unread'[q] = staged /\ got'[q] = {}
          /\ FilesStay /\ index' = index
      BY <1>1, <1>2 DEF ListBatches, Goes, TypeOK, FilesStay, dirVars
    <2>2. Held(q)' = staged
      BY <2>1 DEF Held
    <2>3. Complete(q)' /\ Current(q)'
      BY <2>1, <2>2 DEF Complete, Current, FilesStay
    <2>4. Listed(q)'
      BY <1>1, <2>1, <2>2 DEF Listed, Gone, FilesStay, NoneOlder
    <2>5. QED
      BY <2>1, <2>3, <2>4 DEF Kept
  <1>3. CASE ReadBatch(q)
    <2>1. PICK n \in unread[q] :
              /\ unread'[q] = unread[q] \ {n}
              /\ next' = next /\ content' = content /\ index' = index
              /\ \/ n \in staged /\ content[n] # {} /\ got'[q] = got[q] \cup {n} /\ staged' = staged
                 \/ n \notin staged /\ got'[q] = got[q] /\ staged' = staged
                 \/ got'[q] = got[q] /\ Quarantines(n)
      BY <1>1, <1>3, ReadFacts
    <2>2. /\ pc[q] = "read" /\ pc'[q] = "read"
          /\ Complete(q) /\ Listed(q) /\ Current(q)
      BY <1>3 DEF ReadBatch, Kept
    <2>3. /\ staged' \subseteq staged /\ \A m \in staged : content[m] # {} => m \in staged'
          /\ Held(q)' \subseteq Held(q)
          /\ \A m \in Held(q) \cap staged' : content[m] # {} => m \in Held(q)'
          /\ got[q] \subseteq got'[q]
      BY <2>1 DEF Quarantines, Held
    <2>4. Complete(q)'
      BY <2>1, <2>2, <2>3 DEF Complete
    <2>5. Current(q)'
      <3>1. ASSUME NEW r \in Rows, index[r] # 0, index[r] \in staged'
            PROVE  index[r] \in Held(q)'
        <4>1. content[index[r]] # {} /\ index[r] \in Held(q)
          BY <2>2, <2>3, <3>1 DEF IndexIsRead, Current
        <4>2. QED
          BY <2>3, <3>1, <4>1
      <3>2. QED
        BY <2>1, <3>1 DEF Current
    <2>6. Listed(q)'
      <3>1. \A m : NoneOlder(m, Held(q)) => NoneOlder(m, Held(q))'
        BY <2>1, <2>3 DEF NoneOlder
      <3>2. QED
        BY <1>1, <2>1, <2>2, <2>3, <3>1 DEF Listed
    <2>7. QED
      BY <2>2, <2>4, <2>5, <2>6 DEF Kept
  <1>4. CASE Select(q)
    <2>1. /\ pc[q] = "read" /\ pc'[q] = "merge" /\ unread[q] = {} /\ unread' = unread
          /\ got' = got /\ FilesStay /\ index' = index
          /\ rest'[q] = Survivors(q)
          /\ \A n \in got[q] : \A r \in content[n] :
                r \in Seen(q) /\ r \notin Survivors(q) => <<n, r>> \in disposed'
      BY <1>1, <1>4 DEF Select, Goes, TypeOK, FilesStay, dirVars
    <2>2. Complete(q) /\ Listed(q) /\ Current(q) /\ Held(q)' = Held(q)
      BY <2>1 DEF Kept, Held
    <2>3. Complete(q)' /\ Current(q)'
      BY <2>1, <2>2 DEF Complete, Current, FilesStay
    <2>4. Listed(q)'
      BY <1>1, <2>1, <2>2 DEF Listed, FilesStay, NoneOlder
    <2>5. \A n \in got[q] : \A r \in content[n] : r \in Seen(q)
      BY DEF Seen
    <2>6. Merged(q)'
      BY <2>1, <2>5 DEF Merged, FilesStay
    <2>7. QED
      BY <2>1, <2>3, <2>4, <2>6 DEF Kept
  <1>5. CASE MergeChunk(q)
    <2>1. PICK r \in rest[q] : /\ index' = [index EXCEPT ![r] = Newest(q, r)]
                               /\ rest' = [rest EXCEPT ![q] = @ \ {r}]
      BY <1>5 DEF MergeChunk
    <2>2. /\ pc[q] = "merge" /\ pc' = pc /\ unread' = unread /\ got' = got /\ FilesStay
          /\ disposed' = disposed
      BY <1>5 DEF MergeChunk, FilesStay, dirVars
    <2>3. /\ Complete(q) /\ Listed(q) /\ Current(q) /\ Held(q)' = Held(q)
          /\ unread[q] = {} /\ Merged(q)
      BY <2>2 DEF Kept, Held
    <2>4. /\ Newest(q, r) \in got[q] /\ Newest(q, r) \in Nat /\ r \in Rows
          /\ \A n \in got[q] : r \in content[n] => n <= Newest(q, r)
      BY <1>1, <2>1, <2>2, NewestFacts DEF TypeInv, RestIsRead
    <2>5. index'[r] = Newest(q, r) /\ \A o \in Rows : o # r => index'[o] = index[o]
      BY <1>1, <2>1, <2>4
    <2>6. Complete(q)'
      BY <2>2, <2>3 DEF Complete, FilesStay
    <2>7. Current(q)'
      <3>1. Newest(q, r) \in Held(q)
        BY <2>4 DEF Held
      <3>2. QED
        BY <2>2, <2>3, <2>5, <3>1 DEF Current, FilesStay
    <2>8. Listed(q)'
      BY <1>1, <2>2, <2>3 DEF Listed, FilesStay, NoneOlder
    <2>9. Merged(q)'
      <3>1. rest'[q] = rest[q] \ {r}
        BY <1>1, <2>1 DEF TypeOK
      <3>2. ASSUME NEW n \in got[q], NEW o \in content[n]
            PROVE  o \in rest'[q] \/ index'[o] >= n \/ <<n, o>> \in disposed
        <4>1. o \in Rows /\ n \in Nat
          BY <1>1, <3>2
        <4>2. CASE o = r
          BY <2>4, <2>5, <3>2, <4>1, <4>2
        <4>3. CASE o # r
          BY <2>3, <2>5, <3>1, <3>2, <4>1, <4>3 DEF Merged
        <4>4. QED
          BY <4>2, <4>3
      <3>3. QED
        BY <2>2, <3>2 DEF Merged, FilesStay
    <2>10. QED
      BY <2>2, <2>3, <2>6, <2>7, <2>8, <2>9 DEF Kept
  <1>6. CASE RemoveBatch(q)
    <2>1. PICK n \in got[q] :
              /\ \A m \in got[q] : n <= m
              /\ staged' = staged \ {n} /\ got'[q] = got[q] \ {n}
              /\ pc[q] = "merge" /\ rest[q] = {} /\ pc' = pc /\ rest' = rest
              /\ unread' = unread /\ next' = next /\ content' = content /\ index' = index
              /\ disposed' = disposed
      BY <1>1, <1>6, RemoveFacts
    <2>2. /\ Complete(q) /\ Listed(q) /\ Current(q) /\ unread[q] = {} /\ Merged(q)
          /\ Held(q) = got[q] /\ Held(q)' = got[q] \ {n}
      BY <2>1 DEF Kept, Held
    <2>3. Complete(q)' /\ Current(q)'
      BY <2>1, <2>2 DEF Complete, Current
    <2>4. Listed(q)'
      <3>1. NoneOlder(n, Held(q))'
        BY <1>1, <2>1, <2>2 DEF NoneOlder
      <3>2. \A m : NoneOlder(m, Held(q)) => NoneOlder(m, Held(q))'
        BY <2>1, <2>2 DEF NoneOlder
      <3>3. QED
        BY <1>1, <2>1, <2>2, <3>1, <3>2 DEF Listed
    <2>5. Merged(q)'
      BY <2>1, <2>2 DEF Merged
    <2>6. QED
      BY <2>1, <2>2, <2>3, <2>4, <2>5 DEF Kept
  <1>7. QED
    BY <1>1, <1>2, <1>3, <1>4, <1>5, <1>6 DEF TypeOK, Goes, Moves, IngestStep, OwnerStep,
       TakeIngestLock, TakeWriter, StandDown, ReadScopes, MergeFails, Ingested, Return,
       StartForget, DeleteRows, ForgetFails, LoadScopes, RecordScope, StartWipe, DropTable,
       WipeFails, RemoveStaging, RemoveScopes, Crash, Leave

LEMMA KeepStep ==
    TypeInv /\ TypeInv' /\ PurgeInv /\ KeepInv /\ [Next]_vars => KeepInv'
  <1> SUFFICES ASSUME TypeInv, TypeInv', PurgeInv, KeepInv, [Next]_vars, Without("pending")'
               PROVE  IndexIsRead' /\ Gone' /\ NothingIsLost' /\ \A p \in Procs : Kept(p)'
    BY DEF KeepInv
  <1>1. Without("pending")
    BY RunsStay DEF Without
  <1>2. /\ Exclusive /\ IndexIsRead /\ Gone /\ NothingIsLost
        /\ \A p \in Procs : Kept(p)
    BY <1>1 DEF PurgeInv, KeepInv
  <1>3. IndexIsRead' /\ Gone' /\ NothingIsLost'
    BY <1>1, <1>2, ReadStep, GoneStep, LossStep
  <1>4. ASSUME NEW q \in Procs
        PROVE  Kept(q)'
    <2>1. CASE pc'[q] \notin {"read", "merge"}
      BY <2>1 DEF Kept
    <2>2. CASE pc'[q] \in {"read", "merge"} /\ Moves(q)
      BY <1>1, <1>2, <2>2, KeptOwn DEF TypeInv
    <2>3. CASE pc'[q] \in {"read", "merge"} /\ ~Moves(q)
      <3>1. Aside(q)
        BY <1>1, <1>2, <2>3, OthersStandAside DEF Locked
      <3>2. QED
        BY <1>1, <1>2, <2>3, <3>1, KeptAside DEF Aside
    <2>4. QED
      BY <2>1, <2>2, <2>3
  <1>5. QED
    BY <1>3, <1>4

LEMMA Inductive == Spec => []IInv
  <1>1. Init => IInv
    BY TypeInit, PurgeInit, KeepInit DEF IInv
  <1>2. IInv /\ [Next]_vars => IInv'
    BY TypeStep, PurgeStep, KeepStep DEF IInv
  <1>3. QED
    BY <1>1, <1>2, PTL DEF Spec

-----------------------------------------------------------------------------
\* The variables keep their types; a process in no index call holds no lock
\* (index.rs:185).
THEOREM TypeCorrect == Spec => []TypeOK
  <1>1. IInv => TypeOK
    BY DEF IInv, TypeInv
  <1>2. QED
    BY Inductive, <1>1, PTL

\* Where nobody runs ingest_pending, no row of a recorded purge scope is in the
\* index, whatever is staged, ingested, wiped or killed (index.rs:1180).
THEOREM PurgesLast == Spec => []PurgeIsDurable
  <1>1. IInv => PurgeIsDurable
    BY DEF IInv, PurgeInv, Durable, Empty, PurgeIsDurable
  <1>2. QED
    BY Inductive, <1>1, PTL

\* Where nobody runs ingest_pending, every record that was staged is in the
\* index or replaced there, still staged, or disposed of on purpose
\* (bite-index/src/lib.rs:182).
THEOREM StagedRecordsSurvive == Spec => []NothingLost
  <1>1. IInv => NothingLost
    BY DEF IInv, KeepInv, NothingIsLost, NothingLost
  <1>2. QED
    BY Inductive, <1>1, PTL

\* The three together.
THEOREM IndexStaysSound == Spec => []IndexIsSound
  <1>1. QED
    BY TypeCorrect, PurgesLast, StagedRecordsSurvive, PTL DEF IndexIsSound

\* Where nobody wipes or runs ingest_pending, no row goes back to an older
\* record, also across ingests, processes and crashes (bite-index/src/lib.rs:182).
THEOREM RowsOnlyAdvance == Spec => NeverBackwards
  <1>1. ASSUME IInv, [Next]_vars, Without("pending"), Without("wipe"), NEW r \in Rows
        PROVE  index'[r] = 0 \/ index'[r] >= index[r]
    <2>1. /\ TypeInv /\ TypeOK /\ IndexIsRead /\ \A p \in Procs : Kept(p)
      BY <1>1 DEF IInv, TypeInv, KeepInv
    <2>2. index \in [Rows -> 0..(next - 1)] /\ index \in [Rows -> Nat] /\ next \in Nat
      BY <2>1, Shapes
    <2>3. ASSUME NEW p \in Procs, MergeChunk(p)
          PROVE  index'[r] >= index[r]
      <3>1. PICK o \in rest[p] : index' = [index EXCEPT ![o] = Newest(p, o)]
        BY <2>3 DEF MergeChunk
      <3>2. CASE o # r
        BY <2>2, <3>1, <3>2
      <3>3. CASE o = r
        <4>1. /\ pc[p] = "merge" /\ index'[r] = Newest(p, r) /\ Newest(p, r) \in Nat
              /\ \A n \in got[p] : r \in content[n] => n <= Newest(p, r)
          BY <2>1, <2>2, <2>3, <3>1, <3>3, NewestFacts DEF TypeInv, RestIsRead, MergeChunk
        <4>2. SUFFICES ASSUME Newest(p, r) < index[r]
                       PROVE  FALSE
          BY <2>2, <4>1
        <4>3. index[r] \in 1..(next - 1) /\ r \in content[index[r]]
          BY <2>1, <2>2, <4>1, <4>2 DEF IndexIsRead
        <4>4. /\ index[r] \notin got[p]
              /\ (index[r] \in staged \/ Wiped(index[r]))
          BY <2>1, <3>1, <3>3, <4>1, <4>2, <4>3, MergeIsForward
        <4>5. index[r] \in staged
          BY <1>1, <4>4 DEF Wiped
        <4>6. index[r] \in Held(p) /\ unread[p] = {}
          BY <2>1, <4>1, <4>3, <4>5 DEF Kept, Current
        <4>7. QED
          BY <4>4, <4>6 DEF Held
      <3>4. QED
        BY <3>2, <3>3
    <2>4. ASSUME NEW p \in Procs, DeleteRows(p) \/ DropTable(p) \/ WipeFails(p)
          PROVE  index'[r] = 0 \/ index'[r] = index[r]
      BY <2>1, <2>4, RowsLeave
    <2>5. QED
      BY <1>1, <2>2, <2>3, <2>4, TableSteps
  <1>2. IInv /\ [Next]_vars => [Without("pending") /\ Without("wipe") =>
             \A r \in Rows : index'[r] = 0 \/ index'[r] >= index[r]]_vars
    BY <1>1
  <1>3. QED
    BY Inductive, <1>2, PTL DEF Spec, NeverBackwards

=============================================================================

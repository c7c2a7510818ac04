----------------------------- MODULE IndexIngest -----------------------------
(***************************************************************************)
(* The entity index as several bite processes write it: the opportunistic  *)
(* ingest of every index call, the ingest of the spawn and rebuild path,   *)
(* index_forget and index_wipe (crates/bite-mcp/src/index.rs), over one    *)
(* LanceDB table and a directory of staged batches (bite-index/src/lib.rs  *)
(* and store.rs).  The crawler stages batches; it never writes the table.  *)
(*                                                                         *)
(* Batches are numbered in the order of batch_order_key.  A record is a    *)
(* row and the batch it came in; the container it had then is ScopeAt of   *)
(* the two, so that a message may move between batches.  Both locks are    *)
(* file locks: a process that dies gives them up.  The 30 s throttle is    *)
(* the choice not to start, and a file that cannot be moved to quarantine  *)
(* or removed is left out.                                                 *)
(***************************************************************************)
EXTENDS Naturals, FiniteSetsExt

CONSTANTS
    Procs,      \* bite processes, each running one index call at a time
    NoProc,     \* nobody
    NoScope,    \* no container
    Rows,       \* (app, account, id) keys
    Scopes,     \* containers index_forget may name
    ScopeAt,    \* batch -> row -> container of the row's record in that batch
    MaxBatch,   \* batches the crawler stages (bound of the model)
    MaxCrashes, \* processes that die (bound of the model)
    Mixes       \* the mixes of calls to look at: process -> what it runs
                \* besides the ingest of every index call

Batches == 1..MaxBatch

\* ingest_pending of the spawn and rebuild path, index_forget, index_wipe.
Kinds == {"pending", "forget", "wipe"}

ASSUME IndexAssumption ==
    /\ MaxBatch \in Nat /\ MaxCrashes \in Nat
    /\ ScopeAt \in [Batches -> [Rows -> Scopes]]
    /\ NoProc \notin Procs /\ NoScope \notin Scopes
    /\ Mixes \subseteq [Procs -> SUBSET Kinds]

VARIABLES
    staged,      \* batches in the staging directory
    content,     \* batch -> rows it has a record of, {} if it is unreadable
    next,        \* number of the next batch
    index,       \* row -> batch of the record the table holds, 0 for none
    purged,      \* containers in purge-scopes.json
    ingestLock,  \* holder of .ingest.lock
    writer,      \* holder of .writer.lock
    pc,          \* process -> where it is
    scopes,      \* process -> purge scopes it read
    unread,      \* process -> listed batches it has not read yet
    got,         \* process -> batches it read
    rest,        \* process -> rows it has not merged yet
    target,      \* process -> container its index_forget names
    crashes,     \* processes that died so far
    runs,        \* process -> the calls it makes in this behaviour
    disposed     \* records dropped on purpose (history variable)

dirVars == <<staged, content, next>>
lockVars == <<ingestLock, writer>>
localVars == <<scopes, unread, got, rest, target>>
vars == <<dirVars, index, purged, lockVars, pc, localVars, crashes, runs, disposed>>

Init ==
    /\ staged = {} /\ content = [n \in Batches |-> {}] /\ next = 1
    /\ index = [r \in Rows |-> 0]
    /\ purged = {}
    /\ ingestLock = NoProc /\ writer = NoProc
    /\ pc = [p \in Procs |-> "idle"]
    /\ scopes = [p \in Procs |-> {}]
    /\ unread = [p \in Procs |-> {}]
    /\ got = [p \in Procs |-> {}]
    /\ rest = [p \in Procs |-> {}]
    /\ target = [p \in Procs |-> NoScope]
    /\ crashes = 0
    /\ runs \in Mixes
    /\ disposed = {}

Goes(p, from, to) == pc[p] = from /\ pc' = [pc EXCEPT ![p] = to]

\* Dropping the guards of p; harmless for what p does not hold.
Unlock(p) ==
    /\ ingestLock' = IF ingestLock = p THEN NoProc ELSE ingestLock
    /\ writer' = IF writer = p THEN NoProc ELSE writer

\* The call of p is over: its guards are dropped and its locals are gone.
Leave(p) ==
    /\ pc' = [pc EXCEPT ![p] = "idle"]
    /\ Unlock(p)
    /\ scopes' = [scopes EXCEPT ![p] = {}]
    /\ unread' = [unread EXCEPT ![p] = {}]
    /\ got' = [got EXCEPT ![p] = {}]
    /\ rest' = [rest EXCEPT ![p] = {}]
    /\ target' = [target EXCEPT ![p] = NoScope]

\* The records of the rows in R up to the one the table holds.
Up(R) == {c \in Batches \X R : c[1] <= index[c[2]]}

-----------------------------------------------------------------------------
(***************************************************************************)
(* The crawler stages a batch by an atomic rename.  An unreadable batch    *)
(* has no records.                                                         *)
(***************************************************************************)
Stage ==
    /\ next <= MaxBatch
    /\ \E R \in SUBSET Rows : content' = [content EXCEPT ![next] = R]
    /\ staged' = staged \cup {next}
    /\ next' = next + 1
    /\ UNCHANGED <<index, purged, lockVars, pc, localVars, crashes, runs, disposed>>

-----------------------------------------------------------------------------
(***************************************************************************)
(* The two ways into ingest_staged.                                        *)
(***************************************************************************)

\* ingest_pending_if_due, past its throttle: .ingest.lock ...
TakeIngestLock(p) ==
    /\ staged # {}
    /\ Goes(p, "idle", "due")
    /\ ingestLock = NoProc
    /\ ingestLock' = p
    /\ UNCHANGED <<dirVars, index, purged, writer, localVars, crashes, runs, disposed>>

\* ... then the writer lock, kept to the end of the call.
TakeWriter(p) ==
    /\ Goes(p, "due", "scopes")
    /\ writer = NoProc
    /\ writer' = p
    /\ UNCHANGED <<dirVars, index, purged, ingestLock, localVars, crashes, runs, disposed>>

\* The writer lock is busy: a later index call catches up.
StandDown(p) ==
    /\ Goes(p, "due", "idle")
    /\ writer # NoProc
    /\ Unlock(p)
    /\ UNCHANGED <<dirVars, index, purged, localVars, crashes, runs, disposed>>

\* ingest_pending: the guard of a free writer lock is dropped in the arm of
\* the match that took it, before the ingest starts.
StartPending(p) ==
    /\ "pending" \in runs[p]
    /\ Goes(p, "idle", "scopes")
    /\ writer = NoProc
    /\ UNCHANGED <<dirVars, index, purged, lockVars, localVars, crashes, runs, disposed>>

-----------------------------------------------------------------------------
(***************************************************************************)
(* ingest_staged.                                                          *)
(***************************************************************************)
ReadScopes(p) ==
    /\ Goes(p, "scopes", "list")
    /\ scopes' = [scopes EXCEPT ![p] = purged]
    /\ UNCHANGED <<dirVars, index, purged, lockVars, unread, got, rest, target, crashes, runs, disposed>>

ListBatches(p) ==
    /\ Goes(p, "list", "read")
    /\ unread' = [unread EXCEPT ![p] = staged]
    /\ got' = [got EXCEPT ![p] = {}]
    /\ UNCHANGED <<dirVars, index, purged, lockVars, scopes, rest, target, crashes, runs, disposed>>

\* Faulty variant of ReadBatch: an unreadable batch fails the ingest.
ReadBatchOrFail(p) ==
    /\ pc[p] = "read" /\ unread[p] # {}
    /\ LET n == Min(unread[p]) IN
          IF n \in staged /\ content[n] = {}
          THEN pc' = [pc EXCEPT ![p] = "end"] /\ UNCHANGED <<unread, got>>
          ELSE /\ unread' = [unread EXCEPT ![p] = @ \ {n}]
               /\ got' = [got EXCEPT ![p] = IF n \in staged THEN @ \cup {n} ELSE @]
               /\ UNCHANGED pc
    /\ UNCHANGED <<dirVars, index, purged, lockVars, scopes, rest, target, crashes, runs, disposed>>

\* The batches are read oldest first.  One that is gone is passed over, an
\* unreadable one is moved to quarantine/.
ReadBatch(p) ==
    /\ pc[p] = "read" /\ unread[p] # {}
    /\ LET n == Min(unread[p])
           readable == n \in staged /\ content[n] # {}
       IN  /\ unread' = [unread EXCEPT ![p] = @ \ {n}]
           /\ got' = [got EXCEPT ![p] = IF readable THEN @ \cup {n} ELSE @]
           /\ staged' = IF readable THEN staged ELSE staged \ {n}
    /\ UNCHANGED <<content, next, index, purged, lockVars, pc, scopes, rest, target, crashes, runs, disposed>>

\* Keep-last dedup: the newest record of a row among the batches read.
Newest(p, r) == Max({n \in got[p] : r \in content[n]})

Seen(p) == UNION {content[n] : n \in got[p]}

\* Faulty variant of Survivors: a row stays if any of its records may.
SurvivorsByAnyRecord(p) ==
    {r \in Seen(p) : \E n \in got[p] : r \in content[n] /\ ScopeAt[n][r] \notin scopes[p]}

\* The purge scopes are applied to the record that survived the dedup.
Survivors(p) == {r \in Seen(p) : ScopeAt[Newest(p, r)][r] \notin scopes[p]}

Select(p) ==
    /\ Goes(p, "read", "merge")
    /\ unread[p] = {}
    /\ rest' = [rest EXCEPT ![p] = Survivors(p)]
    /\ disposed' = disposed \cup
           {c \in got[p] \X Seen(p) : c[2] \in content[c[1]] /\ c[2] \notin Survivors(p)}
    /\ UNCHANGED <<dirVars, index, purged, lockVars, scopes, unread, got, target, crashes, runs>>

\* One chunk of the merge-insert.
MergeChunk(p) ==
    /\ pc[p] = "merge"
    /\ \E r \in rest[p] :
          /\ index' = [index EXCEPT ![r] = Newest(p, r)]
          /\ rest' = [rest EXCEPT ![p] = @ \ {r}]
    /\ UNCHANGED <<dirVars, purged, lockVars, pc, scopes, unread, got, target, crashes, runs, disposed>>

\* LanceDB refuses the chunk: the error is reported, every file stays.
MergeFails(p) ==
    /\ rest[p] # {}
    /\ Goes(p, "merge", "end")
    /\ UNCHANGED <<dirVars, index, purged, lockVars, localVars, crashes, runs, disposed>>

\* Faulty variant of RemoveBatch: newest first.
RemoveNewestBatch(p) ==
    /\ pc[p] = "merge" /\ rest[p] = {} /\ got[p] # {}
    /\ staged' = staged \ {Max(got[p])}
    /\ got' = [got EXCEPT ![p] = @ \ {Max(got[p])}]
    /\ UNCHANGED <<content, next, index, purged, lockVars, pc, scopes, unread, rest, target, crashes, runs, disposed>>

\* After the last chunk the files that were read go, oldest first.
RemoveBatch(p) ==
    /\ pc[p] = "merge" /\ rest[p] = {} /\ got[p] # {}
    /\ staged' = staged \ {Min(got[p])}
    /\ got' = [got EXCEPT ![p] = @ \ {Min(got[p])}]
    /\ UNCHANGED <<content, next, index, purged, lockVars, pc, scopes, unread, rest, target, crashes, runs, disposed>>

Ingested(p) ==
    /\ rest[p] = {} /\ got[p] = {}
    /\ Goes(p, "merge", "end")
    /\ UNCHANGED <<dirVars, index, purged, lockVars, localVars, crashes, runs, disposed>>

Return(p) ==
    /\ pc[p] = "end"
    /\ Leave(p)
    /\ UNCHANGED <<dirVars, index, purged, crashes, runs, disposed>>

-----------------------------------------------------------------------------
(***************************************************************************)
(* index_forget: delete and record the scope under the writer lock.        *)
(***************************************************************************)
StartForget(p) ==
    /\ "forget" \in runs[p]
    /\ Goes(p, "idle", "delete")
    /\ writer = NoProc
    /\ writer' = p
    /\ \E s \in Scopes : target' = [target EXCEPT ![p] = s]
    /\ UNCHANGED <<dirVars, index, purged, ingestLock, scopes, unread, got, rest, crashes, runs, disposed>>

InTarget(p) == {r \in Rows : index[r] # 0 /\ ScopeAt[index[r]][r] = target[p]}

DeleteRows(p) ==
    /\ Goes(p, "delete", "load")
    /\ index' = [r \in Rows |-> IF r \in InTarget(p) THEN 0 ELSE index[r]]
    /\ disposed' = disposed \cup Up(InTarget(p))
    /\ UNCHANGED <<dirVars, purged, lockVars, localVars, crashes, runs>>

\* LanceDB refuses the delete, or the compaction after it: the call fails
\* before the scope is recorded.
ForgetFails(p) ==
    /\ Goes(p, "delete", "end") \/ Goes(p, "load", "end")
    /\ UNCHANGED <<dirVars, index, purged, lockVars, localVars, crashes, runs, disposed>>

\* record_purge_scope reads the file ...
LoadScopes(p) ==
    /\ Goes(p, "load", "record")
    /\ scopes' = [scopes EXCEPT ![p] = purged]
    /\ UNCHANGED <<dirVars, index, purged, lockVars, unread, got, rest, target, crashes, runs, disposed>>

\* ... and replaces it, unless the scope is there already; a failure is
\* reported to the caller.
RecordScope(p) ==
    /\ Goes(p, "record", "end")
    /\ purged' \in {purged, IF target[p] \in scopes[p] THEN purged ELSE scopes[p] \cup {target[p]}}
    /\ UNCHANGED <<dirVars, index, lockVars, localVars, crashes, runs, disposed>>

-----------------------------------------------------------------------------
(***************************************************************************)
(* index_wipe: the table under the writer lock, the files after it.        *)
(***************************************************************************)
StartWipe(p) ==
    /\ "wipe" \in runs[p]
    /\ Goes(p, "idle", "drop")
    /\ writer = NoProc
    /\ writer' = p
    /\ UNCHANGED <<dirVars, index, purged, ingestLock, localVars, crashes, runs, disposed>>

DropTable(p) ==
    /\ Goes(p, "drop", "unstage")
    /\ index' = [r \in Rows |-> 0]
    /\ disposed' = disposed \cup Up(Rows)
    /\ Unlock(p)
    /\ UNCHANGED <<dirVars, purged, localVars, crashes, runs>>

\* LanceDB refuses, before the table is dropped or after: the files stay.
WipeFails(p) ==
    /\ Goes(p, "drop", "end")
    /\ \/ UNCHANGED <<index, disposed>>
       \/ index' = [r \in Rows |-> 0] /\ disposed' = disposed \cup Up(Rows)
    /\ UNCHANGED <<dirVars, purged, lockVars, localVars, crashes, runs>>

RemoveStaging(p) ==
    /\ Goes(p, "unstage", "unscope")
    /\ staged' = {}
    /\ disposed' = disposed \cup (staged \X Rows)
    /\ UNCHANGED <<content, next, index, purged, lockVars, localVars, crashes, runs>>

RemoveScopes(p) ==
    /\ pc[p] = "unscope"
    /\ purged' = {}
    /\ Leave(p)
    /\ UNCHANGED <<dirVars, index, crashes, runs, disposed>>

-----------------------------------------------------------------------------
\* The process dies, and the system gives up its locks.
Crash(p) ==
    /\ crashes < MaxCrashes /\ pc[p] # "idle"
    /\ crashes' = crashes + 1
    /\ Leave(p)
    /\ UNCHANGED <<dirVars, index, purged, runs, disposed>>

IngestStep(p) ==
    \/ TakeWriter(p) \/ StandDown(p) \/ ReadScopes(p) \/ ListBatches(p)
    \/ ReadBatch(p) \/ Select(p) \/ MergeChunk(p) \/ MergeFails(p)
    \/ RemoveBatch(p) \/ Ingested(p) \/ Return(p)

OwnerStep(p) ==
    \/ StartForget(p) \/ DeleteRows(p) \/ ForgetFails(p) \/ LoadScopes(p) \/ RecordScope(p)
    \/ StartWipe(p) \/ DropTable(p) \/ WipeFails(p) \/ RemoveStaging(p) \/ RemoveScopes(p)

Next ==
    \/ Stage
    \/ \E p \in Procs : TakeIngestLock(p) \/ StartPending(p) \/ IngestStep(p) \/ OwnerStep(p) \/ Crash(p)

Spec == Init /\ [][Next]_vars

\* Index calls keep coming and run to their end; not every one of them comes
\* while a lock is busy, and LanceDB does not refuse the same rows for ever.
FairSpec ==
    /\ Spec
    /\ \A p \in Procs :
          /\ SF_vars(TakeIngestLock(p) /\ writer = NoProc) /\ SF_vars(TakeWriter(p))
          /\ \A R \in SUBSET Rows \ {{}} : SF_vars(MergeChunk(p) /\ rest[p] = R)
          /\ WF_vars(IngestStep(p)) /\ WF_vars(OwnerStep(p) /\ pc[p] # "idle")

-----------------------------------------------------------------------------
(***************************************************************************)
(* Properties.                                                             *)
(***************************************************************************)
Locked == {"scopes", "list", "read", "merge", "end"}
Owning == {"delete", "load", "record", "drop"}
PcStates == {"idle", "due", "unstage", "unscope"} \cup Locked \cup Owning

\* The variables have their types, and a process that is in no index call
\* holds neither lock.
TypeOK ==
    /\ staged \subseteq 1..(next - 1) /\ next \in 1..(MaxBatch + 1)
    /\ content \in [Batches -> SUBSET Rows]
    /\ index \in [Rows -> 0..(next - 1)]
    /\ purged \subseteq Scopes
    /\ ingestLock \in Procs \cup {NoProc} /\ writer \in Procs \cup {NoProc}
    /\ pc \in [Procs -> PcStates]
    /\ \A p \in Procs : pc[p] = "idle" => p \notin {ingestLock, writer}
    /\ scopes \in [Procs -> SUBSET Scopes]
    /\ unread \in [Procs -> SUBSET (1..(next - 1))]
    /\ got \in [Procs -> SUBSET (1..(next - 1))]
    /\ rest \in [Procs -> SUBSET Rows]
    /\ target \in [Procs -> Scopes \cup {NoScope}]
    /\ crashes \in 0..MaxCrashes
    /\ runs \in Mixes
    /\ disposed \subseteq Batches \X Rows

\* Nobody makes calls of this kind.  ingest_pending is the one writer of the
\* table that gives the writer lock up before it writes: next to it neither of
\* the two invariants below holds.
Without(kind) == \A p \in Procs : kind \notin runs[p]

\* "every later ingest skips matching rows, so the purge is durable"
\* (index.rs:1180): no row of a recorded scope is in the index, whatever is
\* staged, crawled again or ingested at the time.
PurgeIsDurable ==
    Without("pending") => \A r \in Rows : index[r] # 0 => ScopeAt[index[r]][r] \notin purged

\* Nothing the crawler staged is lost: its record is in the index or was
\* replaced there by a newer one, its file is still staged, or it was purged,
\* forgotten or wiped on purpose.
NothingLost ==
    Without("pending") => \A n \in 1..(next - 1) : \A r \in content[n] :
        n \in staged \/ index[r] >= n \/ <<n, r>> \in disposed

\* What is true of the table, the staged files and the locks at any moment.
IndexIsSound == TypeOK /\ PurgeIsDurable /\ NothingLost

\* A row never goes back to an older record: "Last is the NEWEST batch"
\* (bite-index/src/lib.rs:182) also across ingests, processes and crashes.  A
\* wipe may take the newest file from under an ingest that lists it.
NeverBackwards ==
    [][Without("pending") /\ Without("wipe") =>
         \A r \in Rows : index'[r] = 0 \/ index'[r] >= index[r]]_vars

\* "a single poison batch must not wedge the whole pipeline forever"
\* (bite-index/src/lib.rs:107): every staged batch is taken up eventually,
\* whatever else is staged and whoever dies holding the locks.
EveryBatchTaken == \A n \in Batches : n \in staged ~> n \notin staged

=============================================================================

# A TLA+ model of bite

The repository holds two systems, and both are modelled here.

- **bite** (`src/crates/`) connects an MCP client or a command line to the Apple
  applications of one Mac. A Rust control plane serves the tools. It talks to a
  Swift helper process over two pipes, it starts a detached Swift crawler, and it
  keeps a full-text index of what the crawler finds. Its releases are made by a
  GitHub workflow (`src/.github/workflows/release.yml`) behind a changelog check
  (`src/scripts/check_changelog.py`).
- **The planning toolchain** the project is developed with
  (`src/_bmad/`, `src/.agents/skills/`): Python scripts that install skills,
  rebuild a project's `_bmad` folder, render workflows, keep tickets and memory
  logs, and resolve customizations. `src/skills-lock.json` says that the skills
  come from `bmad-code-org/BMAD-METHOD`. Nothing of bite runs them; they are the
  larger part of the repository's Python, they are changed and configured here,
  and they keep state on disk that processes and people change at the same time.
  The scripts under `src/_bmad/scripts` and `src/.agents/skills/bmad/scripts`
  are the same files, as are the two `tickets.py`.

This directory models the parts of both in which threads, processes and edits
interleave, crash and time out, and the algorithms others rely on. TLC checks
them on small instances; TLAPS proves the main results for bite.

Paths of bite are relative to `src/crates/`, others to `src/`.

## The system

### bite

| Component | State it keeps | Operations | Talks to |
|---|---|---|---|
| Key table (`bite-mcp/src/idempotency.rs`) | `order` and `map` of idempotency keys, at most 128 | `reserve`, `settle`, `release`, `evict_if_full` | request threads, one mutex |
| Bridge client (`bite-bridge/src/client.rs`) | pending map, stdin writer, child slot | `call_timeout`, `kill_child`, the reader thread | helper, by JSON lines over pipes |
| Bridge handle (`bite-mcp/src/helper.rs`) | the current generation of the helper | `get`, `reset_if_same` | request threads, bridge client |
| Tool-call dispatch (`bite-mcp/src/mcp.rs`) | one thread per request | `run_tool_idempotent`, `run_tool_retrying`, the live mail search | key table, handle, index |
| Helper (`bite-mcp/swift/Sources/BiteHelper`) | the request it runs, bodies its watchdog abandoned | read loop, dispatcher, `withWatchdog` | Apple applications |
| Entity index (`bite-mcp/src/index.rs`, `bite-index/src`) | LanceDB table, staged batches, `purge-scopes.json`, two file locks | ingest, `index_forget`, `index_wipe`, search | other bite processes, crawler |
| FTS refresh (`bite-mcp/src/index.rs` 235-331) | `fts-refresh.json` | refresh once per settled crawl | index, crawl state |
| Crawl control (`bite-mcp/src/index.rs` 560-1111, 1333-1471) | `crawl.pid`, liveness cache, cooldown | spawn, cancel, auto refresh, wipe, live-mail gate | crawler, through two files and SIGTERM |
| Crawl worker (`bite-mcp/swift/Sources/BiteCrawlMain`, `MailCrawler.runJob`, `writeState`) | `crawl-state.json` with the failure streak and the watermark | crawl, mirrors, bulk operations, SIGTERM | crawl control, Mail |
| Mailbox walk (`BiteCrawlCore/MailCrawler.swift` 690-1302, `MailAE.swift`) | plan of index ranges, strikes, pending batch | count, probe, chunk reads, flush | Mail, staging directory |
| Job registry (`bite-mcp/src/jobs.rs`) | the last 100 ended jobs, pending batches | `record`, prune, snapshot | bridge notifications |
| Command line (`bite-mcp/src/cli.rs`, `dispatch.rs`) | one handle | `call` with its own retry rule | bridge client, index |
| Config writers (`bite-mcp/src/clients.rs`, `setup.rs`) | other programs' config files | guarded atomic write | file system |
| Configuration, private files, registry, dates (`bite-core/src`) | cached config | pure, or one file each | everybody |
| Doctor, toolchain checks (`bite-mcp/src/doctor.rs`, `toolchain.rs`) | none | diagnostics, trust checks | file system |
| Release process (`.github/workflows/release.yml`, `scripts/check_changelog.py`) | branches, tags, `CHANGELOG.md`, crates.io | fold, guard, publish four crates, run again | git, crates.io |

### The planning toolchain

| Component | State it keeps | Operations | Talks to |
|---|---|---|---|
| Memlog (`_bmad/scripts/memlog.py`) | `.memlog.md`, one temporary name | `init`, `append`, `set` | other runs of itself, the disk cache |
| Tickets (`_bmad/method/scripts/tickets.py`) | a tree of `tickets.toml`, leaf and plan files | `next`, `status`, `find`, `mark`, `pull` | builds and people who edit the same files |
| Setup (`_bmad/scripts/setup.py`) | `_bmad`, its staging and `_bmad.old-*` folders | plan, stage, swap, restore, status | renders, editors, other setups |
| Skill cleanup (`_bmad/scripts/setup.py` 565-810) | skills folders, lock files of the skills CLI | remove retired skills, remove copies | the CLI, other cleanups |
| Start check (`_bmad/scripts/setup_check.py`) | none | what is owed when a skill starts | setup's results |
| Knowledge index (`_bmad/scripts/knowledge.py`) | none | documents and topics of the installed modules | module records |
| Renderer (`_bmad/scripts/render_skill.py`) | `_bmad/render` generations | read, render, stage, publish | setup, other renders |
| Configuration layers (`_bmad/scripts/config_utils.py`) | none | merge of base, team and user layers | every script above |
| Rooms (`roster.py`, `resolve_party.py`, `resolve_personas.py`) | none | who is in a room, under which name | rosters, layers |
| Catalogs (`brain.py`, `pick_methods.py`) | session file of a draw | merge extra rows, find by name and number | layers |
| Customizable skills (`list_customizable_skills.py`) | none | which copy is listed | skills folders |
| Git evidence (`git_evidence.py`) | none | counts commits and lines of a range | git |
| Linters and kits (`lint_spine.py`, `word_metrics.py`, `recon_kit.py`) | none | one document to one report | |

What makes each part correct:

- *Key table.* Queue and map agree; nobody loses a claim to eviction; a pin,
  the record of "it may have gone out", outlives values; settled outcomes are final.
- *Bridge client.* Each error code means what `docs/protocol.md` says of it,
  now and later; nobody waits for an answer that cannot come; the pending map
  does not leak; a call returns.
- *Tool calls.* One effect per call of a tool that is not replay-safe, one
  effect per key; only the generation that failed is recycled; no call is left
  without a step.
- *Index.* A purge is durable, nothing staged is lost, a row never goes back to
  an older record, a poison batch stops nobody.
- *Crawl control, crawl worker.* At most one crawler; a cancelled crawl stays
  cancelled; only a complete crawl moves the watermark, and a delta has a
  complete crawl behind it; failures back off, and a dead crawler is replaced.
- *Mailbox walk.* It ends, whatever Mail does; what it reports as read has no
  holes; a cancel loses no record; no reply can be read two ways.
- *FTS refresh.* A crawl is marked only when all its rows are folded in.
- *Config writers.* A file is the old one or the new one, and an edit by
  somebody else is not overwritten.
- *Release.* A tag that passes the guard reports every entry behind it; the
  crates of a version come from one commit, however often it is run.
- *Memlog.* The log is an old text or a new one, entries only come, and what
  was acknowledged is still there after a crash.
- *Tickets.* The commands never write what they cannot read; work never stalls
  unnoticed; a printed reference finds its ticket; a mark stands.
- *Setup, cleanup, renderer.* No edit of a user is destroyed; a finished setup
  owes nothing and every report agrees with it; the last copy of a skill stays;
  a published generation is whole.
- *Layers, rooms, catalogs.* The nearest layer wins item by item; two scripts
  that read one file see the same; every entry is found by its key.
- *Git evidence.* Every commit is counted once, and merges restate exactly what
  they bring in.

The hard behaviours, each with its line in the source and the properties that
cover it, are the `hazards` of `PROJECT.json`.

## Modules

| Module | Models | Used by |
|---|---|---|
| `Idempotency` | the key table as operators on `order` and `entry` | `KeyTable`, `ToolCall` |
| `KeyTable` | the table with any number of threads that owe an ending for what they claimed | |
| `CallContract` | abstract: what one call through the bridge promises | `BridgeClient`, `ToolCall` |
| `BridgeClient` | one generation: request threads, reader thread, helper, recycling | |
| `AtMostOnce` | abstract: what an idempotency key promises | `ToolCall` |
| `ToolCall` | calls with table, retry policy, handle and generations; the bridge by its contract | |
| `IndexIngest` | processes that ingest, forget and wipe over one table | |
| `WalkPlan` | the index ranges of a walk, as operators | `MailWalk` |
| `MailWalk` | one mailbox read for one window, with Mail and the SIGTERM handler beside it | |
| `CrawlControl` | bite processes and the crawlers they launch, over `crawl.pid` and `crawl-state.json` | |
| `Changelog` | the sections and entries of `CHANGELOG.md`, the guard and the fold | `Release` |
| `GitEvidence` | a git history and what `git_evidence.py` counts over it | `Release` |
| `Release` | branches, merges, versions, tags and the publishing workflow | |
| `Memlog` | processes that write one log, inodes, the disk cache, power loss | |
| `TicketTree` | what `tickets.py` reads out of a tree, as operators | `Tickets` |
| `Tickets` | processes that mark and pull, and builds that edit | |
| `Installation` | skills folders and module records, as `setup.py`, `setup_check.py`, `knowledge.py` and the customizer read them | `Knowledge`, `BmadTree`, `Rooms` |
| `Knowledge` | documents and topics of a record | `SkillCleanup` |
| `SkillCleanup` | cleanups and the skills CLI over folders and locks | |
| `BmadTree` | the `_bmad` folder as a value, what setup plans, reports and writes | `SetupRun`, `RenderRun` |
| `SetupRun` | setup as processes | `BmadRuntime` |
| `RenderRun` | the renderer as processes | `BmadRuntime` |
| `BmadRuntime` | both over one `_bmad`, with a user who edits it | |
| `Layering` | merging of layers and of catalogues | `Rooms`, `Lenses` |
| `Lenses` | the review layers a render shows, or why it halts | `Customization` |
| `Rooms` | rosters, rooms and groups of party mode and the forge | `Customization` |
| `Customization` | a project whose people, groups and catalogues change | |
| `MC*` | the instances TLC checks | |
| `*Proofs` | theorems | |

The three layers of a tool call are composed by refinement: `BridgeClient`
implements `CallContract`, `ToolCall` uses `CallContract` in place of the
bridge, and `ToolCall` implements `AtMostOnce`. The crawler is modelled at two
scales: `CrawlControl` takes the walk of all mailboxes as one stage that
succeeds, fails or is stopped, and `MailWalk` is that stage for one mailbox
and one window. `IndexIngest` begins where the walk has staged a batch.
`BmadRuntime` composes the setup and the renderer over the folder both write.
`Installation` is the one reading of the skills folders that cleanup, setup,
rooms and the knowledge index share; that the scripts, which each have their
own, agree on it is itself checked (`ScannersAgree`).

Definitions whose name is that of another with a word added (`DrainNothing`,
`StartInitAnyway`, `RegisterWitnessBare`) and whose comment says "Faulty variant
of" are plausible bugs. No specification uses them. Each stands for one property: with it in
place of the definition it varies, TLC finds that property violated.

### Idempotency and KeyTable

`order` is the retention queue and `entry` the map; an absent key is the record
`Unset`. `ReserveVerdict` is the lookup of `reserve`, `ReserveFresh` the
eviction and the claim, `SettleDone` and `SettleUnknown` are `settle`, `Release` is
`release`. Every action is one hold of the table's mutex. `owed` holds the keys
whose thread has not yet called `settle` or `release`. The SHA-256 digest of
the arguments is a member of `Fingerprints`, a result one of `Values`, and the
cap of 128 is `MaxKeys`.

### BridgeClient

A request thread makes one call, so the thread is the request id. Each action is one
critical section or one blocking operation of `call_timeout`: `Register`,
`LockStdin`, `WriteLine` or `WriteFails`, `Unpend`, `Receive` or `Expire`,
`Forget`, `Probe`, and `Recycle` for the owner that kills the generation. The
reader thread is `Deliver`, `Reap`, `Drain`, `FailOne`, `CloseStdin`, in the
order of the code; the gap between `Drain` and `CloseStdin` is there. The
helper accepts one line at a time, acts, replies; its watchdog may answer
`timeout` and leave the body running (`LateAct`); it may die between any two
steps and may stay in one handler for ever. A request of `Large` is one that
does not fit the pipe behind another one. JSON framing and the contents of
requests are left out; unparseable lines are not sent by this helper.

### ToolCall

`StartFresh` and `StartRecorded` are the two ways through `reserve`; `Get` is
`BridgeHandle::get`, `SpawnFails` its error, the returns of an attempt are
those of `CallContract`, `Recycle` is `reset_if_same`, `ReplayReturns` the second
attempt, `Finish` the ending of the claim by the code of the outcome. A call
makes at most two attempts, as in the code. `genOf` is the generation an
attempt was made on. `Searches` are live mail searches, which call the helper
outside the retry policy.

### IndexIngest

A batch is a number, in the order of `batch_order_key`; a record is a row and
its batch; `ScopeAt` says in which container a row was at that time. A process runs one
index call at a time; threads of one process exclude each other by the same
file locks. `TakeIngestLock`, `TakeWriter`, `StandDown` are the
opportunistic ingest of every index call; `StartPending` is the spawn and rebuild
ingest, which does not hold the lock it asked for; the steps of `ingest_staged`
follow: read the purge scopes, list, read oldest first (an unreadable file goes
to quarantine), keep the newest record of each row, drop the purged ones, merge
chunk by chunk, remove the files one by one. `index_forget` deletes and records
under the writer lock. `index_wipe` drops the table under it and removes the
files without it. A process may die between any two steps, and any LanceDB
operation may fail. A chunk is one row. `Mixes` says which process runs which
calls besides the ingest, so that one run looks at several combinations. Not
modelled: a file that cannot be moved or removed, a damaged
`purge-scopes.json`, the FTS refresh.

### WalkPlan and MailWalk

`WalkRanges` and `ProbeRange` are `MailAE.walkPlan`, `Halves` is `halve`.
`MailWalk` is one call of `crawlMailbox`. `Count` is its two attempts and the
fall into a blind walk; `Probe` resolves the order, scans its rows when they are
the first chunk of the plan and queues what a shrunken probe left;
`ProbeFails` halves or gives up. The loop is `PassBeyond`, `ReadChunk`,
`NotVerified`, `Mistaken`, `BlindOutOfRange`, `BlindReadFails` and
`CountedReadFails`, one per way out of an iteration; `Finish` is the last flush and
every return. `ScanRow` is the body of `scanChunk`'s loop with `rowDecision`.
`Collect` and `Flush` write batches or put the records back. `Stop`, `FlushFirst`
and `FlushLast` are the signal handler; SIGTERM may come between the walk's
look for it and the read that follows (`late`). Mail itself, external to this
code, gains and loses messages (`Arrive`, `Depart`), refuses counts and reads,
and answers a read past the end with an error or fewer rows. A date is below, in
or above the window, or missing; a mailbox is sorted by date either way but for
the messages in `misdated`; what two rows may say of the order is `Hints`. `limit` is
`walkLimit`, which a count refreshed by `CountedReadFails` leaves as it was. Left out: decoding of replies, recipient
enrichment, pauses, heartbeats, `isShortRead` for counted walks (it is only
asked of blind ones).

### CrawlControl

`pidfile` and `file` are the two files; `file.mark` is the watermark
`mail_completed_at`, named by the crawl that stamped it. A process looks
(`Probe`), takes a stale pidfile away (`ClearStale`), launches and records the
pid, one step each, so that other processes come in between. `CancelProbe`,
`Kill`, `Poll`, `Unfile` are `index_crawl_cancel`, `WipeState` and `Unfile`
the two files of `index_wipe`. A worker writes its state in three
steps, as `writeState` does: a look at cancellation and the reading of what the
write preserves (`WriteState`), the second look under `stateLock` (`Lock`), the
replacement (`Replace`). The signal handler (`HandlerWrite`, `HandlerExit`)
runs beside it. `Begin`, `Plan`, `Beat`, `CrawlFails`, `WalkEnds`, `WalkBreaks`,
`MirrorsDone`, `MirrorsFail`, `BulkEnds` and `Exit` are the run section of
`main.swift` with `runJob`. Workers and processes may die at any step.
`raced` records that launches overlapped or that a live worker lost its
pidfile: the code has no lock against either, and properties that do not hold then
say so. Left out: the liveness cache (an alive verdict up to 5 s old only delays
a refresh), the live-mail gate and status (they read), heartbeats step by step
(`Beat` is one step), a state file that cannot be written, and a dead worker
that is still found alive because its parent never waited for it.

### Changelog, GitEvidence and Release

A commit is a number with its parents and what the tree of it says: the version
of the crates and the changelog. `Work` is a pull request that adds an entry,
`MergeSide` and `CatchUp` are git merges, where an entry stays with the lines
around it, `Fold` is `check_changelog.py --fold`, `PrepareByHand` the same edit
without it. `PushTag` starts the workflow of a version, whose steps are `Guard`,
`Publish` (one crate each; "already exists" counts as published) and `Fails`;
`RunAgain` and `MoveTag` start it again. `Conforms`, `GuardPasses`, `MayFold`
and `Folded` are the functions of the script on sections and entries; an entry
has a pull-request number, or a heading, or neither. `Evidence` is
`git_evidence.py` over a range of the same history: the listing with and
without merges, printed newest commit first (`Printed`), the parser that keeps a merge's
first block (`Counted`, `Parsed`), the sums. `GitRepeats` is a git that lists a merge once per parent. Dates, wording,
paths and the stories named in subjects are left out.

### Memlog

A command reads the log (`StartInit`, `StartAppend`, `StartSet`), opens the
temporary file, writes, fsyncs, renames and answers, one step each; its number
stands for what it adds. Names and texts are kept apart, in memory and on the
medium, so that `PowerLoss` can lose a text that was never synced and a rename
that was. `Killed` ends a process anywhere. Two commands share the temporary
name, as in the code; `overlapped` remembers that they met.

### TicketTree and Tickets

A tree is a value: entries, leaf files, plan files, the files of the epics.
`TicketTree` is what `load_tree` and the views make of it: rows, keys,
references in all their forms (`RefOf`), cycles, what waits for what, the state
of a ticket and its group in `next` (`Group`), and the references printed and found
(`RowRef`, `Matches`). In `Tickets` a command reads and decides in one step,
opens (and so empties) its file in the second and writes it in the third; builds edit plan
files beside it. `IsTree` says what the files of an initiative can be, `WellKept` and
`Findable` what the proofs ask of the trees to start from. Left out: the longest chain, unpinned
references, titles and the output.

### Installation, Knowledge and SkillCleanup

`disk` says what each skills folder holds under each name: nothing, a folder,
or a link to another place. `Content` is what the packages put there, with the
fields a reader refuses. From it follow the copy in use, the records of
modules, members, requirements, versions and problems as `setup.py` computes
them, what `setup_check.py` owes, what `knowledge.py` scans and what the customizer
lists. A cleanup takes a look and decides, reads the locks (`ReadLocks`),
deletes path by path (`Delete`), opens (and so empties) and writes one lock after
another (`OpenLock`, `WriteLock`); the skills CLI adds a skill at any time
(`CliAdds`). `Documents` goes through the entries of a record as `collect` does,
from the first to the last, and keeps documents, problems and unread paths apart. Left out: downloads,
migrations of knowledge entries, reports.

### BmadTree, SetupRun, RenderRun and BmadRuntime

`bmad` is the folder as a value. Setup asks (`Ask`), plans from what it reads
(`Plan`), copies the folder (`Copy`), brings the copy up to date (`Stage`), moves
the old one aside under a name of the second (`MoveAside`), moves the copy in
(`MoveIn`, with the restore of `replace_dir` when it fails), deletes the old
one (`DropAside`) and makes the output folder. Every operation may fail once and setup
may be killed anywhere. A render reads the central config and
the customization (`ReadConfig`, `ReadCustom`), uses a generation that is
there (`Verify`, `Pass`), or stages and publishes one (`Begin`, `WriteSource`,
`WriteManifest`, `Publish`). The user edits any of the files at any time
(`Edit`). A value is the number of the edit that set it, so a property can ask
for one edit. The template language is reduced to which sources come out, what
they read and what they name.

### Layering, Lenses, Rooms and Customization

`MergeArrays` is the merge of keyed arrays, `Merged` the three layers with a
broken or an absent file among them, `Techniques` and `Methods` the two catalogues with
extra rows. `Lenses` is what a render makes of the list of review layers:
`Effective` lays the overrides file and the assignments of the call over the layers
of files, `Halts` has the reasons for which the renderer refuses, `Shown` is the list
without the layers that were turned off. An item's name stands for a layer's
instruction, and a call is the items of its file, whether that file has another key, and
its assignments. `Roster` is `roster.py`; `Collective` and
`Witnesses` register agents, guests and members under code, short form and name, as
`resolve_party.py` and `resolve_personas.py` do; groups, menus and what opens
follow. `Customization` lets skills come and go and people write each of these
files (`Misspell` puts a key in one that the skill does not declare), and looks at all
reports and at what every call renders after each change.

## Checks

Every run below passes. The properties named with "sound" are the conjunction
of the invariants their definition lists, the type invariant first.

| Run | Instance | Shows |
|---|---|---|
| `key_table` | 4 keys, cap 2, 2 digests, 2 values; 1.3 thousand states | `TableIsSound`: queue and map agree. `EvictionIsOrderly`: claims are never evicted, the table outgrows its cap only while all is in flight, pins go last |
| `bridge_client` | 2 threads, one large request, both recycle; 23 thousand | `CallsAreSound`: codes are honest, nothing runs twice, nobody is stranded, no leak. `ImplementsContract`; `EveryCallReturns` |
| `tool_call` | 2 calls under one key, a third without one that is replay-safe, cap 2; 600 thousand | `CallsAreSound`: one effect per call and key, exclusive claims, earned pins, own replays, recycled exits. `NoCallIsStuck`, `OnlyItsOwnFailureRecycles`, `KeepsPromise` (refinement of `AtMostOnce`) |
| `index_ingest` | 2 processes, 2 batches, a row that changes its container, 2 crashes; three mixes: both forget, one forgets and one wipes, one wipes and spawns; 77 thousand | `IndexIsSound`: purges are durable, nothing staged is lost. `NeverBackwards`, `EveryBatchTaken` |
| `mail_walk` | 0 to 5 messages and an arrival, chunks of 4, width 3 avoided, batches of 4, cap 8, one odd message; 2.2 million | `WalkIsSound`: no hole, no ambiguous width, no record lost to a cancel. `WalkEnds` |
| `crawl_control` | 2 processes, one with a user, 2 workers, 2 failures to back off, 2 mishaps; 480 thousand | `ControlIsSound`: one crawler, earned marks, deltas with a base, backoff. `CancelSticks`, `SelfHeals` |
| `memlog` | 2 processes, 3 commands, 1 field, 2 mishaps; 175 thousand | `NeverHalfWritten`, `AppendOnly`, `AckedIsKept` |
| `tickets` | 7 trees of two epics (4 load; three wait in a circle), 3 statuses to mark, 2 commands, 1 edit or kill; 123 thousand | `TreeStaysSound`, `MarksStand`, `NoStall`, `RefFinds` |
| `skill_cleanup` | 6 installations over two active folders, a tool folder and a hidden one, 2 cleanups, 1 added skill, 1 kill; 61 thousand | `LastCopyStays`, `LocksFollowDisk`, `ScannersAgree`, `OffersAgree` |
| `bmad_runtime` | 1 setup process that runs twice, 2 renderers, 3 starts in all, 1 edit, 1 failure or kill, 2 trees, 2 installations; 278 thousand | `EditsSurvive`, `SetupSettles`, `StatusIsHonest`, `SnapshotsHold` |
| `customization` | 5 items, 2 layers, 3 agents with colliding short forms, 2 groups, 2 rows, 5 calls of the renderer, 4 changes from two sets of skills; 38 thousand | `NearestWins`, `RoomKeepsItsAgents`, `RoomsAgree`, `CatalogsAgree` |
| `release` | 4 commits, 2 versions, 2 crates, 2 pushes, 1 failing step; 526 thousand | `TagsReportTheirEntries`, `FoldsConform`, `CratesComeTogether`, `EvidenceAddsUp` |

Several properties hold only outside situations that nothing in the code
prevents; each names them as guards, and the section after this one says what
happens there.

Why the bounds are enough. Eviction has to choose and to find nothing, which a
cap of two and more keys than that give. Two callers of the
bridge are one that fails or recycles, and one that waits, blocks in its write or
arrives in the reader's gap; the safety of any number of them is proved. Two calls
under a key make a repeat, and the third runs into the generation they recycle; two attempts per
call are the code's own bound, and generations are bounded by the attempts. Two
batches let a row change its container and be ingested in parts; two processes
are enough for a lock to be busy, and two crashes let a crash meet the leftovers of
the first; the safety properties also pass with two rows (`Rows <- MCTwoRows`, 640
thousand states, longer than the run may take). A walk needs a probe, a chunk that must be cut around the avoided
width, one that is halved to the end, and rows on both sides of the window: five
messages and chunks of four. One odd message (`MaxOdd`: mis-dated, arriving
or leaving) is the most the code's comments promise to bear. Two workers are
one that ends or dies and the one that must or must not follow it, and two
mishaps let one die before and one after a wipe. Three memlog commands are an
init, one that changes, and one that must not undo it. The trees of `tickets`
have every form of reference, a gate and both circles through a gate. The
installations of `skill_cleanup` have a copy in each kind of folder, a link in
each direction, and two skills that declare one module. In `bmad_runtime` the
second setup is the one that must find nothing to do. In `release` four commits
are a branch, work beside it, a fold and the merge that comes too late.

The bounds on threads, calls, batches, messages, workers and commands are the
model's; the counters that are capped are `MaxBatch`, `MaxCrashes`, `MaxOdd`,
`MaxSpawns`, `MaxMishaps`, `MaxStarts`, `MaxCommands`, `MaxEdits`, `MaxRuns`,
`MaxAdds`, `MaxKills`, `MaxSetups`, `MaxRenders`, `MaxFaults`, `MaxItems`,
`MaxChanges`, `MaxCommits`, `MaxPushes` and `MaxFailures`. In `crawl_control`
only one process (`Users`) starts,
cancels and wipes while both refresh, and after a race or a wipe beside a
live worker no new operation starts (`ActAfterRace = FALSE`), though those under
way run on: the properties say nothing more of such states. `BmadRuntime` and
`Tickets` are bounded in the same way (`ActAfterRace`, `ActAfterOverlap`). The proofs assume
none of these.

Symmetry is used in safety runs only, over values no formula tells apart.
Deadlock is checked in the key table and the index, which never stop; in the
bridge, tool-call and walk runs every call ends, and in the others workers,
commands or mishaps run out, so they say `CHECK_DEADLOCK FALSE`.

Fairness. In `BridgeClient` the threads of the host are
scheduled and timeouts expire: weak fairness of each caller and of the reader.
Nothing is assumed of the helper. `ToolCall` states no fairness: that
no call is ever stuck is a state property (`NoCallIsStuck`), and the bridge below
it answers every attempt. In `IndexIngest` index calls keep coming and run
to their end (weak fairness), a process does not find a file lock busy every time
it asks (strong fairness of the two lock steps; the code retries at the next
call and nowhere waits), and LanceDB does not refuse the same rows for ever
(strong fairness of each merge step). A crash is never fair. In `MailWalk`
something happens as long as something can: every read is bounded by an Apple
Event timeout and the handler by its two seconds. In `CrawlControl` the
operations of the bite processes go on, and as long as mail is read through bite
the auto refresh finds the state stale in the end; nothing is asked of the workers,
which may hang for ever, as a live one rightly stops the next. The Python
commands are started by people and agents and promise nothing for the future, so
their modules state no fairness.

## Where the code and its words part

What the models meet where a comment or a document says more than the code
does, or where the code leaves a gap. A property that excludes such a case has
it as a guard; where the definition without the guard is kept, it is named, with the
constant to change to see it violated.

### bite

- *A wedged helper.* The timeout of a call starts after its request is written,
  and the write is unbounded, under the stdin mutex. If the helper hangs and the
  caller that timed out does not recycle it, a large write blocks and so
  does everybody after it. The retry policy recycles on `timeout`; the live
  search, a replay attempt and the command line do not. (`Recyclers <- MCOne` in
  `BridgeClient.cfg`: `EveryCallReturns`.)
- *Ingest without its lock.* The guard of `lock_writer` is bound in a match arm and
  dropped at its end, so the spawn and rebuild ingest merges without the lock.
  An `index_forget` that runs between its reading of the scopes and its merge is
  undone, although its scope is recorded. (The guard `Without("pending")`.)
- *A wipe beside an ingest.* `index_wipe` removes the staged files after it gave
  the lock up. An ingest in between puts wiped rows back, and the
  wipe may take the newest file from under it, so that a row goes back.
  (The guard `Without("wipe")` of `NeverBackwards`.)
- *A mis-dated row.* The order of a mailbox is taken from its first two dated
  rows. If one of them is mis-dated, a counted walk starts at the wrong end and a
  blind one awaits the wrong bound; three rows beyond that bound confirm an edge,
  and the walk reports success. (`MisdatedIsHarmless`.)
- *A long mailbox.* A walk reads at most 20000 messages (`MailCrawler.swift:953`); one
  that meets this limit ends like one that met the edge of its window, and reports
  success. (The guard `Readable` of `NoHoles`.)
- *An order taken by default.* When no two dates tell the order it is taken to be newest
  first. In an oldest-first mailbox rows of the far side then come
  early, and with one mis-dated row among them they may end the walk before its window. (The
  guard `Oriented` of `NoHoles`, found in the attempt to prove it without:
  with `EdgeTolerance = 2` a mailbox of five, two below the window, one mis-dated
  in it, one below and one in the window, loses the last.)
- *A crawl of one mailbox.* When `done` it stamps the watermark like a crawl of
  all of them, and the next crawl plans a delta. (`Jobs <- MCAnyCrawl`:
  `ControlIsSound`, by its part `DeltaHasBaseline`.)
- *Overlapping launches.* `spawn_crawl` looks, spawns, then records: two
  processes that look together both spawn, and one may take away the pidfile of the
  other's crawler. (The history `raced`.)
- *A wipe beside a crawler.* The crawler's own later writes restore or stamp the
  watermark. (The history `wipedLive`.)
- *A burst of keys.* `evict_if_full` forgets at most one key per claim, so the table
  is not brought back to its cap (`docs/protocol.md:183` says at most 128 are
  retained).
- *The live search* returns the helper's exit and leaves the dead generation in
  the handle, where the next call meets it.
- Not modelled, but seen: the server never waits for the crawler it spawned, so a
  dead one is a zombie and looks alive while the server lives
  (`bite-mcp/src/index.rs:724`); the watermark is stamped at the end of a crawl
  whose windows end at its start (`MailCrawler.swift:402`); an account that cannot be
  listed is passed over when another one answers (`MailCrawler.swift:488`); a
  config is compared and then renamed over (`bite-mcp/src/clients.rs:922`).

### Release

- No step of the workflow compares the tag with the version in `Cargo.toml`, and
  "already exists" counts as published. A tag on a commit whose version was
  not raised ends green having published nothing, or mixes crates of two commits;
  so does a tag that is moved after a partial publish. (The guards of
  `CratesComeTogether`.)
- An entry with neither a number nor a `###` above it passes the guard and stays under
  `[Unreleased]`.
- A branch cut before a fold and merged after it can put its entry into the section
  that has shipped; the next release does not report it, though its commit is in it.
- The check after the write of `--fold` can never fail (`FoldsConform`), and the
  write itself is not atomic.
- `git_evidence.py` counts merges off the first-parent line, but measures only those on it.

### Memlog, tickets

- `memlog.py` promises that entries are only ever appended, that every command is an
  atomic write, and that no crash leaves half an entry (lines 20-39). It takes no lock and has one temporary name: two
  commands that overlap lose an entry, tear the text, or one of them fails. (The history
  `overlapped`.)
- A name in `after` can change its meaning: an entry that has the name of a tracker id, or of
  an epic, is found by it once it is pulled, and a plan that names such a file before it is
  there joins the ticket then. (`WellNamed`, `PlansNameFiles`.)
- `tickets.py` writes the key of a prerequisite "as the plan writes it" (line
  563). For a leaf file without an id that is `epic-a/story-loose.md`,
  which no reader takes for a reference: after the `pull` of an entry that waits for such a
  file every command on the tree fails. (`Trees <- MCLooseTrees`:
  `WrittenRefsResolve`; `Writable`.)
- A row's printed `ref` is empty or means two tickets when two leaf files of
  the tree have one name, or when an epic is not in the initiative's list
  (`RefFinds` is asked where neither is so, `Findable`).
- A `mark` that is killed between opening and writing leaves an empty plan that
  later marks refuse; one that overlaps a build's edit loses it.
- Setting `dropped` on a prerequisite blocks its dependents for ever, as the script's own
  text says; `NoStall` therefore allows it.

### Setup, cleanup, renderer

- The renderer makes its folders with `parents=True`. A render in the gap between
  setup's two renames makes a new `_bmad`, and then neither the move in nor the restore succeeds: the
  user's tree stays under `_bmad.old-*`. A kill in the gap leaves no `_bmad`. (The
  histories `stolen`, `killed`; `EditsSurvive` accepts the old tree under
  its backup name.)
- Of two renames in a row, `a` to `b` and `b` to `c`, one setup carries the customization of `a` to
  `b` only, and the next one on to `c`, though nothing else changed. (The guard `RenamedTwice` of
  `SetupSettles`.)
- A module that asks for its own record: a member that starts compares the version it asks for, status
  passes over what a record asks of itself. (The guard `circular` of `StatusIsHonest`.)
- Two setups at once can destroy edits. (`Setups <- MCSetups` with the guard
  `clashed` dropped; the state space is then too large for a run.)
- `config.user.toml` is written as planned and a rename's target is overwritten: an
  edit between plan and copy is lost (the history `raced`).
- "An immutable project snapshot" (`render_skill.py:6`): a setup that copied `_bmad`
  while a generation was staged swaps in a tree that lacks it or has its stale staging folder, and a
  render that goes on writing meets another tree. (`SnapshotsAreWhole`.) A render in the gap reads the
  missing layers as empty. A killed one leaves its `.staging-*` for ever. Backup names have the granularity of a second.
- `setup_check.py` looks beside the skill only, so that a record in another root
  is owed at every start; a membership that does not match never settles.
- Setup takes records by folder name across the roots, the knowledge index root by
  root, and the customizer the first copy: they agree while a code is declared in
  one root (`ScannersAgree`).
- A skill that a module lists and that is installed without a `bmod.toml` is among
  the `installed_skills` of the module's documents, and no member of the module for setup
  (`OffersAgree` compares the skills that declare themselves).
- A cleanup rewrites a lock from what it read at the start and loses what the CLI
  added meanwhile; killed, it leaves entries without copies, or a lock cut short
  at which later cleanups stop. It does not see a folder the host did not
  pass: with a copy left there the entry goes all the same.
  (`StartDisks <- MCHiddenDisks`: `EntryOutlivesCopies`.)
- A knowledge entry that names `help/help.md` is accepted by setup, reported as
  "twice" by the index, and its `skills` are lost; a `knowledge` that is no
  list hides the module's own help; setup refuses repeated skill names, the
  index does not.
- A roster member whose first definition names a skill that is not installed hides
  a second definition whose skill is.

### Rooms and catalogs

- "The full code still works" (`resolve_party.py`): not for a code that somebody
  else has as a name. (The guard `names` of `RoomKeepsItsAgents`.)
- "Both skills see the same room" (`resolve_personas.py`): the two shorten codes
  differently, and of two claims to a name party mode keeps the last and the forge the
  first. (The guards of `RoomsAgree`.) The forge's rooms with and without party mode differ too when the
  code of one member is the name of another, or two members find one person (`Doubled`, `Confused`),
  and in those a member that party mode ships stands for (`ShippedFor`). Without party mode the forge merges the
  user's layers shallowly, and a broken layer drops only itself, where with it all
  customizations are dropped.
- An `[agents]` entry of the central config promotes a guest to the
  default room, though `roster.py` says guests never are.
- An extra method that brings a number that is taken cannot be reached by it (the
  guard of `CatalogsAgree`).

## Proofs

For every number of keys, threads, calls, attempts, processes and workers, and
every cap and bound:

| Theorem | Module | States |
|---|---|---|
| `TableStaysSound` | `ToolCallProofs` | `TableIsSound`, from `TypeCorrect` and `QueueNeverDrifts` |
| `EvictionStaysOrderly` | `ToolCallProofs` | `EvictionIsOrderly`, from `PinsAreForgottenLast`, a claim's own step and growth's |
| `ClaimsAreOwned`, `SettledIsFinal` | `ToolCallProofs` | a key is in flight exactly while a thread owes its ending (`InFlightIffOwed`); a settled outcome stays until it is evicted (`OutcomesAreFinal`): proved, with no run of their own |
| `CallsStaySound` | `BridgeClientProofs` | `CallsAreSound`, from `TypeCorrect`, `OutcomesAreHonest`, `RequestsNeverDouble`, `WaitersAreTold`, `PendingIsSound` |
| `ClientImplementsContract` | `BridgeClientProofs` | the bridge refines `CallContract` |
| `CallsStaySound` | `ToolCallProofs` | `CallsAreSound`, from `CallsTakeEffectOnce`, `KeysTakeEffectOnce`, `FreeKeysAreSafe`, `ClaimsAreExclusive`, `PinsAreJustified` and two more invariants |
| `CallsKeepThePromise` | `ToolCallProofs` | the calls refine `AtMostOnce` |
| `ControlStaysSound` | `CrawlControlProofs` | `ControlIsSound` when no crawl is of one mailbox only, from `TypeCorrect`, `OneCrawlerAlways`, `MarksAreEarned`, `DeltasAreBased`, `RespawnsBackOff` |
| `CancelsStick` | `CrawlControlProofs` | `CancelSticks` |
| `CallsDriveTheTable` | `ToolCallProofs` | the calls refine `KeyTable`, with the claims' owners for its threads |
| `RecyclesAreOwn` | `ToolCallProofs` | `OnlyItsOwnFailureRecycles` |
| `IndexStaysSound` | `IndexIngestProofs` | `IndexIsSound`, from `TypeCorrect`, `PurgesLast`, `StagedRecordsSurvive` |
| `RowsOnlyAdvance` | `IndexIngestProofs` | `NeverBackwards` |
| `LogIsNeverTorn` | `WorkspaceProofs` | `NeverHalfWritten` |
| `AcknowledgedStays` | `WorkspaceProofs` | `AckedIsKept` |
| `LogOnlyGrows` | `WorkspaceProofs` | `AppendOnly` |
| `EditsAlwaysSurvive` | `WorkspaceProofs` | `EditsSurvive` |
| `StatusStaysHonest` | `WorkspaceProofs` | `StatusIsHonest` |
| `SetupAlwaysSettles` | `WorkspaceProofs` | `SetupSettles` |
| `SnapshotsAlwaysHold` | `WorkspaceProofs` | `SnapshotsHold` |
| `CratesStayTogether` | `DeliveryProofs` | `CratesComeTogether` |
| `TagsStayHonest` | `DeliveryProofs` | `TagsReportTheirEntries` |
| `FoldsStayConforming` | `DeliveryProofs` | `FoldsConform` |
| `EvidenceStaysExact` | `DeliveryProofs` | `EvidenceAddsUp` |
| `TicketsStaySound` | `DeliveryProofs` | `TreeStaysSound` |
| `TicketMarksStand` | `DeliveryProofs` | `MarksStand` |
| `TicketsNeverStall` | `DeliveryProofs` | `NoStall` |
| `TicketRefsFind` | `DeliveryProofs` | `RefFinds` |
| `WalkIsSoundTheorem` | `MailWalkProofs` | `WalkIsSound`, from `TypeCorrect`, `WidthsAreUnambiguous`, `NoHolesTheorem`, `CancelTheorem` |
| `PlanIsContiguous` | `MailWalkProofs` | the ranges of `Cut` follow each other from `start` to `end`, none wider than a chunk or as wide as what is avoided |
| `ScanIsGood` | `MailWalkProofs` | what a scan of any rows collects, counts and tells |
| `CopiesAreSafe` | `SkillCleanupProofs` | `LastCopyStays` |
| `LocksStayInStep` | `SkillCleanupProofs` | `LocksFollowDisk` |
| `ReadersAgree` | `SkillCleanupProofs` | `ScannersAgree` |
| `OffersAreExact` | `SkillCleanupProofs` | `OffersAgree` |
| `NearestAlwaysWins` | `SkillCleanupProofs` | `NearestWins` |
| `CatalogsAlwaysAgree` | `SkillCleanupProofs` | `CatalogsAgree` |
| `RoomAlwaysKeepsItsAgents` | `SkillCleanupProofs` | `RoomKeepsItsAgents` |
| `RoomsAlwaysAgree` | `SkillCleanupProofs` | `RoomsAgree` |

Assumptions: the named `ASSUME`s of the modules, which only say what kind of thing
each parameter is, and for `DeltasAreBased` and `ControlStaysSound` that `Jobs` has no `"filtered"`.
The exceptions the properties themselves make remain: no `ingest_pending` (and for
`NeverBackwards` no wipe) for the index, no overlapping commands for the memlog, no moved
tag and no version that was not raised for the crates of one version. `MailWalk` assumes that
half a chunk is narrower than the avoided width (`MailWalkAssumption`; in the code 6 and 7), or
a halved range could be as wide as that; `NoHoles` is about a walk
that was `Oriented` and `Anchored` in a `Readable` mailbox, which say where a walk by
position can be right at all. Of `_bmad` the theorems assume that the trees to start from are
trees, whose generations are whole (`SetupAssumption`, `RuntimeAssumption`), that a question's key is
none of the template's and its scope is one of the two (`TreeAssumption`; `setup.py` refuses others), and the
histories the four properties name: `clashed`, `raced`, `crossed`, `stolen`, `killed`.
Of tickets they assume that the trees to start from are trees (`IsTree` in `TicketsAssumption`) and, as
a hypothesis, `WellKept`: a name means one thing, a plan that has no id names a file that is there or that no
entry will get, and what an entry waits for can be written. Each part excludes a case in which the code itself
goes wrong (the section before this one). `TicketRefsFind` also assumes `Findable`: folders with
ids are epics of the initiative's list, and a leaf file without an id has a name of its own. TLC evaluates both
on the trees of the run (`MCTreesAreWellKept`). The exception `overlapped` remains, and in the
properties `torn`. Of customizations they assume that layers, calls, rows and groups are lists of
items (`CustomizationAssumption`), that the skill ships its review layers with an id each and the
catalogues their rows with a name and a number each (`ShippedAssumption`: the shipped
`customize.toml` and `.csv` files), and that a member of a roster and an agent of the central config have a
code (`add_member` takes none without one; the config's agents are keyed by it), and a group an id, which the
rosters offer once (`add_group`; the user's are merged by it). `RoomsAgree` makes exceptions of its own: rooms in
which two people claim a token (`Confused`) or two members find one person (`Doubled`), codes whose two short forms
differ, and whom a shipped member stands for (`ShippedFor`).

- *KeyTable.* `TypeOK`, `QueueMatchesMap` and `InFlightIffOwed` are inductive
  together: eviction removes a position of the queue and its key from the map, and
  needs the injectivity of the queue to know that no other entry names it. That the
  table grows only when all is in flight needs a least position among those of any
  finite queue (`LeastMember`), so that a full table with a settled key has a victim.
  The proofs stand in `ToolCallProofs`, about the instance `Table` of `KeyTable`. That
  module assumes threads that end each claim once; `CallsDriveTheTable` proves that the calls of
  `ToolCall` are such threads, with `owed` the keys of the calls that own a claim.
- *BridgeClient.* The properties are not inductive alone. `Fresh` says that a request
  is nowhere before it is written; `PipeIsHonest` and `ChannelIsHonest`
  that a message on its way already tells the truth; `DeathIsFinal` that the
  reader has passed end of file only of a process that is gone.
- *ToolCall.* An attempt is *loose* if it was made and was not promised to have no
  effect. The invariant says for each thread which of its two attempts may be loose
  (`ThreadsAreSound`), and for each remembered key that all loose attempts
  under it are the same one, none if it is free (`KeysAreSound`). An effect is
  always that of a loose attempt, so the properties follow.
- *CrawlControl.* `Prepared` ties a write under way to its worker. Each property
  has an invariant of its own. `Apart`: without a race at most one process is
  between its look at the pidfile and its own entry; until it launches nobody
  runs, then only its worker, and otherwise only what the pidfile names.
  `Earned`: marks in the file and in writes under way are those of crawls that
  walked every window, and only those reach the mirrors. `Final`: once the handler has
  written, the file and any write past its second look say `cancelled`.
  `Based`: a mark, and a planned delta, stand for a complete crawl; a
  mark under way is exempt only while its own crawl is stamping it. `Paced`: the
  failure count of the file, and of a write under way, is at least the number of crawls
  that failed since the last good one, so that the refresh that launches has seen it.
- *IndexIngest.* The invariant has three layers. First, a process in the middle of a call
  is where its target, its lock and its listing say. Second, without `ingest_pending`
  whoever works on the table holds the writer lock (`Exclusive`), so that the scopes it
  has read still cover those recorded (`Careful`), and a purged container stays empty.
  Third, a listing is *complete* (with a batch it has every older one that is staged), rows
  are *merged* before files are removed, and files are removed oldest first, so that a
  batch that is *gone* leaves no older one behind; therefore the newest record found for a
  row is never older than the row, and a record leaves staging only for the table.
- *Memlog.* While no two commands overlapped, the only command between read and rename
  edited the log as it still is and writes an inode that is neither the log nor the log on
  the medium (`Prepared`, `Stored`); it renames that inode once it is on the medium. So a
  power loss finds a whole log that is an earlier stage of this one (`Behind`). Once two
  commands overlap nothing is promised: the invariant is `overlapped \/ Sound`.
- *BmadRuntime.* The invariant about edits ties the copy a setup works on to the folder it
  will replace: until the swap the copy has each of the user's values that `_bmad` has
  (`Covers`), the plan undoes none of them (`Spares`), and while the old folder is aside it has what
  the copy has (`Tended`); so each value is in `_bmad` or in a folder nobody is about to delete
  (`Safe`). It needs that folders aside have one owner each (`Ordered`, `Owned`) and that
  without a clash all setups but one wait at their copy (`Apart`). `StatusIsHonest` follows from the
  shape of the tree alone: what status and setup compute are two functions of it. For
  `SetupSettles`, a calm setup's plan fits the tree it was made for (`PlanOf`), staging that plan
  leaves a tree that owes nothing (`Done`), and that stays so until somebody else writes
  (`Settling`). The attempt to prove it showed the two renames in a row, and the proof of
  `StatusIsHonest` the module that asks for its own record: both are exceptions now.
  For `SnapshotsHold`, what a renderer has staged and has still to write are together a whole
  generation (`Writing`) while no setup crossed it; and the generations callers follow are in
  `_bmad`, in the copy of every setup past its copy, and in what it moved aside (`Followed`). TLC
  checks each of these invariants on the instance of the run and with two setups.
- *Release.* Commits only get appended, so a commit is what it was when it was tagged and a
  workflow that is run again publishes the same version. Crates before the one a workflow
  is at are on the index under that version (`Behind`), and each crate on the index came
  from a commit that is still tagged, or a tag was moved (`Origins`).
  About changelogs the invariant is `Repository`: parents are earlier commits (`Rooted`), and each
  commit's changelog has every entry its history wrote (`HasEntries`), because a merge, a fold and
  an edit by hand carry over what the parents have (`Carries`, `LogsGrow`); its sections share no
  entry while all versions were folded. A tag past the guard still passes it (`Guarded`), and a
  guard that passes leaves nothing with a number or under a heading in `[Unreleased]`, so those
  entries stand in a version section. TLC checks
  both parts on the instance of the run.
  About evidence: what is parsed from what git prints is a sum over commits, newest first, that
  counts each one's first block (`PrintedAddsUp`). Downward from the end of the line, the merges
  above a commit and the other commits above it add what the end's history has beyond that of
  the nearest commit of the line (`LineAddsUp`): a merge adds what its history has beyond its
  first parent's, any other commit its own line. This needs that lines run through histories
  and are lines themselves (`LineRuns`).
- *Tickets.* What a row is without what its plan says is its *core*; the cores tell keys,
  what references resolve to, what waits for what and drift (`TicketsAreCores`, `WaitsIs`). A plan
  file changes no core, and a tree with the same cores reads alike (`SameReading`), so that a mark leaves what loads
  loading. A pull replaces an entry's core by a leaf file's with the same key, so that numbers
  resolve as before; names do because nothing else was called so (`WellNamed`), and the prerequisites
  it writes are read back as the same keys, from every folder (`WrittenMeans`); so nothing waits for
  anything it did not wait for before, and no circle closes. The invariant is `overlapped \/ Steady`: the tree is in order, one
  command is at work and writes what joins its own ticket (`JobsHold`), each ticket that was
  marked has one plan, which says so (`MarksHold`), the body a build wrote is in its plan or in the text
  a mark has read it into (`BuiltsHold`), and pulled leaves keep what their entries say.
  `NoStall` is a fact about trees that load: if all that is left waits and nothing is in the way, the
  tickets left and the epics they wait for each wait for one of them, and the search for
  circles, a pair of recursive functions, would have found that (`CycleIn`).
- *MailWalk.* `PlanOK`: what is left to read is a gapless run of ranges, upward from some
  position or downward to one, and each message of the window that is not
  collected lies in one of them (`NoHoles` follows when nothing is left).
  A range that is read, halved, passed or gone keeps this, and so does a mailbox that
  moves, as far as it is `Anchored`. That a walk may stop at an edge needs the scan: an
  edge is more rows beyond the window than there are mis-dated messages, so one of them
  lies where its date says, and then nothing of the window comes after it. The other conjuncts say that the mailbox
  holds each message once and in order (`MailOK`), that the counters fit (`BookOK`,
  `CountOK`), that what was collected is pending or staged (`BatchesOK`), and what the
  handler owes (`HandlerOK`).
- *SkillCleanup.* `CleanersSound` says what a cleanup has in hand: nothing before it has read the
  locks and after it has ended, and while it deletes, the lock of every scope its paths are in.
  For the last copy, each skill that has to stay is reached through some active root, and nobody
  is about to delete the entry there or the folder it leads to (`CopiesStay`): a removal of copies
  keeps, of those that resolve to one folder, the first, so what it deletes is never what the kept
  link leads to. For the locks, one that was read or can be read lists all that is there where a
  cleanup looks (`LocksHold`); and while no two cleanups overlapped and none was killed, only what is
  there and what the one cleanup is about to delete (`Alone`).
  The readers are functions of the disk, so `ScannersAgree` and `OffersAgree` hold of any disk with
  folders and links (`Disks`); of the state the theorems use only that. A record is the
  first name in folder order among those that declare the code (`FirstOfFacts`), and the scan's
  are the same names once no two of them lie in different roots. What is offered is a sum
  over a record's entries, about which `Offered` says after any number of them: each
  document is one of them, no two have one path, every entry that reads has its document, and what
  is refused is malformed or repeats a path.
- *Customization.* Merging is one loop, and after any number of its steps the list has each code of the items
  so far once, with the item written last, in the order of first appearance (`MergeOf`); merging team and
  then user gives what one merge of all files gives (`StandsFor`), and so do a call's layers on top. For the
  catalogues, what `brain.py` and `pick_methods.py` have after any number of extras agrees row by row in
  names and origins (`Alike`), and the free numbers are above all others (`IsNumbered`).
  For rooms the invariant of registration is `RoomSound`: a person in the pool is under its own code, a code
  finds its own unless it is somebody's name, and a token that is neither a code nor a name belongs to the one
  that owns it; once two have claimed a short form nobody owns it. That a roster's agents have a seat
  each needs that `add_member` takes a code once (`OneEach`).
  That two rooms agree is an argument about who claims what. Where no two claim one token (`Single`), whoever
  comes claims only what is theirs, and a member stands for the one its code finds at the end (`ComerFits`),
  because codes found stay found (`Stayed`); then no registration takes a token from anybody, and `register` of
  party mode and of the forge both do no more than enter three tokens (`RegisterPlain`, `WitnessPlain`), one
  after the other in step (`Lockstep`). Where moreover no two members find one person, each stands for whom it
  would stand for alone (`Placed`), so that a room is the same for any list with the same members: and what the
  forge reads itself is in what party mode merges, which has nothing else but what was shipped (`WrittenKept`).
- *Recursive functions.* The plan and the scan of `MailWalk`, the documents of `Knowledge`, the search for circles of `TicketTree`, the folds of `Layering` and `Rooms`, and the histories, lines, prints and sums
  of `GitEvidence` are functions defined on the numbers up to n. That
  such a function satisfies its equation, and what it computes, is proved from the least counterexample
  (`WFMin` and `NatLessThanWellFounded` of the library, in the lemma `Induction`): the set of
  the numbers for which the fact holds is a superset of `Nat`.

Only model-checked: every liveness property (`EveryCallReturns`,
`EveryBatchTaken`, `WalkEnds`, `SelfHeals`) and `NoCallIsStuck`, which has an `ENABLED`: both are out of the
prover's reach.

## Not modelled

The components `PROJECT.json` lists as `not_modelled`, each with its reason:
calls into Apple frameworks, argument parsing, output, diagnostics, and trust
checks are sequential or I/O; dates, formats, linters and kits are pure and have unit tests.

## Plan

Next, in this order:

1. `FtsRefresh`: crawl state, staging, throttled ingest, refresh and
   marker; abstract promise: a marked crawl is folded in completely.
2. `CrawlWindows`: the windows of `crawlPlan`, the overlap and the listing of
   accounts, with a clock; promise: no mail falls between two completed crawls.
3. The command line's retry rule as a second kind of call in `ToolCall`.
4. `BulkOperation`: the identity checks before each event of a bulk job and its
   end by SIGTERM; promise: no event goes to a mailbox known to have moved.
5. `JobRegistry`: retention under reports out of order.
6. `ConfigWrite`: the guarded atomic write against an editor and a crash.

----------------------------- MODULE CrawlControl -----------------------------
(***************************************************************************)
(* The detached crawler and those who start, cancel and watch it: several  *)
(* bite processes (crates/bite-mcp/src/index.rs) and the bite-crawl        *)
(* workers they launch (main.swift, MailCrawler.runJob and writeState),    *)
(* which share two files, crawl.pid and crawl-state.json.                  *)
(*                                                                         *)
(* Workers are numbered by their pids in the order they are launched; no   *)
(* pid is used twice.  A worker writes crawl-state.json in two steps: it   *)
(* reads what the write preserves, then replaces the file under stateLock. *)
(* "running" stands for waiting_mail too, "done" for partial; the walk of  *)
(* the mailboxes is one stage; cooldowns, the age of the state and of the  *)
(* mark are choices.  The mark of the file is the worker that stamped      *)
(* mail_completed_at.  A terminal write and the progress write that        *)
(* repeats it are one; a write of the file that fails is left out.  A      *)
(* worker that has ended is found dead.                                    *)
(***************************************************************************)
EXTENDS Naturals, FiniteSets

CONSTANTS
    Procs,       \* bite processes
    Users,       \* those whose users start, cancel and wipe
    Jobs,        \* kinds of job a user starts: crawl, filtered, bulk
    MaxFailures, \* failures in a row before respawns are held back (5)
    MaxSpawns,   \* workers ever launched (bound of the model)
    MaxMishaps,  \* deaths and wipes (bound of the model)
    ActAfterRace \* users go on after launches overlapped, a live worker lost its
                 \* pidfile or was wiped beside (FALSE: bound of the model)

ASSUME CrawlAssumption ==
    /\ Users \subseteq Procs
    /\ Jobs \subseteq {"crawl", "filtered", "bulk"}
    /\ MaxFailures \in Nat /\ MaxSpawns \in Nat /\ MaxMishaps \in Nat
    /\ ActAfterRace \in BOOLEAN

Workers == 1..MaxSpawns

VARIABLES
    file,      \* crawl-state.json
    pidfile,   \* crawl.pid, 0 when there is none
    pc,        \* process -> where it is
    job,       \* process -> the job it is about to launch
    child,     \* process -> the worker it launched, or is about to cancel
    wpc,       \* worker -> where it is
    kind,      \* worker -> its job
    plan,      \* worker -> full or delta
    pre,       \* worker -> preJobFailures
    buf,       \* worker -> what its main thread is writing, and where it goes then
    term,      \* worker -> its SIGTERM handler: none, quiet, stop, written
    mishaps,   \* deaths and wipes so far
    walked,    \* workers that walked every window (history variable)
    covered,   \* all mail behind the mark was crawled and not wiped
               \* since (history variable)
    unbased,   \* workers that planned a delta without that (history variable)
    flops,     \* crawls in a row whose last word was failed (history variable)
    raced,     \* launches overlapped, or the pidfile of a live worker was
               \* removed or never written (history variable)
    wipedLive  \* workers that were alive at a wipe (history variable)

fileVars == <<file, pidfile>>
procVars == <<pc, job, child>>
workerVars == <<wpc, kind, plan, pre, buf, term>>
histVars == <<walked, covered, unbased, flops, raced, wipedLive>>
vars == <<fileVars, procVars, workerVars, mishaps, histVars>>

NoFile == [state |-> "never_run", by |-> 0, failures |-> 0, mark |-> 0]
NoWrite == [file |-> NoFile, then |-> "none"]

Init ==
    /\ file = NoFile /\ pidfile = 0
    /\ pc = [p \in Procs |-> "idle"]
    /\ job = [p \in Procs |-> "crawl"]
    /\ child = [p \in Procs |-> 0]
    /\ wpc = [w \in Workers |-> "unborn"]
    /\ kind = [w \in Workers |-> "crawl"]
    /\ plan = [w \in Workers |-> "full"]
    /\ pre = [w \in Workers |-> 0]
    /\ buf = [w \in Workers |-> NoWrite]
    /\ term = [w \in Workers |-> "none"]
    /\ mishaps = 0
    /\ walked = {} /\ covered = FALSE /\ unbased = {} /\ flops = 0
    /\ raced = FALSE /\ wipedLive = {}

Alive(w) == w # 0 /\ wpc[w] \notin {"unborn", "gone"}
Live == {w \in Workers : Alive(w)}
Unborn == {w \in Workers : wpc[w] = "unborn"}

Mishap == mishaps < MaxMishaps /\ mishaps' = mishaps + 1

Goes(p, from, to) == pc[p] = from /\ pc' = [pc EXCEPT ![p] = to]

\* Processes that found no crawler and have not put their own on file yet.
Launching == {p \in Procs : pc[p] \in {"clear", "launch", "record"}}

-----------------------------------------------------------------------------
(***************************************************************************)
(* spawn_crawl and bulk_spawn.                                             *)
(***************************************************************************)

\* Crawlers are kept apart and none has been wiped beside.
Calm == ~raced /\ wipedLive = {}

\* Where the operations start.
Free(p) == pc[p] = "idle" /\ (Calm \/ ActAfterRace)

\* index_rebuild, mail_bulk_*: a user starts a job.
Start(p) ==
    /\ Free(p) /\ Goes(p, "idle", "probe")
    /\ \E j \in Jobs : job' = [job EXCEPT ![p] = j]
    /\ UNCHANGED <<fileVars, child, workerVars, mishaps, histVars>>

\* respawn_eligible.
RespawnEligible(stale) ==
    \/ file.state = "never_run"
    \/ file.state = "failed" /\ file.failures < MaxFailures
    \/ stale

\* auto_refresh_if_stale: the cached look at a running crawler comes first.
AutoRefresh(p, stale) ==
    /\ RespawnEligible(stale)
    /\ ~(file.state = "running" /\ Alive(pidfile))
    /\ Free(p) /\ Goes(p, "idle", "probe")
    /\ job' = [job EXCEPT ![p] = "crawl"]
    /\ UNCHANGED <<fileVars, child, workerVars, mishaps, histVars>>

\* Faulty variant of Probe: a pidfile is proof enough.
ProbeTrusting(p) ==
    /\ pc[p] = "probe"
    /\ pc' = [pc EXCEPT ![p] = IF pidfile # 0 THEN "idle" ELSE "launch"]
    /\ raced' = (raced \/ (pidfile = 0 /\ Launching # {}))
    /\ UNCHANGED <<fileVars, job, child, workerVars, mishaps, walked, covered, unbased,
                   flops, wipedLive>>

\* live_crawler_pid: what the pidfile names is alive, is dead and has its
\* pidfile removed in a step of its own, or there is none.
Probe(p) ==
    /\ pc[p] = "probe"
    /\ pc' = [pc EXCEPT ![p] = IF Alive(pidfile) THEN "idle"
                               ELSE IF pidfile # 0 THEN "clear"
                               ELSE "launch"]
    /\ raced' = (raced \/ (~Alive(pidfile) /\ Launching # {}))
    /\ UNCHANGED <<fileVars, job, child, workerVars, mishaps, walked, covered, unbased,
                   flops, wipedLive>>

\* The pidfile is removed, whomever it names by now.
RemovePidfile ==
    /\ pidfile' = 0
    /\ raced' = (raced \/ Alive(pidfile))

ClearStale(p) ==
    /\ Goes(p, "clear", "launch")
    /\ RemovePidfile
    /\ UNCHANGED <<file, job, child, workerVars, mishaps, walked, covered, unbased, flops,
                   wipedLive>>

Launch(p) ==
    /\ Goes(p, "launch", "record")
    /\ \E w \in Unborn :
          /\ \A v \in Unborn : w <= v
          /\ wpc' = [wpc EXCEPT ![w] = "first"]
          /\ kind' = [kind EXCEPT ![w] = job[p]]
          /\ child' = [child EXCEPT ![p] = w]
    /\ job' = [job EXCEPT ![p] = "crawl"]
    /\ UNCHANGED <<fileVars, plan, pre, buf, term, mishaps, histVars>>

RecordPid(p) ==
    /\ Goes(p, "record", "idle")
    /\ pidfile' = child[p]
    /\ child' = [child EXCEPT ![p] = 0]
    /\ UNCHANGED <<file, job, workerVars, mishaps, histVars>>

-----------------------------------------------------------------------------
(***************************************************************************)
(* index_crawl_cancel.  Its first look stands for every look at the        *)
(* pidfile: index_status, too, takes a dead worker off file.               *)
(***************************************************************************)
CancelProbe(p) ==
    /\ Free(p)
    /\ IF Alive(pidfile)
       THEN /\ pc' = [pc EXCEPT ![p] = "kill"]
            /\ child' = [child EXCEPT ![p] = pidfile]
       ELSE /\ pidfile # 0
            /\ pc' = [pc EXCEPT ![p] = "unfile"]
            /\ UNCHANGED child
    /\ UNCHANGED <<fileVars, job, workerVars, mishaps, histVars>>

\* SIGTERM, unless the worker is gone by now.  A worker that has not written
\* "running" yet has not started and will not write anything.
Kill(p) ==
    /\ pc[p] = "kill"
    /\ LET w == child[p] IN
          /\ pc' = [pc EXCEPT ![p] = IF Alive(w) THEN "poll" ELSE "idle"]
          /\ term' = [term EXCEPT ![w] = IF ~Alive(w) \/ @ # "none" THEN @
                                         ELSE IF wpc[w] = "first" THEN "quiet"
                                         ELSE "stop"]
    /\ child' = [child EXCEPT ![p] = IF Alive(@) THEN @ ELSE 0]
    /\ UNCHANGED <<fileVars, job, wpc, kind, plan, pre, buf, mishaps, histVars>>

\* The pidfile is looked at up to twelve times: the worker survived, or the
\* pidfile names another, a dead one, or nobody, and is removed.
Poll(p) ==
    /\ pc[p] = "poll"
    /\ pc' = [pc EXCEPT ![p] = IF pidfile = child[p] /\ Alive(pidfile) THEN "idle" ELSE "unfile"]
    /\ child' = [child EXCEPT ![p] = 0]
    /\ UNCHANGED <<fileVars, job, workerVars, mishaps, histVars>>

Unfile(p) ==
    /\ Goes(p, "unfile", "idle")
    /\ RemovePidfile
    /\ UNCHANGED <<file, job, child, workerVars, mishaps, walked, covered, unbased, flops,
                   wipedLive>>

-----------------------------------------------------------------------------
(***************************************************************************)
(* index_wipe, after the table and the staged batches: crawl-state.json,   *)
(* then crawl.pid.                                                         *)
(***************************************************************************)
WipeState(p) ==
    /\ Mishap
    /\ Free(p) /\ Goes(p, "idle", "unfile")
    /\ file' = NoFile
    /\ covered' = FALSE /\ flops' = 0
    /\ wipedLive' = wipedLive \cup Live
    /\ UNCHANGED <<pidfile, job, child, workerVars, walked, unbased, raced>>

-----------------------------------------------------------------------------
(***************************************************************************)
(* MailCrawler.writeState: what the write keeps is read, cancellation is   *)
(* looked at again under stateLock, the file is replaced.                  *)
(***************************************************************************)
Stopped(w) == term[w] # "none"

\* Faulty variant of Written: any job stamps the mark.
WrittenByAny(w, state, failures) ==
    [state |-> state, by |-> w, failures |-> failures,
     mark |-> IF state = "done" THEN w ELSE file.mark]

\* What w is about to write: only a crawl that is done stamps the mark.
Written(w, state, failures) ==
    [state |-> state, by |-> w, failures |-> failures,
     mark |-> IF state = "done" /\ kind[w] # "bulk" THEN w ELSE file.mark]

\* Nothing but "cancelled" is written once SIGTERM has come.
WriteState(w, state, failures, then) ==
    IF Stopped(w) /\ state # "cancelled"
    THEN wpc' = [wpc EXCEPT ![w] = then] /\ UNCHANGED buf
    ELSE /\ wpc' = [wpc EXCEPT ![w] = "lock"]
         /\ buf' = [buf EXCEPT ![w] = [file |-> Written(w, state, failures), then |-> then]]

\* Faulty variant of Lock: it was looked at before.
LockUnchecked(w) ==
    /\ wpc[w] = "lock"
    /\ wpc' = [wpc EXCEPT ![w] = "replace"]
    /\ UNCHANGED <<fileVars, procVars, kind, plan, pre, buf, term, mishaps, histVars>>

Lock(w) ==
    /\ wpc[w] = "lock"
    /\ wpc' = [wpc EXCEPT ![w] = IF Stopped(w) /\ buf[w].file.state # "cancelled"
                                 THEN buf[w].then ELSE "replace"]
    /\ UNCHANGED <<fileVars, procVars, kind, plan, pre, buf, term, mishaps, histVars>>

Replace(w) ==
    /\ wpc[w] = "replace"
    /\ file' = buf[w].file
    /\ wpc' = [wpc EXCEPT ![w] = buf[w].then]
    /\ buf' = [buf EXCEPT ![w] = NoWrite]
    /\ covered' = IF file'.state # "done" \/ kind[w] = "bulk" THEN covered
                  ELSE kind[w] = "crawl" /\ (covered \/ (plan[w] = "full" /\ w \notin wipedLive))
    /\ UNCHANGED <<pidfile, procVars, kind, plan, pre, term, mishaps, walked, unbased, flops,
                   raced, wipedLive>>

-----------------------------------------------------------------------------
(***************************************************************************)
(* A worker: the run section of main.swift, MailCrawler.runJob and         *)
(* MailBulk.run.  pre is read when "running" has been written.             *)
(***************************************************************************)
Main(w, stage) == wpc[w] = stage /\ term[w] # "quiet"

Begin(w) ==
    /\ Main(w, "first")
    /\ WriteState(w, "running", file.failures, IF kind[w] = "bulk" THEN "bulk" ELSE "crawl")
    /\ UNCHANGED <<fileVars, procVars, kind, plan, pre, term, mishaps, histVars>>

\* crawlPlan: a delta needs a mark, one not too old.
Plan(w) ==
    /\ Main(w, "crawl")
    /\ wpc' = [wpc EXCEPT ![w] = "walk"]
    /\ pre' = [pre EXCEPT ![w] = file.failures]
    /\ \/ /\ plan' = [plan EXCEPT ![w] = "full"]
          /\ UNCHANGED unbased
       \/ /\ file.mark # 0
          /\ plan' = [plan EXCEPT ![w] = "delta"]
          /\ unbased' = IF covered THEN unbased ELSE unbased \cup {w}
    /\ UNCHANGED <<fileVars, procVars, kind, buf, term, mishaps, walked, covered, flops,
                   raced, wipedLive>>

\* Heartbeats of the walk, of the mirrors and of bulk jobs, each written in one
\* step.
Beat(w) ==
    /\ wpc[w] \in {"crawl", "walk", "mirror", "bulk"} /\ ~Stopped(w)
    /\ file' = Written(w, "running", file.failures)
    /\ UNCHANGED <<pidfile, procVars, workerVars, mishaps, histVars>>

\* Mail is not there, does not answer, or a read failed.
CrawlFails(w) ==
    /\ \/ Main(w, "walk")
       \/ Main(w, "crawl") \* before the plan
    /\ WriteState(w, "failed", file.failures + 1, "exit")
    /\ UNCHANGED <<fileVars, procVars, kind, plan, pre, term, mishaps, histVars>>

\* Every mailbox was walked for every window.
WalkEnds(w) ==
    /\ Main(w, "walk") /\ ~Stopped(w)
    /\ WriteState(w, "done", 0, "mirror")
    /\ walked' = walked \cup {w}
    /\ UNCHANGED <<fileVars, procVars, kind, plan, pre, term, mishaps, covered, unbased, flops,
                   raced, wipedLive>>

WalkBreaks(w) ==
    /\ Main(w, "walk") /\ Stopped(w)
    /\ WriteState(w, "cancelled", file.failures, "exit")
    /\ UNCHANGED <<fileVars, procVars, kind, plan, pre, term, mishaps, histVars>>

MirrorsDone(w) ==
    /\ Main(w, "mirror")
    /\ WriteState(w, "done", file.failures, "exit")
    /\ UNCHANGED <<fileVars, procVars, kind, plan, pre, term, mishaps, histVars>>

MirrorsFail(w) ==
    /\ Main(w, "mirror")
    /\ WriteState(w, "failed", pre[w] + 1, "exit")
    /\ UNCHANGED <<fileVars, procVars, kind, plan, pre, term, mishaps, histVars>>

BulkEnds(w) ==
    /\ Main(w, "bulk")
    /\ \E state \in {"done", "failed"} : WriteState(w, state, file.failures, "exit")
    /\ UNCHANGED <<fileVars, procVars, kind, plan, pre, term, mishaps, histVars>>

\* A worker goes, and its memory with it.  Its last word counts.
Gone(w) ==
    /\ wpc' = [wpc EXCEPT ![w] = "gone"]
    /\ kind' = [kind EXCEPT ![w] = "crawl"]
    /\ plan' = [plan EXCEPT ![w] = "full"]
    /\ pre' = [pre EXCEPT ![w] = 0]
    /\ buf' = [buf EXCEPT ![w] = NoWrite]
    /\ term' = [term EXCEPT ![w] = IF @ = "written" THEN @ ELSE "none"]
    /\ flops' = IF kind[w] = "bulk" \/ file.by # w THEN flops
                ELSE IF file.state = "failed" THEN flops + 1
                ELSE IF w \in walked THEN 0
                ELSE flops

Exit(w) ==
    /\ wpc[w] = "exit"
    /\ Gone(w)
    /\ UNCHANGED <<fileVars, procVars, mishaps, walked, covered,
                   unbased, raced, wipedLive>>

\* The handler, once pending records are flushed: it replaces the file when no
\* write holds stateLock (its own reading for that write is one step with it),
\* and exits.
HandlerWrite(w) ==
    /\ term[w] = "stop" /\ Alive(w) /\ wpc[w] # "replace"
    /\ term' = [term EXCEPT ![w] = "written"]
    /\ file' = Written(w, "cancelled", file.failures)
    /\ UNCHANGED <<pidfile, procVars, wpc, kind, plan, pre, buf, mishaps, histVars>>

HandlerExit(w) ==
    /\ term[w] \in {"quiet", "written"} /\ Alive(w)
    /\ Gone(w)
    /\ UNCHANGED <<fileVars, procVars, mishaps, walked, covered,
                   unbased, raced, wipedLive>>

-----------------------------------------------------------------------------
(***************************************************************************)
(* Deaths.                                                                 *)
(***************************************************************************)
WorkerDies(w) ==
    /\ Alive(w) /\ Mishap
    /\ Gone(w)
    /\ UNCHANGED <<fileVars, procVars, walked, covered, unbased,
                   raced, wipedLive>>

\* A process ends wherever it is, or fails to write the pidfile.
ProcessDies(p) ==
    /\ pc[p] # "idle" /\ Mishap
    /\ pc' = [pc EXCEPT ![p] = "idle"]
    /\ job' = [job EXCEPT ![p] = "crawl"]
    /\ child' = [child EXCEPT ![p] = 0]
    /\ raced' = (raced \/ pc[p] = "record")
    /\ UNCHANGED <<fileVars, workerVars, walked, covered, unbased, flops,
                   wipedLive>>

ProcStep(p) ==
    Probe(p) \/ ClearStale(p) \/ Launch(p) \/ RecordPid(p) \/ Kill(p) \/ Poll(p) \/ Unfile(p)

UserStep(p) ==
    \/ p \in Users /\ (Start(p) \/ CancelProbe(p) \/ WipeState(p))
    \/ \E stale \in BOOLEAN : AutoRefresh(p, stale)

WorkerStep(w) ==
    \/ Lock(w) \/ Replace(w)
    \/ Begin(w) \/ Plan(w) \/ Beat(w) \/ CrawlFails(w) \/ WalkEnds(w) \/ WalkBreaks(w)
    \/ MirrorsDone(w) \/ MirrorsFail(w) \/ BulkEnds(w) \/ Exit(w)
    \/ HandlerWrite(w) \/ HandlerExit(w)

Next ==
    \/ \E p \in Procs : UserStep(p) \/ ProcStep(p) \/ ProcessDies(p)
    \/ \E w \in Workers : WorkerStep(w) \/ WorkerDies(w)

Spec == Init /\ [][Next]_vars

\* Operations go on; mail is read through bite now and then, and the state
\* gets stale.  Nothing is asked of the workers.
FairSpec ==
    /\ Spec
    /\ WF_vars(\E p \in Procs : ProcStep(p) \/ AutoRefresh(p, TRUE))

-----------------------------------------------------------------------------
(***************************************************************************)
(* Properties.                                                             *)
(***************************************************************************)
States == {"never_run", "running", "done", "failed", "cancelled"}
Files == [state : States, by : 0..MaxSpawns, failures : Nat, mark : 0..MaxSpawns]

Stages == {"unborn", "first", "crawl", "walk", "mirror", "bulk", "exit", "lock", "replace", "gone"}

TypeOK ==
    /\ file \in Files /\ (file.by = 0 => file = NoFile) /\ pidfile \in 0..MaxSpawns
    /\ pc \in [Procs -> {"idle", "probe", "clear", "launch", "record", "kill", "poll", "unfile"}]
    /\ job \in [Procs -> Jobs \cup {"crawl"}]
    /\ child \in [Procs -> 0..MaxSpawns]
    /\ wpc \in [Workers -> Stages]
    /\ kind \in [Workers -> Jobs \cup {"crawl"}]
    /\ plan \in [Workers -> {"full", "delta"}]
    /\ pre \in [Workers -> Nat]
    /\ buf \in [Workers -> [file : Files, then : Stages \cup {"none"}]]
    /\ term \in [Workers -> {"none", "quiet", "stop", "written"}]
    /\ walked \subseteq Workers /\ unbased \subseteq Workers /\ wipedLive \subseteq Workers
    /\ covered \in BOOLEAN /\ raced \in BOOLEAN
    /\ flops \in Nat

\* "only a genuinely done MAIL crawl stamps it" (MailCrawler.swift:320): the
\* mark is that of a crawl that walked every window, through all rewrites of
\* the file by others, concurrent ones included.
MarkIsEarned == file.mark # 0 => file.mark \in walked

\* "a partial crawl can never advance the delta baseline"
\* (docs/protocol.md:297): no crawl confines itself to a delta unless a crawl
\* of all mailboxes came before it and the index was not wiped since.  It does
\* not hold: a crawl of one mailbox that ends done stamps the mark, too.
DeltaHasBaseline == unbased = {}

\* The same, but for wipes beside a running crawler.
DeltaHasBaselineUnlessWiped == wipedLive = {} => unbased = {}

\* "its terminal state written" (MailCrawler.swift:335): the main thread
\* never writes over the last word of the handler.
CancelSticks ==
    \A w \in Workers : term[w] = "written" /\ file.by = w => file.state = "cancelled"

\* crawl.pid keeps crawlers apart: unless launches overlapped, or the pidfile
\* of a live worker was removed or never written, no two of them run.
OneCrawler == ~raced => \A v, w \in Live : v = w

\* "a crash loop backs off" (index.rs:1011): after MaxFailures crawls that
\* failed in a row, mirrors included, the next one is not eager.
BacksOff ==
    /\ Calm /\ Live = {}
    /\ file.state # "never_run" /\ RespawnEligible(FALSE)
    => flops < MaxFailures

\* What is true of the crawl state, the pidfile and the workers at any moment.
ControlIsSound ==
    TypeOK /\ MarkIsEarned /\ DeltaHasBaselineUnlessWiped /\ OneCrawler /\ BacksOff

\* "if the index is stale/never built and no crawler runs, respawn it"
\* (index.rs:970): a dead crawler never stands in the way of the next one.
SelfHeals == []<>(Live # {} \/ Unborn = {} \/ (~Calm /\ ~ActAfterRace))

=============================================================================

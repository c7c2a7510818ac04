-------------------------- MODULE CrawlControlProofs --------------------------
(***************************************************************************)
(* Proofs about module CrawlControl, for any number of processes, workers, *)
(* deaths and wipes, and whether or not users go on after a race.          *)
(***************************************************************************)
EXTENDS CrawlControl, TLAPS

USE CrawlAssumption

\* A write under way has been prepared by the worker it belongs to.
Prepared ==
    \A w \in Workers :
        wpc[w] \in {"lock", "replace"} =>
            /\ buf[w].file.by = w
            /\ buf[w].then \in {"crawl", "bulk", "mirror", "exit"}

TypeInv == TypeOK /\ Prepared

Writings == [file : Files, then : Stages \cup {"none"}]

\* Contents of the file: none, and what a worker writes.
LEMMA FileFacts ==
    /\ NoFile \in Files /\ NoFile.by = 0 /\ NoWrite \in Writings
    /\ \A f \in Files : f.failures \in Nat /\ f.mark \in 0..MaxSpawns
  BY DEF Files, NoFile, NoWrite, Writings, States

LEMMA WrittenFacts ==
    ASSUME file \in Files, NEW w \in Workers, NEW state \in States, NEW failures \in Nat
    PROVE  /\ Written(w, state, failures) \in Files
           /\ Written(w, state, failures).by = w /\ w # 0
  <1>1. w \in 0..MaxSpawns /\ w # 0
    BY DEF Workers
  <1>2. QED
    BY <1>1 DEF Written, Files

\* What writeState does to the worker that calls it.
LEMMA WriteStateFacts ==
    ASSUME TypeInv, NEW w \in Workers, NEW state \in States, NEW failures \in Nat,
           NEW then \in {"crawl", "bulk", "mirror", "exit"},
           WriteState(w, state, failures, then)
    PROVE  /\ wpc' \in [Workers -> Stages] /\ buf' \in [Workers -> Writings]
           /\ \A v \in Workers \ {w} : wpc'[v] = wpc[v] /\ buf'[v] = buf[v]
           /\ \/ wpc'[w] = then /\ buf'[w] = buf[w] /\ Stopped(w) /\ state # "cancelled"
              \/ /\ wpc'[w] = "lock"
                 /\ buf'[w] = [file |-> Written(w, state, failures), then |-> then]
                 /\ ~Stopped(w) \/ state = "cancelled"
  <1>1. file \in Files /\ wpc \in [Workers -> Stages] /\ buf \in [Workers -> Writings]
    BY DEF TypeInv, TypeOK, Writings
  <1>2. then \in Stages /\ "lock" \in Stages
    BY DEF Stages
  <1>3. [file |-> Written(w, state, failures), then |-> then] \in Writings
    BY <1>1, <1>2, WrittenFacts DEF Writings
  <1>4. CASE Stopped(w) /\ state # "cancelled"
    BY <1>1, <1>2, <1>4 DEF WriteState
  <1>5. CASE ~(Stopped(w) /\ state # "cancelled")
    BY <1>1, <1>2, <1>3, <1>5 DEF WriteState
  <1>6. QED
    BY <1>4, <1>5

LEMMA InitType == Init => TypeInv
  <1> SUFFICES ASSUME Init PROVE TypeInv
    OBVIOUS
  <1>1. file \in Files /\ buf \in [Workers -> Writings]
    BY FileFacts DEF Init
  <1>a. 0 \in 0..MaxSpawns
    BY CrawlAssumption
  <1>b. covered \in BOOLEAN /\ raced \in BOOLEAN /\ flops \in Nat
    BY DEF Init
  <1>2. /\ file.by = 0 => file = NoFile
        /\ pidfile \in 0..MaxSpawns
        /\ child \in [Procs -> 0..MaxSpawns]
        /\ walked \subseteq Workers /\ unbased \subseteq Workers /\ wipedLive \subseteq Workers
    BY <1>a DEF Init
  <1>3. /\ pc \in [Procs -> {"idle", "probe", "clear", "launch", "record", "kill", "poll", "unfile"}]
        /\ job \in [Procs -> Jobs \cup {"crawl"}]
    BY DEF Init
  <1>4. /\ wpc \in [Workers -> Stages]
        /\ kind \in [Workers -> Jobs \cup {"crawl"}]
        /\ plan \in [Workers -> {"full", "delta"}]
        /\ pre \in [Workers -> Nat]
        /\ term \in [Workers -> {"none", "quiet", "stop", "written"}]
    BY DEF Init, Stages
  <1>5. TypeOK
    BY <1>1, <1>2, <1>b, <1>3, <1>4 DEF TypeOK, Writings
  <1>6. Prepared
    BY DEF Init, Prepared
  <1>7. QED
    BY <1>5, <1>6 DEF TypeInv

\* A step of a process leaves the writes of the workers alone.
LEMMA ProcessType ==
    ASSUME TypeInv, NEW p \in Procs, UserStep(p) \/ ProcStep(p) \/ ProcessDies(p)
    PROVE  TypeInv'
  <1> USE DEF TypeInv, TypeOK, Prepared, fileVars, procVars, workerVars, histVars, Goes
  <1>1. CASE Start(p)
    BY <1>1 DEF Start
  <1>2. ASSUME NEW stale, AutoRefresh(p, stale) PROVE TypeInv'
    BY <1>2 DEF AutoRefresh
  <1>3. CASE Probe(p)
    BY <1>3 DEF Probe
  <1>4. CASE ClearStale(p)
    BY <1>4 DEF ClearStale, RemovePidfile
  <1>5. CASE Launch(p)
    BY <1>5 DEF Launch, Unborn, Workers, Stages
  <1>6. CASE RecordPid(p)
    BY <1>6 DEF RecordPid
  <1>7. CASE CancelProbe(p)
    BY <1>7 DEF CancelProbe
  <1>8. CASE Kill(p)
    <2>1. term' \in [Workers -> {"none", "quiet", "stop", "written"}]
      BY <1>8 DEF Kill
    <2>2. child' \in [Procs -> 0..MaxSpawns]
      BY <1>8 DEF Kill
    <2>3. QED
      BY <1>8, <2>1, <2>2 DEF Kill
  <1>9. CASE Poll(p)
    BY <1>9 DEF Poll
  <1>10. CASE Unfile(p)
    BY <1>10 DEF Unfile, RemovePidfile
  <1>11. CASE WipeState(p)
    BY <1>11, FileFacts DEF WipeState, Live, Mishap
  <1>12. CASE ProcessDies(p)
    BY <1>12 DEF ProcessDies, Mishap
  <1>13. QED
    BY <1>1, <1>2, <1>3, <1>4, <1>5, <1>6, <1>7, <1>8, <1>9, <1>10, <1>11, <1>12
    DEF UserStep, ProcStep

\* The actions of a worker that are one writeState.
Writes(w) ==
    \E state \in States : \E failures \in Nat : \E then \in {"crawl", "bulk", "mirror", "exit"} :
        WriteState(w, state, failures, then)

LEMMA WorkerType ==
    ASSUME TypeInv, NEW w \in Workers, WorkerStep(w) \/ WorkerDies(w)
    PROVE  TypeInv'
  <1> USE DEF fileVars, procVars, workerVars, histVars
  <1>a. ASSUME Writes(w),
               UNCHANGED <<fileVars, procVars, kind, plan, pre, term, mishaps, unbased, flops>>,
               walked' \subseteq Workers, covered' \in BOOLEAN, raced' \in BOOLEAN,
               wipedLive' \subseteq Workers
        PROVE  TypeInv'
    <2>1. PICK state \in States, failures \in Nat, then \in {"crawl", "bulk", "mirror", "exit"} :
              WriteState(w, state, failures, then)
      BY <1>a DEF Writes
    <2>2. /\ wpc' \in [Workers -> Stages] /\ buf' \in [Workers -> Writings]
          /\ \A v \in Workers \ {w} : wpc'[v] = wpc[v] /\ buf'[v] = buf[v]
          /\ \/ wpc'[w] = then /\ buf'[w] = buf[w] /\ Stopped(w) /\ state # "cancelled"
             \/ /\ wpc'[w] = "lock"
                /\ buf'[w] = [file |-> Written(w, state, failures), then |-> then]
                /\ ~Stopped(w) \/ state = "cancelled"
      BY ONLY TypeInv, <2>1, WriteStateFacts
    <2>3. Written(w, state, failures).by = w
      BY <2>1, WrittenFacts DEF TypeInv, TypeOK
    <2>4. Prepared'
      BY <2>1, <2>2, <2>3 DEF TypeInv, Prepared
    <2>5. TypeOK'
      BY <1>a, <2>2 DEF TypeInv, TypeOK, Writings
    <2>6. QED
      BY <2>4, <2>5 DEF TypeInv
  <1>1. CASE Lock(w)
    BY <1>1 DEF Lock, TypeInv, TypeOK, Prepared, Stages
  <1>2. CASE Replace(w)
    <2>1. buf[w].file \in Files /\ buf[w].file.by = w /\ w # 0
      <3>1. w # 0
        BY DEF Workers
      <3>2. buf[w].file \in Files
        BY DEF TypeInv, TypeOK
      <3>3. QED
        BY <1>2, <3>1, <3>2 DEF Replace, TypeInv, Prepared
    <2>2. buf' \in [Workers -> Writings]
      BY <1>2, FileFacts DEF Replace, TypeInv, TypeOK, Writings
    <2>3. covered' \in BOOLEAN
      BY <1>2 DEF Replace, TypeInv, TypeOK
    <2>4. buf[w].then \in {"crawl", "bulk", "mirror", "exit"}
      BY <1>2 DEF Replace, TypeInv, Prepared
    <2>5. wpc' \in [Workers -> Stages]
      BY <1>2, <2>4 DEF Replace, TypeInv, TypeOK, Stages
    <2>6. Prepared'
      BY <1>2, <2>4 DEF Replace, TypeInv, TypeOK, Prepared
    <2>7. TypeOK'
      BY <1>2, <2>1, <2>2, <2>3, <2>5 DEF Replace, TypeInv, TypeOK, Writings
    <2>8. QED
      BY <2>6, <2>7 DEF TypeInv
  <1>3. CASE Begin(w)
    BY <1>3, <1>a DEF Begin, Writes, TypeInv, TypeOK, Files, States
  <1>4. CASE Plan(w)
    BY <1>4, FileFacts DEF Plan, Main, TypeInv, TypeOK, Prepared, Stages
  <1>5. CASE Beat(w)
    BY <1>5, FileFacts, WrittenFacts DEF Beat, TypeInv, TypeOK, Prepared, States
  <1>6. CASE CrawlFails(w)
    BY <1>6, <1>a DEF CrawlFails, Writes, TypeInv, TypeOK, Files, States
  <1>7. CASE WalkEnds(w)
    BY <1>7, <1>a DEF WalkEnds, Writes, TypeInv, TypeOK, Files, States
  <1>8. CASE WalkBreaks(w)
    BY <1>8, <1>a DEF WalkBreaks, Writes, TypeInv, TypeOK, Files, States
  <1>9. CASE MirrorsDone(w)
    BY <1>9, <1>a DEF MirrorsDone, Writes, TypeInv, TypeOK, Files, States
  <1>10. CASE MirrorsFail(w)
    BY <1>10, <1>a DEF MirrorsFail, Writes, TypeInv, TypeOK, Files, States
  <1>11. CASE BulkEnds(w)
    BY <1>11, <1>a DEF BulkEnds, Writes, TypeInv, TypeOK, Files, States
  <1>12. CASE HandlerWrite(w)
    BY <1>12, FileFacts, WrittenFacts DEF HandlerWrite, TypeInv, TypeOK, Prepared, States
  <1>13. CASE Exit(w) \/ HandlerExit(w) \/ WorkerDies(w)
    <2>1. Gone(w) /\ UNCHANGED <<file, pidfile, pc, job, child, walked, covered, unbased, raced,
                                 wipedLive>>
      BY <1>13 DEF Exit, HandlerExit, WorkerDies
    <2>2. buf' \in [Workers -> Writings]
      BY <2>1, FileFacts DEF Gone, TypeInv, TypeOK, Writings
    <2>3. term' \in [Workers -> {"none", "quiet", "stop", "written"}]
      BY <2>1 DEF Gone, TypeInv, TypeOK
    <2>4. flops' \in Nat
      BY <2>1 DEF Gone, TypeInv, TypeOK
    <2>5. TypeOK'
      BY <2>1, <2>2, <2>3, <2>4 DEF Gone, TypeInv, TypeOK, Stages, Writings
    <2>6. Prepared'
      BY <2>1 DEF Gone, TypeInv, TypeOK, Prepared
    <2>7. QED
      BY <2>5, <2>6 DEF TypeInv
  <1>14. QED
    BY <1>1, <1>2, <1>3, <1>4, <1>5, <1>6, <1>7, <1>8, <1>9, <1>10, <1>11, <1>12, <1>13
    DEF WorkerStep

LEMMA TypeStep == TypeInv /\ [Next]_vars => TypeInv'
  <1>1. ASSUME TypeInv, Next PROVE TypeInv'
    BY <1>1, ProcessType, WorkerType DEF Next
  <1>2. ASSUME TypeInv, UNCHANGED vars PROVE TypeInv'
    BY <1>2 DEF vars, fileVars, procVars, workerVars, histVars, TypeInv, TypeOK, Prepared
  <1>3. QED
    BY <1>1, <1>2

\* The state file, the pidfile and the stages of all keep their types.
THEOREM TypeCorrect == Spec => []TypeOK
  <1>1. TypeInv => TypeOK
    BY DEF TypeInv
  <1>2. QED
    BY InitType, TypeStep, <1>1, PTL DEF Spec

-----------------------------------------------------------------------------
(***************************************************************************)
(* One crawler.                                                            *)
(***************************************************************************)

\* Without a race at most one process is between its look at the pidfile and
\* its own entry there; until it has launched nothing runs, then nothing but
\* its worker; and when there is none, nothing but what the pidfile names.
Apart ==
    ~raced =>
        /\ \A p, q \in Launching : p = q
        /\ \A p \in Procs : pc[p] \in {"clear", "launch"} => Live = {}
        /\ \A p \in Procs : pc[p] = "record" => Live \subseteq {child[p]}
        /\ Launching = {} => Live \subseteq {pidfile}

\* Workers come alive by Launch only.
LEMMA WorkersOnlyEnd ==
    ASSUME TypeInv, NEW w \in Workers, WorkerStep(w) \/ WorkerDies(w)
    PROVE  Live' \subseteq Live /\ UNCHANGED <<pidfile, pc, child, raced>>
  <1>1. Alive(w)
    BY DEF WorkerStep, WorkerDies, Alive, Workers, Lock, Replace, Begin, Plan, Beat, CrawlFails,
           WalkEnds, WalkBreaks, MirrorsDone, MirrorsFail, BulkEnds, Exit, HandlerWrite,
           HandlerExit, Main
  <1>2. ASSUME NEW state, NEW failures, NEW then, WriteState(w, state, failures, then)
        PROVE  \E x : wpc' = [wpc EXCEPT ![w] = x]
    BY <1>2 DEF WriteState
  <1>3. \E x : wpc' = [wpc EXCEPT ![w] = x]
    <2>1. CASE Lock(w) \/ Replace(w) \/ Plan(w)
      BY <2>1 DEF Lock, Replace, Plan
    <2>2. CASE Beat(w) \/ HandlerWrite(w)
      <3>1. wpc' = [wpc EXCEPT ![w] = wpc[w]]
        BY <2>2 DEF Beat, HandlerWrite, workerVars, TypeInv, TypeOK
      <3>2. QED
        BY <3>1
    <2>3. CASE Exit(w) \/ HandlerExit(w) \/ WorkerDies(w)
      BY <2>3 DEF Exit, HandlerExit, WorkerDies, Gone
    <2>4. CASE Begin(w) \/ CrawlFails(w) \/ WalkEnds(w) \/ WalkBreaks(w) \/ MirrorsDone(w)
                 \/ MirrorsFail(w) \/ BulkEnds(w)
      BY <2>4, <1>2 DEF Begin, CrawlFails, WalkEnds, WalkBreaks, MirrorsDone, MirrorsFail, BulkEnds
    <2>5. QED
      BY <2>1, <2>2, <2>3, <2>4 DEF WorkerStep
  <1>4. Live' \subseteq Live
    <2>1. PICK x : wpc' = [wpc EXCEPT ![w] = x]
      BY <1>3
    <2>2. \A v \in Workers \ {w} : wpc'[v] = wpc[v]
      BY <2>1 DEF TypeInv, TypeOK
    <2>3. QED
      BY <1>1, <2>2 DEF Live, Alive
  <1>5. UNCHANGED <<pidfile, pc, child, raced>>
    BY DEF WorkerStep, WorkerDies, Lock, Replace, Begin, Plan, Beat, CrawlFails, WalkEnds,
           WalkBreaks, MirrorsDone, MirrorsFail, BulkEnds, Exit, HandlerWrite, HandlerExit,
           fileVars, procVars, histVars
  <1>6. QED
    BY <1>4, <1>5

LEMMA ProcessApart ==
    ASSUME TypeInv, Apart, NEW p \in Procs, UserStep(p) \/ ProcStep(p) \/ ProcessDies(p)
    PROVE  Apart'
  <1> SUFFICES ASSUME ~raced'
               PROVE  /\ \A q, r \in Launching' : q = r
                      /\ \A q \in Procs : pc'[q] \in {"clear", "launch"} => Live' = {}
                      /\ \A q \in Procs : pc'[q] = "record" => Live' \subseteq {child'[q]}
                      /\ Launching' = {} => Live' \subseteq {pidfile'}
    BY DEF Apart
  <1> USE DEF fileVars, procVars, workerVars, histVars, Goes
  <1>t. pc \in [Procs -> {"idle", "probe", "clear", "launch", "record", "kill", "poll", "unfile"}]
        /\ child \in [Procs -> 0..MaxSpawns] /\ wpc \in [Workers -> Stages]
    BY DEF TypeInv, TypeOK
  <1>u. ASSUME ~raced, Live' = Live, Launching' = Launching, UNCHANGED pidfile,
               \A q \in Procs : q \in Launching => pc'[q] = pc[q] /\ child'[q] = child[q]
        PROVE  Apart'
    BY <1>u, <1>t DEF Apart, Launching
  <1>1. CASE Start(p) \/ AutoRefresh(p, TRUE) \/ AutoRefresh(p, FALSE)
    <2>1. /\ pc' = [pc EXCEPT ![p] = "probe"] /\ pc[p] = "idle"
          /\ UNCHANGED <<pidfile, child, wpc, raced>>
      BY <1>1 DEF Start, AutoRefresh
    <2>2. QED
      BY <1>u, <1>t, <2>1 DEF Apart, Launching, Live, Alive
  <1>2. CASE Probe(p)
    <2>1. /\ pc[p] = "probe" /\ ~raced /\ Live' = Live
          /\ UNCHANGED <<pidfile, child>>
      BY <1>2 DEF Probe, Live, Alive
    <2>2. CASE Alive(pidfile)
      <3>1. pc' = [pc EXCEPT ![p] = "idle"]
        BY <1>2, <2>2 DEF Probe
      <3>2. QED
        BY <1>u, <1>t, <2>1, <3>1 DEF Apart, Launching
    <2>3. CASE ~Alive(pidfile)
      <3>1. Launching = {}
        BY <1>2, <2>3 DEF Probe
      <3>2. Live = {}
        BY <2>1, <2>3, <3>1 DEF Apart, Live
      <3>3. pc' \in {[pc EXCEPT ![p] = "clear"], [pc EXCEPT ![p] = "launch"]}
        BY <1>2, <2>3 DEF Probe
      <3>4. Launching' \subseteq {p}
        BY <1>t, <3>1, <3>3 DEF Launching
      <3>5. QED
        BY <2>1, <3>2, <3>4
    <2>4. QED
      BY <2>2, <2>3 DEF Apart
  <1>3. CASE ClearStale(p) \/ Unfile(p)
    <2>1. /\ ~raced /\ ~Alive(pidfile) /\ Live' = Live /\ pidfile' = 0 /\ child' = child
      BY <1>3 DEF ClearStale, Unfile, RemovePidfile, Live, Alive
    <2>2. CASE Unfile(p)
      <3>1. Launching' = Launching /\ \A q \in Launching : pc'[q] = pc[q]
        BY <2>2, <1>t DEF Unfile, Launching
      <3>2. Launching = {} => Live = {}
        BY <2>1 DEF Apart, Live
      <3>3. QED
        BY <2>1, <3>1, <3>2, <1>t DEF Apart, Launching
    <2>3. CASE ClearStale(p)
      <3>1. Live = {} /\ p \in Launching
        BY <2>1, <2>3, <1>t DEF Apart, ClearStale, Launching
      <3>2. Launching' \subseteq Launching
        BY <2>3, <1>t DEF ClearStale, Launching
      <3>3. QED
        BY <2>1, <3>1, <3>2 DEF Apart
    <2>4. QED
      BY <1>3, <2>2, <2>3 DEF Apart
  <1>4. CASE Launch(p)
    <2>1. PICK w \in Unborn : /\ wpc' = [wpc EXCEPT ![w] = "first"]
                              /\ child' = [child EXCEPT ![p] = w]
      BY <1>4 DEF Launch
    <2>2. ~raced /\ pc[p] = "launch" /\ pc' = [pc EXCEPT ![p] = "record"]
      BY <1>4 DEF Launch
    <2>3. Live = {} /\ \A q \in Launching : q = p
      BY <2>2, <1>t DEF Apart, Launching
    <2>4. Live' \subseteq {w}
      BY <2>1, <2>3, <1>t DEF Live, Alive, Unborn
    <2>5. Launching' = {p}
      BY <2>2, <2>3, <1>t DEF Launching
    <2>6. child'[p] = w /\ pc'[p] = "record"
      BY <2>1, <2>2, <1>t
    <2>7. QED
      BY <2>4, <2>5, <2>6 DEF Launching
  <1>5. CASE RecordPid(p)
    <2>1. /\ ~raced /\ pc[p] = "record" /\ pc' = [pc EXCEPT ![p] = "idle"]
          /\ pidfile' = child[p] /\ Live' = Live
      BY <1>5 DEF RecordPid, Live, Alive
    <2>2. Live \subseteq {child[p]} /\ \A q \in Launching : q = p
      BY <2>1, <1>t DEF Apart, Launching
    <2>3. Launching' = {}
      BY <2>1, <2>2, <1>t DEF Launching
    <2>4. QED
      BY <2>1, <2>2, <2>3 DEF Launching
  <1>6. CASE CancelProbe(p) \/ Kill(p) \/ Poll(p) \/ WipeState(p)
    <2>1. /\ pc[p] \in {"idle", "kill", "poll"}
          /\ pc' \in {[pc EXCEPT ![p] = s] : s \in {"idle", "kill", "poll", "unfile"}}
          /\ \A q \in Procs \ {p} : child'[q] = child[q]
      BY <1>6, <1>t DEF CancelProbe, Kill, Poll, WipeState, Free
    <2>2. UNCHANGED <<pidfile, wpc, raced>>
      BY <1>6 DEF CancelProbe, Kill, Poll, WipeState
    <2>3. QED
      BY <1>u, <1>t, <2>1, <2>2 DEF Apart, Launching, Live, Alive
  <1>7. CASE ProcessDies(p)
    <2>1. /\ ~raced /\ pc[p] # "record" /\ pc' = [pc EXCEPT ![p] = "idle"]
          /\ \A q \in Procs \ {p} : child'[q] = child[q]
          /\ pidfile' = pidfile /\ Live' = Live
      BY <1>7, <1>t DEF ProcessDies, Live, Alive
    <2>2. /\ Launching' \subseteq Launching
          /\ \A q \in Launching' : q # p /\ pc'[q] = pc[q] /\ child'[q] = child[q]
      BY <2>1, <1>t DEF Launching
    <2>3. Launching' = Launching \/ Live = {}
      <3>1. CASE pc[p] \in {"clear", "launch"}
        BY <2>1, <3>1 DEF Apart
      <3>2. CASE pc[p] \notin {"clear", "launch"}
        BY <2>1, <3>2, <1>t DEF Launching
      <3>3. QED
        BY <3>1, <3>2
    <2>4. QED
      BY <2>1, <2>2, <2>3, <1>t DEF Apart, Launching
  <1>8. QED
    BY <1>1, <1>2, <1>3, <1>4, <1>5, <1>6, <1>7 DEF UserStep, ProcStep

LEMMA InitApart == Init => Apart
  BY DEF Init, Apart, Launching, Live, Alive

LEMMA ApartStep == TypeInv /\ Apart /\ [Next]_vars => Apart'
  <1>1. ASSUME TypeInv, Apart, NEW w \in Workers, WorkerStep(w) \/ WorkerDies(w)
        PROVE  Apart'
    <2>1. Live' \subseteq Live /\ UNCHANGED <<pidfile, pc, child, raced>>
      BY <1>1, WorkersOnlyEnd
    <2>2. QED
      BY <1>1, <2>1 DEF Apart, Launching
  <1>2. ASSUME Apart, UNCHANGED vars PROVE Apart'
    BY <1>2 DEF vars, fileVars, procVars, workerVars, histVars, Apart, Launching, Live, Alive
  <1>3. QED
    BY <1>1, <1>2, ProcessApart DEF Next

LEMMA ApartIsEnough == Apart => OneCrawler
  <1> SUFFICES ASSUME Apart, ~raced, NEW v \in Live, NEW w \in Live PROVE v = w
    BY DEF OneCrawler
  <1>1. CASE Launching = {}
    BY <1>1 DEF Apart
  <1>2. CASE Launching # {}
    <2>1. PICK p \in Procs : pc[p] \in {"clear", "launch", "record"}
      BY <1>2 DEF Launching
    <2>2. QED
      BY <2>1 DEF Apart
  <1>3. QED
    BY <1>1, <1>2

\* crawl.pid keeps crawlers apart as long as no two launches overlap and no
\* pidfile of a live worker is removed or left unwritten.
THEOREM OneCrawlerAlways == Spec => []OneCrawler
  <1>1. QED
    BY InitType, TypeStep, InitApart, ApartStep, ApartIsEnough, PTL DEF Spec

-----------------------------------------------------------------------------
(***************************************************************************)
(* The file: the mark, the baseline of a delta, the last word of a         *)
(* cancelled worker.  Each has an invariant of its own.                    *)
(***************************************************************************)

\* What stands behind the mark of the file, and behind those under way.
Earned ==
    /\ file.mark # 0 => file.mark \in walked
    /\ \A w \in Workers :
          /\ wpc[w] \in {"lock", "replace"} =>
                /\ buf[w].file.mark # 0 => buf[w].file.mark \in walked
                /\ buf[w].then = "mirror" => w \in walked
                /\ buf[w].then = "bulk" => kind[w] = "bulk"
          /\ wpc[w] = "mirror" => w \in walked
          /\ wpc[w] = "bulk" => kind[w] = "bulk"

\* The main thread has nothing but "cancelled" to say after the handler.
Final ==
    \A w \in Workers : term[w] = "written" =>
        /\ file.by = w => file.state = "cancelled"
        /\ wpc[w] = "replace" => buf[w].file.state = "cancelled"

\* A mark stands for a crawl of everything, and so does one under way unless
\* it is being stamped by its own crawl.
Based ==
    /\ \A w \in Workers : plan[w] = "delta" => Alive(w)
    /\ wipedLive = {} =>
          /\ unbased = {}
          /\ file.mark # 0 => covered
          /\ \A w \in Workers :
                /\ plan[w] = "delta" => covered
                /\ wpc[w] \in {"lock", "replace"} /\ buf[w].file.mark # 0 =>
                      covered \/ (buf[w].file.state = "done" /\ kind[w] # "bulk")

\* A process wipes the file, launches a worker, or tells workers to stop; it
\* writes for none.
LEMMA ProcessLeaves ==
    ASSUME TypeInv, NEW p \in Procs, UserStep(p) \/ ProcStep(p) \/ ProcessDies(p)
    PROVE  /\ UNCHANGED <<plan, buf, walked, unbased>>
           /\ \/ UNCHANGED <<file, covered, wipedLive>>
              \/ file' = NoFile /\ wipedLive' = wipedLive \cup Live
           /\ \A w \in Workers :
                 /\ \/ wpc'[w] = wpc[w] /\ kind'[w] = kind[w]
                    \/ wpc[w] = "unborn" /\ wpc'[w] = "first"
                 /\ term'[w] = term[w] \/ term'[w] \in {"quiet", "stop"}
  <1> USE DEF fileVars, procVars, workerVars, histVars, Goes, TypeInv, TypeOK
  <1>1. ASSUME NEW stale, AutoRefresh(p, stale)
        PROVE  UNCHANGED <<plan, buf, walked, unbased, file, covered, wipedLive, wpc, kind, term>>
    BY <1>1 DEF AutoRefresh
  <1>2. CASE Start(p) \/ Probe(p) \/ ClearStale(p) \/ RecordPid(p) \/ CancelProbe(p) \/ Poll(p)
             \/ Unfile(p) \/ ProcessDies(p)
    BY <1>2 DEF Start, Probe, ClearStale, RecordPid, CancelProbe, Poll, Unfile, ProcessDies,
                RemovePidfile
  <1>3. CASE Launch(p)
    BY <1>3 DEF Launch, Unborn
  <1>4. CASE Kill(p)
    BY <1>4 DEF Kill
  <1>5. CASE WipeState(p)
    BY <1>5 DEF WipeState
  <1>6. QED
    BY <1>1, <1>2, <1>3, <1>4, <1>5 DEF UserStep, ProcStep

LEMMA EarnedWrite ==
    ASSUME TypeInv, Earned, NEW w \in Workers, NEW state \in States, NEW failures \in Nat,
           NEW then \in {"crawl", "bulk", "mirror", "exit"},
           WriteState(w, state, failures, then),
           UNCHANGED <<file, kind>>, walked \subseteq walked',
           state = "done" /\ kind[w] # "bulk" => w \in walked',
           then = "mirror" => w \in walked',
           then = "bulk" => kind[w] = "bulk"
    PROVE  Earned'
  <1>1. /\ wpc' \in [Workers -> Stages] /\ buf' \in [Workers -> Writings]
        /\ \A v \in Workers \ {w} : wpc'[v] = wpc[v] /\ buf'[v] = buf[v]
        /\ \/ wpc'[w] = then /\ buf'[w] = buf[w] /\ Stopped(w) /\ state # "cancelled"
           \/ /\ wpc'[w] = "lock"
              /\ buf'[w] = [file |-> Written(w, state, failures), then |-> then]
              /\ ~Stopped(w) \/ state = "cancelled"
    BY ONLY TypeInv, w \in Workers, state \in States, failures \in Nat,
            then \in {"crawl", "bulk", "mirror", "exit"},
            WriteState(w, state, failures, then), WriteStateFacts
  <1>2. Written(w, state, failures).mark # 0 => Written(w, state, failures).mark \in walked'
    BY DEF Written, Earned
  <1>3. ASSUME NEW v \in Workers \ {w}
        PROVE  /\ wpc'[v] \in {"lock", "replace"} =>
                    /\ buf'[v].file.mark # 0 => buf'[v].file.mark \in walked'
                    /\ buf'[v].then = "mirror" => v \in walked'
                    /\ buf'[v].then = "bulk" => kind'[v] = "bulk"
               /\ wpc'[v] = "mirror" => v \in walked'
               /\ wpc'[v] = "bulk" => kind'[v] = "bulk"
    BY <1>1, <1>3 DEF Earned
  <1>4. CASE wpc'[w] = then /\ buf'[w] = buf[w]
    BY <1>3, <1>4 DEF Earned
  <1>5. CASE wpc'[w] = "lock" /\ buf'[w] = [file |-> Written(w, state, failures), then |-> then]
    BY <1>2, <1>3, <1>5 DEF Earned
  <1>6. QED
    BY <1>1, <1>4, <1>5

LEMMA WorkerEarned ==
    ASSUME TypeInv, Earned, NEW w \in Workers, WorkerStep(w) \/ WorkerDies(w)
    PROVE  Earned'
  <1> USE DEF fileVars, procVars, workerVars, histVars
  <1>t. /\ wpc \in [Workers -> Stages] /\ buf \in [Workers -> Writings]
        /\ kind \in [Workers -> Jobs \cup {"crawl"}]
        /\ file.failures \in Nat /\ pre[w] \in Nat
    BY FileFacts DEF TypeInv, TypeOK, Writings
  <1>1. CASE Lock(w)
    BY <1>1, <1>t DEF Lock, Earned, TypeInv, Prepared
  <1>2. CASE Replace(w)
    <2>1. wpc[w] = "replace" /\ buf[w].then \in {"crawl", "bulk", "mirror", "exit"}
      BY <1>2 DEF Replace, TypeInv, Prepared
    <2>2. QED
      BY <1>2, <1>t, <2>1 DEF Replace, Earned
  <1>3. CASE Begin(w)
    <2>1. WriteState(w, "running", file.failures, IF kind[w] = "bulk" THEN "bulk" ELSE "crawl")
          /\ UNCHANGED <<file, kind, walked>>
      BY <1>3 DEF Begin
    <2>2. QED
      BY <1>t, <2>1, EarnedWrite DEF States
  <1>4. CASE Plan(w)
    BY <1>4, <1>t DEF Plan, Main, Earned
  <1>5. CASE Beat(w)
    BY <1>5, <1>t DEF Beat, Earned, Written
  <1>6. CASE CrawlFails(w)
    <2>1. WriteState(w, "failed", file.failures + 1, "exit") /\ UNCHANGED <<file, kind, walked>>
      BY <1>6 DEF CrawlFails
    <2>2. QED
      BY <1>t, <2>1, EarnedWrite DEF States
  <1>7. CASE WalkEnds(w)
    <2>1. WriteState(w, "done", 0, "mirror") /\ UNCHANGED <<file, kind>>
          /\ walked' = walked \cup {w}
      BY <1>7 DEF WalkEnds
    <2>2. QED
      BY <1>t, <2>1, EarnedWrite DEF States
  <1>8. CASE WalkBreaks(w)
    <2>1. WriteState(w, "cancelled", file.failures, "exit") /\ UNCHANGED <<file, kind, walked>>
      BY <1>8 DEF WalkBreaks
    <2>2. QED
      BY <1>t, <2>1, EarnedWrite DEF States
  <1>9. CASE MirrorsDone(w)
    <2>1. WriteState(w, "done", file.failures, "exit") /\ UNCHANGED <<file, kind, walked>> /\ w \in walked
      BY <1>9 DEF MirrorsDone, Main, Earned
    <2>2. QED
      BY <1>t, <2>1, EarnedWrite DEF States
  <1>10. CASE MirrorsFail(w)
    <2>1. WriteState(w, "failed", pre[w] + 1, "exit") /\ UNCHANGED <<file, kind, walked>>
      BY <1>10 DEF MirrorsFail
    <2>2. QED
      BY <1>t, <2>1, EarnedWrite DEF States
  <1>11. CASE BulkEnds(w)
    <2>1. PICK state \in {"done", "failed"} : WriteState(w, state, file.failures, "exit")
      BY <1>11 DEF BulkEnds
    <2>2. UNCHANGED <<file, kind, walked>> /\ kind[w] = "bulk"
      BY <1>11 DEF BulkEnds, Main, Earned
    <2>3. state \in States
      BY <2>1 DEF States
    <2>4. QED
      BY <1>t, <2>1, <2>2, <2>3, EarnedWrite
  <1>12. CASE HandlerWrite(w)
    BY <1>12, <1>t DEF HandlerWrite, Earned, Written
  <1>13. CASE Exit(w) \/ HandlerExit(w) \/ WorkerDies(w)
    BY <1>13, <1>t DEF Exit, HandlerExit, WorkerDies, Gone, Earned
  <1>14. QED
    BY <1>1, <1>2, <1>3, <1>4, <1>5, <1>6, <1>7, <1>8, <1>9, <1>10, <1>11, <1>12, <1>13
    DEF WorkerStep

LEMMA InitEarned == Init => Earned
  BY DEF Init, Earned, NoFile

LEMMA EarnedStep == TypeInv /\ Earned /\ [Next]_vars => Earned'
  <1>1. ASSUME TypeInv, Earned, NEW p \in Procs, UserStep(p) \/ ProcStep(p) \/ ProcessDies(p)
        PROVE  Earned'
    <2>1. /\ UNCHANGED <<plan, buf, walked, unbased>>
          /\ \/ UNCHANGED <<file, covered, wipedLive>>
             \/ file' = NoFile /\ wipedLive' = wipedLive \cup Live
          /\ \A w \in Workers :
                /\ \/ wpc'[w] = wpc[w] /\ kind'[w] = kind[w]
                   \/ wpc[w] = "unborn" /\ wpc'[w] = "first"
                /\ term'[w] = term[w] \/ term'[w] \in {"quiet", "stop"}
      BY ONLY <1>1, ProcessLeaves
    <2>2. QED
      BY <1>1, <2>1 DEF Earned, NoFile
  <1>2. ASSUME Earned, UNCHANGED vars PROVE Earned'
    BY <1>2 DEF vars, fileVars, procVars, workerVars, histVars, Earned
  <1>3. QED
    BY <1>1, <1>2, WorkerEarned DEF Next

\* The mark is that of a crawl that walked every window of every mailbox it
\* was given, however many workers rewrote the file since.
THEOREM MarksAreEarned == Spec => []MarkIsEarned
  <1>1. Earned => MarkIsEarned
    BY DEF Earned, MarkIsEarned
  <1>2. QED
    BY InitType, TypeStep, InitEarned, EarnedStep, <1>1, PTL DEF Spec

LEMMA WorkerFinal ==
    ASSUME TypeInv, Final, NEW w \in Workers, WorkerStep(w) \/ WorkerDies(w)
    PROVE  Final'
  <1> USE DEF fileVars, procVars, workerVars, histVars
  <1>t. /\ wpc \in [Workers -> Stages] /\ buf \in [Workers -> Writings]
        /\ term \in [Workers -> {"none", "quiet", "stop", "written"}]
        /\ w # 0
    BY DEF TypeInv, TypeOK, Writings, Workers
  <1>1. CASE Lock(w)
    BY <1>1, <1>t DEF Lock, Final, Stopped, TypeInv, Prepared
  <1>2. CASE Replace(w)
    <2>1. wpc[w] = "replace" /\ buf[w].then \in {"crawl", "bulk", "mirror", "exit"}
          /\ buf[w].file.by = w
      BY <1>2 DEF Replace, TypeInv, Prepared
    <2>2. ASSUME NEW v \in Workers, term[v] = "written", v # w
          PROVE  file'.by # v /\ (wpc'[v] = "replace" => buf'[v].file.state = "cancelled")
      BY <1>2, <1>t, <2>1, <2>2 DEF Replace, Final
    <2>3. term[w] = "written" => file'.state = "cancelled" /\ wpc'[w] # "replace"
      BY <1>2, <1>t, <2>1 DEF Replace, Final
    <2>4. QED
      BY <1>2, <2>2, <2>3 DEF Replace, Final
  <1>3. ASSUME UNCHANGED <<file, term>>,
               \A v \in Workers : wpc'[v] = "replace" => wpc[v] = "replace" /\ buf'[v] = buf[v]
        PROVE  Final'
    BY <1>3 DEF Final
  <1>4. ASSUME NEW state, NEW failures, NEW then \in {"crawl", "bulk", "mirror", "exit"},
               WriteState(w, state, failures, then), wpc[w] # "replace"
        PROVE  \A v \in Workers : wpc'[v] = "replace" => wpc[v] = "replace" /\ buf'[v] = buf[v]
    BY <1>4, <1>t DEF WriteState
  <1>5. CASE Begin(w) \/ CrawlFails(w) \/ WalkEnds(w) \/ WalkBreaks(w) \/ MirrorsDone(w)
             \/ MirrorsFail(w) \/ BulkEnds(w)
    <2>1. wpc[w] # "replace" /\ UNCHANGED <<file, term>>
      BY <1>5 DEF Begin, CrawlFails, WalkEnds, WalkBreaks, MirrorsDone, MirrorsFail, BulkEnds, Main
    <2>2. \A v \in Workers : wpc'[v] = "replace" => wpc[v] = "replace" /\ buf'[v] = buf[v]
      BY <1>4, <1>5, <2>1
      DEF Begin, CrawlFails, WalkEnds, WalkBreaks, MirrorsDone, MirrorsFail, BulkEnds
    <2>3. QED
      BY <1>3, <2>1, <2>2
  <1>6. CASE Plan(w)
    BY <1>3, <1>6, <1>t DEF Plan
  <1>7. CASE Beat(w)
    <2>1. file'.by = w /\ term[w] = "none" /\ UNCHANGED <<wpc, buf, term>>
      BY <1>7 DEF Beat, Written, Stopped
    <2>2. QED
      BY <2>1 DEF Final
  <1>8. CASE HandlerWrite(w)
    <2>1. /\ file'.by = w /\ file'.state = "cancelled" /\ wpc[w] # "replace"
          /\ UNCHANGED <<wpc, buf>>
          /\ \A v \in Workers \ {w} : term'[v] = term[v]
      BY <1>8, <1>t DEF HandlerWrite, Written
    <2>2. QED
      BY <2>1 DEF Final
  <1>9. CASE Exit(w) \/ HandlerExit(w) \/ WorkerDies(w)
    <2>1. /\ file' = file
          /\ \A v \in Workers : term'[v] = "written" => term[v] = "written"
          /\ \A v \in Workers : wpc'[v] = "replace" => wpc[v] = "replace" /\ buf'[v] = buf[v]
      BY <1>9, <1>t DEF Exit, HandlerExit, WorkerDies, Gone
    <2>2. QED
      BY <2>1 DEF Final
  <1>10. QED
    BY <1>1, <1>2, <1>5, <1>6, <1>7, <1>8, <1>9 DEF WorkerStep

\* Once the handler has written "cancelled" for a worker, its main thread,
\* wherever SIGTERM met it, does not write another word.
THEOREM CancelsStick == Spec => []CancelSticks
  <1>1. Init => Final
    BY DEF Init, Final
  <1>2. TypeInv /\ Final /\ [Next]_vars => Final'
    <2>1. ASSUME TypeInv, Final, NEW p \in Procs, UserStep(p) \/ ProcStep(p) \/ ProcessDies(p)
          PROVE  Final'
      <3>1. /\ UNCHANGED <<plan, buf, walked, unbased>>
            /\ \/ UNCHANGED <<file, covered, wipedLive>>
               \/ file' = NoFile /\ wipedLive' = wipedLive \cup Live
            /\ \A w \in Workers :
                  /\ \/ wpc'[w] = wpc[w] /\ kind'[w] = kind[w]
                     \/ wpc[w] = "unborn" /\ wpc'[w] = "first"
                  /\ term'[w] = term[w] \/ term'[w] \in {"quiet", "stop"}
        BY ONLY <2>1, ProcessLeaves
      <3>2. \A w \in Workers : file'.by = w => file' = file
        BY <3>1, FileFacts DEF Workers
      <3>3. QED
        BY <2>1, <3>1, <3>2 DEF Final
    <2>2. CASE UNCHANGED vars
      BY <2>2 DEF vars, fileVars, procVars, workerVars, histVars, Final
    <2>3. QED
      BY <2>1, <2>2, WorkerFinal DEF Next
  <1>3. Final => CancelSticks
    BY DEF Final, CancelSticks
  <1>4. TypeInv /\ [Next]_vars => TypeInv'
    BY TypeStep
  <1>5. QED
    BY InitType, <1>1, <1>2, <1>3, <1>4, PTL DEF Spec

LEMMA WorkerBased ==
    ASSUME "filtered" \notin Jobs, TypeInv, Based, NEW w \in Workers, WorkerStep(w) \/ WorkerDies(w)
    PROVE  Based'
  <1> USE DEF fileVars, procVars, workerVars, histVars
  <1>t. /\ wpc \in [Workers -> Stages] /\ buf \in [Workers -> Writings]
        /\ kind \in [Workers -> Jobs \cup {"crawl"}] /\ plan \in [Workers -> {"full", "delta"}]
        /\ w # 0
    BY DEF TypeInv, TypeOK, Writings, Workers
  <1>1. CASE Lock(w)
    <2>1. wpc[w] = "lock" /\ buf[w].then \in {"crawl", "bulk", "mirror", "exit"}
      BY <1>1 DEF Lock, TypeInv, Prepared
    <2>2. QED
      BY <1>1, <1>t, <2>1 DEF Lock, Based, Alive
  <1>2. CASE Replace(w)
    <2>1. wpc[w] = "replace" /\ buf[w].then \in {"crawl", "bulk", "mirror", "exit"}
      BY <1>2 DEF Replace, TypeInv, Prepared
    <2>2. \A v \in Workers : plan'[v] = "delta" => Alive(v)'
      BY <1>2, <1>t, <2>1 DEF Replace, Based, Alive
    <2>3. ASSUME wipedLive = {}
          PROVE  (covered => covered') /\ (file'.mark # 0 => covered')
      BY <1>2, <1>t, <2>1, <2>3 DEF Replace, Based
    <2>4. QED
      BY <1>2, <1>t, <2>1, <2>2, <2>3 DEF Replace, Based
  <1>3. ASSUME UNCHANGED <<file, kind, plan, covered, unbased, wipedLive>>,
               NEW state, NEW failures, NEW then \in {"crawl", "bulk", "mirror", "exit"},
               WriteState(w, state, failures, then), Alive(w)
        PROVE  Based'
    <2>1. CASE Stopped(w) /\ state # "cancelled"
      BY <1>3, <1>t, <2>1 DEF WriteState, Based, Alive
    <2>2. CASE ~(Stopped(w) /\ state # "cancelled")
      <3>1. /\ wpc' = [wpc EXCEPT ![w] = "lock"]
            /\ buf' = [buf EXCEPT ![w] = [file |-> Written(w, state, failures), then |-> then]]
        BY <1>3, <2>2 DEF WriteState
      <3>2. Written(w, state, failures).mark # 0 =>
                file.mark # 0 \/ (Written(w, state, failures).state = "done" /\ kind[w] # "bulk")
        BY DEF Written
      <3>3. QED
        BY <1>3, <1>t, <3>1, <3>2 DEF Based, Alive
    <2>3. QED
      BY <2>1, <2>2
  <1>4. CASE Begin(w) \/ CrawlFails(w) \/ WalkEnds(w) \/ WalkBreaks(w) \/ MirrorsDone(w)
             \/ MirrorsFail(w) \/ BulkEnds(w)
    <2>1. Alive(w) /\ UNCHANGED <<file, kind, plan, covered, unbased, wipedLive>>
      BY <1>4, <1>t DEF Begin, CrawlFails, WalkEnds, WalkBreaks, MirrorsDone, MirrorsFail, BulkEnds,
                        Main, Alive
    <2>2. QED
      BY <1>3, <1>4, <2>1
      DEF Begin, CrawlFails, WalkEnds, WalkBreaks, MirrorsDone, MirrorsFail, BulkEnds
  <1>5. CASE Plan(w)
    BY <1>5, <1>t DEF Plan, Main, Based, Alive
  <1>6. CASE Beat(w)
    BY <1>6, <1>t DEF Beat, Written, Based, Alive
  <1>7. CASE HandlerWrite(w)
    BY <1>7, <1>t DEF HandlerWrite, Written, Based, Alive
  <1>8. CASE Exit(w) \/ HandlerExit(w) \/ WorkerDies(w)
    BY <1>8, <1>t DEF Exit, HandlerExit, WorkerDies, Gone, Based, Alive
  <1>9. QED
    BY <1>1, <1>2, <1>4, <1>5, <1>6, <1>7, <1>8 DEF WorkerStep

\* Where users start whole crawls and bulk jobs only, a delta always has a
\* crawl of everything to lean on, unless a wipe met a live worker.
THEOREM DeltasAreBased ==
    ASSUME "filtered" \notin Jobs
    PROVE  Spec => []DeltaHasBaselineUnlessWiped
  <1>1. Init => Based
    BY DEF Init, Based, NoFile
  <1>2. TypeInv /\ Based /\ [Next]_vars => Based'
    <2>1. ASSUME TypeInv, Based, NEW p \in Procs, UserStep(p) \/ ProcStep(p) \/ ProcessDies(p)
          PROVE  Based'
      <3>1. /\ UNCHANGED <<plan, buf, walked, unbased>>
            /\ \/ UNCHANGED <<file, covered, wipedLive>>
               \/ file' = NoFile /\ wipedLive' = wipedLive \cup Live
            /\ \A w \in Workers :
                  /\ \/ wpc'[w] = wpc[w] /\ kind'[w] = kind[w]
                     \/ wpc[w] = "unborn" /\ wpc'[w] = "first"
                  /\ term'[w] = term[w] \/ term'[w] \in {"quiet", "stop"}
        BY ONLY <2>1, ProcessLeaves
      <3>2. \A w \in Workers : Alive(w) => Alive(w)' /\ w \in Live
        BY <3>1 DEF Alive, Live
      <3>3. CASE UNCHANGED <<file, covered, wipedLive>>
        BY <2>1, <3>1, <3>2, <3>3 DEF Based
      <3>4. CASE file' = NoFile /\ wipedLive' = wipedLive \cup Live
        <4>1. wipedLive' = {} => wipedLive = {} /\ \A w \in Workers : ~Alive(w)
          BY <3>2, <3>4
        <4>2. \A w \in Workers : wpc'[w] \in {"lock", "replace"} => Alive(w)
          BY <3>1 DEF Alive, Workers
        <4>3. QED
          BY <2>1, <3>1, <3>2, <3>4, <4>1, <4>2 DEF Based, NoFile
      <3>5. QED
        BY <3>1, <3>3, <3>4
    <2>2. CASE UNCHANGED vars
      BY <2>2 DEF vars, fileVars, procVars, workerVars, histVars, Based, Alive
    <2>3. QED
      BY <2>1, <2>2, WorkerBased DEF Next
  <1>3. Based => DeltaHasBaselineUnlessWiped
    BY DEF Based, DeltaHasBaselineUnlessWiped
  <1>4. TypeInv /\ [Next]_vars => TypeInv'
    BY TypeStep
  <1>5. QED
    BY InitType, <1>1, <1>2, <1>3, <1>4, PTL DEF Spec

-----------------------------------------------------------------------------
(***************************************************************************)
(* Backing off.                                                            *)
(***************************************************************************)

\* What the last word f of worker w leaves for the crawl after it: a failure
\* is on the count of the file before it is on flops.
Counted(w, f) ==
    /\ kind[w] = "bulk" => flops <= f.failures
    /\ kind[w] # "bulk" /\ f.state = "failed" => flops < f.failures
    /\ kind[w] # "bulk" /\ f.state # "failed" /\ w \notin walked => flops <= f.failures

\* Bulk jobs keep to their stages, and no worker writes before it is launched.
KeepsToJob(w) ==
    /\ wpc[w] = "unborn" => file.by # w
    /\ wpc[w] \in {"crawl", "walk", "mirror"} => kind[w] # "bulk"
    /\ wpc[w] \in {"lock", "replace"} /\ buf[w].then \in {"crawl", "mirror"} => kind[w] # "bulk"

\* What a worker on its own knows of the failures before it.
PaceOf(w) ==
    /\ file.by = w => Counted(w, file)
    /\ wpc[w] \in {"first", "crawl", "walk", "bulk"} => flops <= file.failures
    /\ wpc[w] \in {"walk", "mirror"} => flops <= pre[w]
    /\ wpc[w] \in {"lock", "replace"} =>
          /\ Counted(w, buf[w].file)
          /\ buf[w].then \in {"crawl", "bulk"} =>
                flops <= file.failures /\ flops <= buf[w].file.failures
          /\ buf[w].then = "mirror" => flops <= pre[w]

\* The failures of the file cover those in a row, but for what the live
\* worker is still to answer for.
Paced ==
    /\ \A w \in Workers : KeepsToJob(w)
    /\ Calm => /\ file.by \notin Live => flops <= file.failures
               /\ \A w \in Live : PaceOf(w)

LEMMA PacedWrite ==
    ASSUME TypeInv, Paced, NEW w \in Workers, Alive(w), Calm => Live = {w},
           NEW state \in States, NEW failures \in Nat,
           NEW then \in {"crawl", "bulk", "mirror", "exit"},
           WriteState(w, state, failures, then),
           UNCHANGED <<file, kind, pre, flops, raced, wipedLive>>, walked \subseteq walked',
           then \in {"crawl", "mirror"} => kind[w] # "bulk",
           Calm => /\ kind[w] = "bulk" => flops <= failures
                   /\ kind[w] # "bulk" /\ state = "failed" => flops < failures
                   /\ kind[w] # "bulk" /\ state # "failed" /\ w \notin walked' => flops <= failures
                   /\ then \in {"crawl", "bulk"} => flops <= file.failures /\ flops <= failures
                   /\ then = "mirror" => flops <= pre[w]
    PROVE  Paced'
  <1>1. /\ wpc' \in [Workers -> Stages] /\ buf' \in [Workers -> Writings]
        /\ \A v \in Workers \ {w} : wpc'[v] = wpc[v] /\ buf'[v] = buf[v]
        /\ \/ wpc'[w] = then /\ buf'[w] = buf[w] /\ Stopped(w) /\ state # "cancelled"
           \/ /\ wpc'[w] = "lock"
              /\ buf'[w] = [file |-> Written(w, state, failures), then |-> then]
              /\ ~Stopped(w) \/ state = "cancelled"
    BY ONLY TypeInv, w \in Workers, state \in States, failures \in Nat,
            then \in {"crawl", "bulk", "mirror", "exit"},
            WriteState(w, state, failures, then), WriteStateFacts
  <1>2. /\ Written(w, state, failures).failures = failures
        /\ Written(w, state, failures).state = state
    BY DEF Written
  <1>3. \A v \in Workers : KeepsToJob(v)'
    <2>1. \A v \in Workers \ {w} : KeepsToJob(v)'
      BY <1>1 DEF Paced, KeepsToJob
    <2>2. KeepsToJob(w)'
      BY <1>1 DEF KeepsToJob
    <2>3. QED
      BY <2>1, <2>2
  <1>4. ASSUME Calm' PROVE Live' = {w} /\ Live = {w} /\ Calm
    <2>1. Calm /\ Live = {w}
      BY <1>4 DEF Calm
    <2>2. Alive(w)'
      BY <1>1 DEF Alive
    <2>3. QED
      BY <1>1, <2>1, <2>2 DEF Live, Alive
  <1>5. ASSUME Calm' PROVE file'.by \notin Live' => flops' <= file'.failures
    BY <1>4, <1>5 DEF Paced
  <1>6. ASSUME Calm' PROVE PaceOf(w)'
    <2>1. PaceOf(w)
      BY <1>4, <1>6 DEF Paced
    <2>2. file'.by = w => Counted(w, file)'
      BY <2>1 DEF PaceOf, Counted
    <2>3. CASE wpc'[w] = then
      BY <1>4, <1>6, <2>2, <2>3 DEF PaceOf
    <2>4. CASE /\ wpc'[w] = "lock"
               /\ buf'[w] = [file |-> Written(w, state, failures), then |-> then]
      <3>1. Counted(w, buf[w].file)'
        BY <1>2, <1>4, <1>6, <2>4 DEF Counted
      <3>2. QED
        BY <1>2, <1>4, <1>6, <2>2, <2>4, <3>1 DEF PaceOf
    <2>5. QED
      BY <1>1, <2>3, <2>4
  <1>7. QED
    BY <1>3, <1>4, <1>5, <1>6 DEF Paced

\* Any other step of a worker that leaves it with a pace.
LEMMA PacedStep ==
    ASSUME TypeInv, Paced, NEW w \in Workers, Alive(w), Calm => Live = {w},
           UNCHANGED <<raced, wipedLive>>, Calm => flops' = flops \/ ~Alive(w)',
           \A v \in Workers \ {w} : wpc'[v] = wpc[v] /\ kind'[v] = kind[v] /\ buf'[v] = buf[v],
           file' = file \/ file'.by = w,
           wpc'[w] # "unborn", KeepsToJob(w)',
           Calm /\ Alive(w)' => PaceOf(w)',
           Calm /\ ~Alive(w)' => flops' <= file'.failures
    PROVE  Paced'
  <1>1. \A v \in Workers : KeepsToJob(v)'
    BY DEF Paced, KeepsToJob
  <1>2. ASSUME Calm' PROVE Calm /\ Live = {w} /\ Live' \subseteq {w}
    BY <1>2 DEF Calm, Live, Alive
  <1>3. ASSUME Calm' PROVE file'.by \notin Live' => flops' <= file'.failures
    <2>1. CASE Alive(w)'
      <3>1. w \in Live' /\ w \in Live
        BY <1>2, <1>3, <2>1 DEF Live
      <3>2. CASE file' = file
        BY <1>2, <1>3, <2>1, <3>1, <3>2 DEF Paced
      <3>3. QED
        BY <3>1, <3>2
    <2>2. CASE ~Alive(w)'
      BY <1>2, <1>3, <2>2
    <2>3. QED
      BY <2>1, <2>2
  <1>4. ASSUME Calm', NEW v \in Live' PROVE PaceOf(v)'
    <2>1. v = w /\ Calm /\ Alive(w)'
      BY <1>2, <1>4 DEF Live
    <2>2. QED
      BY <2>1
  <1>5. QED
    BY <1>1, <1>3, <1>4 DEF Paced

\* Each step of a worker on its own keeps the failures counted.
LEMMA WorkerPaced ==
    ASSUME TypeInv, Earned, Paced, OneCrawler,
           NEW w \in Workers, WorkerStep(w) \/ WorkerDies(w)
    PROVE  Paced'
  <1> USE DEF fileVars, procVars, workerVars, histVars
  <1>t. /\ wpc \in [Workers -> Stages] /\ buf \in [Workers -> Writings]
        /\ kind \in [Workers -> Jobs \cup {"crawl"}] /\ pre \in [Workers -> Nat]
        /\ file.failures \in Nat /\ flops \in Nat /\ w # 0
    BY FileFacts DEF TypeInv, TypeOK, Writings, Workers
  <1>a. Alive(w)
    BY <1>t DEF WorkerStep, WorkerDies, Alive, Workers, Lock, Replace, Begin, Plan, Beat, CrawlFails,
           WalkEnds, WalkBreaks, MirrorsDone, MirrorsFail, BulkEnds, Exit, HandlerWrite,
           HandlerExit, Main
  <1>b. Calm => Live = {w} /\ PaceOf(w) /\ (file.by # w => flops <= file.failures)
    BY <1>a DEF Calm, OneCrawler, Live, Paced
  <1>k. KeepsToJob(w)
    BY DEF Paced
  <1>p. /\ wpc[w] \in {"lock", "replace"} =>
              buf[w].file.by = w /\ buf[w].then \in {"crawl", "bulk", "mirror", "exit"}
        /\ wpc[w] = "mirror" => w \in walked
        /\ wpc[w] = "bulk" => kind[w] = "bulk"
    BY DEF TypeInv, Prepared, Earned
  <1>1. CASE Lock(w)
    <2>1. /\ wpc[w] = "lock"
          /\ wpc' \in {[wpc EXCEPT ![w] = buf[w].then], [wpc EXCEPT ![w] = "replace"]}
          /\ UNCHANGED <<file, kind, pre, buf, flops, walked, raced, wipedLive>>
      BY <1>1 DEF Lock
    <2>2. wpc'[w] \in {"crawl", "bulk", "mirror", "exit", "replace"}
          /\ (wpc'[w] = "replace" \/ wpc'[w] = buf[w].then)
      BY <1>p, <1>t, <2>1
    <2>3. KeepsToJob(w)'
      BY <1>k, <2>1, <2>2 DEF KeepsToJob
    <2>4. Calm => PaceOf(w)'
      BY <1>b, <2>1, <2>2 DEF PaceOf, Counted
    <2>5. \A v \in Workers \ {w} : wpc'[v] = wpc[v] /\ kind'[v] = kind[v] /\ buf'[v] = buf[v]
      BY <1>t, <2>1
    <2>6. Alive(w)'
      BY <1>t, <2>2 DEF Alive
    <2>7. QED
      BY <1>a, <1>b, <2>1, <2>2, <2>3, <2>4, <2>5, <2>6, PacedStep
  <1>2. CASE Replace(w)
    <2>1. /\ wpc[w] = "replace" /\ file' = buf[w].file
          /\ wpc' = [wpc EXCEPT ![w] = buf[w].then]
          /\ buf' = [buf EXCEPT ![w] = NoWrite]
          /\ UNCHANGED <<kind, pre, flops, walked, raced, wipedLive>>
      BY <1>2 DEF Replace
    <2>2. wpc'[w] = buf[w].then /\ wpc'[w] \in {"crawl", "bulk", "mirror", "exit"}
          /\ file'.by = w
      BY <1>p, <1>t, <2>1
    <2>3. KeepsToJob(w)'
      BY <1>k, <2>1, <2>2 DEF KeepsToJob
    <2>4. Calm => PaceOf(w)'
      BY <1>b, <2>1, <2>2 DEF PaceOf, Counted
    <2>5. \A v \in Workers \ {w} : wpc'[v] = wpc[v] /\ kind'[v] = kind[v] /\ buf'[v] = buf[v]
      BY <1>t, <2>1
    <2>6. Alive(w)'
      BY <1>t, <2>2 DEF Alive
    <2>7. QED
      BY <1>a, <1>b, <2>1, <2>2, <2>3, <2>4, <2>5, <2>6, PacedStep
  <1>3. CASE Begin(w)
    <2>1. /\ WriteState(w, "running", file.failures, IF kind[w] = "bulk" THEN "bulk" ELSE "crawl")
          /\ wpc[w] = "first" /\ UNCHANGED <<file, kind, pre, flops, walked, raced, wipedLive>>
      BY <1>3 DEF Begin, Main
    <2>2. Calm => flops <= file.failures
      BY <1>b, <2>1 DEF PaceOf
    <2>3. "running" \in States
      BY DEF States
    <2> DEFINE then == IF kind[w] = "bulk" THEN "bulk" ELSE "crawl"
    <2>4. /\ then \in {"crawl", "bulk", "mirror", "exit"} /\ then # "mirror"
          /\ then = "crawl" => kind[w] # "bulk"
      OBVIOUS
    <2>5. WriteState(w, "running", file.failures, then)
      BY <2>1
    <2> HIDE DEF then
    <2>6. QED
      BY <1>a, <1>b, <1>t, <2>1, <2>2, <2>3, <2>4, <2>5, PacedWrite
  <1>4. CASE Plan(w)
    <2>1. /\ wpc[w] = "crawl" /\ wpc' = [wpc EXCEPT ![w] = "walk"]
          /\ pre' = [pre EXCEPT ![w] = file.failures]
          /\ UNCHANGED <<file, kind, buf, flops, walked, raced, wipedLive>>
      BY <1>4 DEF Plan, Main
    <2>2. KeepsToJob(w)' /\ Alive(w)' /\ wpc'[w] = "walk" /\ pre'[w] = file.failures
      BY <1>k, <1>t, <2>1 DEF KeepsToJob, Alive
    <2>3. Calm => PaceOf(w)'
      BY <1>b, <2>1, <2>2 DEF PaceOf, Counted
    <2>4. \A v \in Workers \ {w} : wpc'[v] = wpc[v] /\ kind'[v] = kind[v] /\ buf'[v] = buf[v]
      BY <1>t, <2>1
    <2>5. QED
      BY <1>a, <1>b, <2>1, <2>2, <2>3, <2>4, PacedStep
  <1>5. CASE Beat(w)
    <2>1. /\ wpc[w] \in {"crawl", "walk", "mirror", "bulk"}
          /\ file' = Written(w, "running", file.failures)
          /\ UNCHANGED <<wpc, kind, pre, buf, flops, walked, raced, wipedLive>>
      BY <1>5 DEF Beat
    <2>2. file'.by = w /\ file'.state = "running" /\ file'.failures = file.failures
      BY <2>1 DEF Written
    <2>3. KeepsToJob(w)' /\ Alive(w)'
      BY <1>a, <1>k, <2>1 DEF KeepsToJob, Alive
    <2>4. Calm => PaceOf(w)'
      BY <1>b, <1>k, <1>p, <2>1, <2>2 DEF PaceOf, Counted, KeepsToJob
    <2>5. QED
      BY <1>a, <1>b, <2>1, <2>2, <2>3, <2>4, PacedStep DEF KeepsToJob
  <1>6. CASE CrawlFails(w)
    <2>1. /\ WriteState(w, "failed", file.failures + 1, "exit")
          /\ wpc[w] \in {"walk", "crawl"}
          /\ UNCHANGED <<file, kind, pre, flops, walked, raced, wipedLive>>
      BY <1>6 DEF CrawlFails, Main
    <2>2. "failed" \in States /\ (Calm => flops <= file.failures)
      BY <1>b, <2>1 DEF States, PaceOf
    <2>3. QED
      BY <1>a, <1>b, <1>t, <2>1, <2>2, PacedWrite
  <1>7. CASE WalkEnds(w)
    <2>1. /\ WriteState(w, "done", 0, "mirror") /\ wpc[w] = "walk"
          /\ walked' = walked \cup {w}
          /\ UNCHANGED <<file, kind, pre, flops, raced, wipedLive>>
      BY <1>7 DEF WalkEnds, Main
    <2>2. "done" \in States /\ kind[w] # "bulk" /\ (Calm => flops <= pre[w])
      BY <1>b, <1>k, <2>1 DEF States, PaceOf, KeepsToJob
    <2>3. QED
      BY <1>a, <1>b, <1>t, <2>1, <2>2, PacedWrite
  <1>8. CASE WalkBreaks(w)
    <2>1. /\ WriteState(w, "cancelled", file.failures, "exit") /\ wpc[w] = "walk"
          /\ UNCHANGED <<file, kind, pre, flops, walked, raced, wipedLive>>
      BY <1>8 DEF WalkBreaks, Main
    <2>2. "cancelled" \in States /\ (Calm => flops <= file.failures)
      BY <1>b, <2>1 DEF States, PaceOf
    <2>3. QED
      BY <1>a, <1>b, <1>t, <2>1, <2>2, PacedWrite
  <1>9. CASE MirrorsDone(w)
    <2>1. /\ WriteState(w, "done", file.failures, "exit") /\ wpc[w] = "mirror"
          /\ UNCHANGED <<file, kind, pre, flops, walked, raced, wipedLive>>
      BY <1>9 DEF MirrorsDone, Main
    <2>2. "done" \in States /\ kind[w] # "bulk" /\ w \in walked
      BY <1>k, <1>p, <2>1 DEF States, KeepsToJob
    <2>3. QED
      BY <1>a, <1>b, <1>t, <2>1, <2>2, PacedWrite
  <1>10. CASE MirrorsFail(w)
    <2>1. /\ WriteState(w, "failed", pre[w] + 1, "exit") /\ wpc[w] = "mirror"
          /\ UNCHANGED <<file, kind, pre, flops, walked, raced, wipedLive>>
      BY <1>10 DEF MirrorsFail, Main
    <2>2. "failed" \in States /\ kind[w] # "bulk" /\ (Calm => flops <= pre[w])
      BY <1>b, <1>k, <2>1 DEF States, PaceOf, KeepsToJob
    <2>3. pre[w] \in Nat /\ pre[w] + 1 \in Nat
      BY <1>t
    <2>4. QED
      BY <1>a, <1>b, <1>t, <2>1, <2>2, <2>3, PacedWrite
  <1>11. CASE BulkEnds(w)
    <2>1. PICK state \in {"done", "failed"} : WriteState(w, state, file.failures, "exit")
      BY <1>11 DEF BulkEnds
    <2>2. /\ wpc[w] = "bulk" /\ kind[w] = "bulk"
          /\ UNCHANGED <<file, kind, pre, flops, walked, raced, wipedLive>>
      BY <1>11, <1>p DEF BulkEnds, Main
    <2>3. state \in States /\ (Calm => flops <= file.failures)
      BY <1>b, <2>2 DEF States, PaceOf
    <2>4. QED
      BY <1>a, <1>b, <1>t, <2>1, <2>2, <2>3, PacedWrite
  <1>12. CASE HandlerWrite(w)
    <2>1. /\ wpc[w] # "replace"
          /\ file' = Written(w, "cancelled", file.failures)
          /\ UNCHANGED <<wpc, kind, pre, buf, flops, walked, raced, wipedLive>>
      BY <1>12 DEF HandlerWrite
    <2>2. file'.by = w /\ file'.state = "cancelled" /\ file'.failures = file.failures
      BY <2>1 DEF Written
    <2>3. KeepsToJob(w)' /\ Alive(w)'
      BY <1>a, <1>k, <2>1 DEF KeepsToJob, Alive
    <2>4. Calm => PaceOf(w)'
      BY <1>b, <1>t, <2>1, <2>2 DEF PaceOf, Counted
    <2>5. QED
      BY <1>a, <1>b, <2>1, <2>2, <2>3, <2>4, PacedStep DEF KeepsToJob
  <1>13. CASE Exit(w) \/ HandlerExit(w) \/ WorkerDies(w)
    <2>1. Gone(w) /\ UNCHANGED <<file, walked, raced, wipedLive>>
      BY <1>13 DEF Exit, HandlerExit, WorkerDies
    <2>2. /\ wpc'[w] = "gone" /\ ~Alive(w)' /\ KeepsToJob(w)'
          /\ \A v \in Workers \ {w} : wpc'[v] = wpc[v] /\ kind'[v] = kind[v] /\ buf'[v] = buf[v]
      BY <1>t, <2>1 DEF Gone, Alive, KeepsToJob
    <2>3. Calm => flops' <= file'.failures
      BY <1>b, <1>t, <2>1 DEF Gone, PaceOf, Counted
    <2>4. QED
      BY <1>a, <1>b, <2>1, <2>2, <2>3, PacedStep
  <1>14. QED
    BY <1>1, <1>2, <1>3, <1>4, <1>5, <1>6, <1>7, <1>8, <1>9, <1>10, <1>11, <1>12, <1>13
    DEF WorkerStep

\* A process leaves the count alone, but for a wipe, and launches a worker
\* only when none is left that has something to answer for.
LEMMA ProcessPaced ==
    ASSUME TypeInv, Apart, Paced, NEW p \in Procs, UserStep(p) \/ ProcStep(p) \/ ProcessDies(p)
    PROVE  Paced'
  <1> USE DEF fileVars, procVars, workerVars, histVars, Goes
  <1>t. /\ wpc \in [Workers -> Stages] /\ kind \in [Workers -> Jobs \cup {"crawl"}]
        /\ flops \in Nat
    BY DEF TypeInv, TypeOK
  <1>1. ASSUME UNCHANGED <<file, wpc, kind, pre, buf, flops, walked, wipedLive>>,
               raced => raced'
        PROVE  Paced'
    BY <1>1 DEF Paced, KeepsToJob, PaceOf, Counted, Calm, Live, Alive
  <1>2. ASSUME NEW stale, AutoRefresh(p, stale)
        PROVE  UNCHANGED <<file, wpc, kind, pre, buf, flops, walked, wipedLive, raced>>
    BY <1>2 DEF AutoRefresh
  <1>3. CASE Start(p) \/ CancelProbe(p) \/ Kill(p) \/ Poll(p) \/ RecordPid(p)
    BY <1>1, <1>3 DEF Start, CancelProbe, Kill, Poll, RecordPid
  <1>4. CASE Probe(p) \/ ClearStale(p) \/ Unfile(p) \/ ProcessDies(p)
    BY <1>1, <1>4 DEF Probe, ClearStale, Unfile, ProcessDies, RemovePidfile
  <1>5. CASE WipeState(p)
    <2>1. /\ file' = NoFile /\ flops' = 0 /\ wipedLive' = wipedLive \cup Live
          /\ UNCHANGED <<wpc, kind, buf>>
      BY <1>5 DEF WipeState
    <2>2. \A w \in Workers : KeepsToJob(w)'
      BY <2>1 DEF Paced, KeepsToJob, NoFile, Workers
    <2>3. Calm' => Live' = {}
      BY <2>1 DEF Calm, Live, Alive
    <2>4. QED
      BY <2>1, <2>2, <2>3 DEF Paced, NoFile
  <1>6. CASE Launch(p)
    <2>1. PICK w \in Unborn : /\ wpc' = [wpc EXCEPT ![w] = "first"]
                              /\ kind' = [kind EXCEPT ![w] = job[p]]
      BY <1>6 DEF Launch
    <2>2. /\ pc[p] = "launch"
          /\ UNCHANGED <<file, pre, buf, flops, walked, wipedLive, raced>>
      BY <1>6 DEF Launch
    <2>3. /\ w \in Workers /\ wpc[w] = "unborn" /\ wpc'[w] = "first"
          /\ \A v \in Workers \ {w} : wpc'[v] = wpc[v] /\ kind'[v] = kind[v]
      BY <1>t, <2>1 DEF Unborn
    <2>4. \A v \in Workers : KeepsToJob(v)'
      BY <2>2, <2>3 DEF Paced, KeepsToJob
    <2>5. file.by # w
      BY <2>3 DEF Paced, KeepsToJob
    <2>6. Calm' => Calm /\ Live = {} /\ Live' \subseteq {w} /\ flops <= file.failures
      BY <2>2, <2>3 DEF Calm, Apart, Live, Alive, Paced
    <2>7. Calm' => PaceOf(w)'
      BY <2>2, <2>3, <2>5, <2>6 DEF PaceOf
    <2>8. QED
      BY <2>2, <2>4, <2>6, <2>7 DEF Paced
  <1>7. QED
    BY <1>1, <1>2, <1>3, <1>4, <1>5, <1>6 DEF UserStep, ProcStep

\* After MaxFailures crawls in a row that failed, mirrors included, no fresh
\* read starts another at once, as long as crawlers were kept apart.
THEOREM RespawnsBackOff == Spec => []BacksOff
  <1>1. Init => Paced
    BY DEF Init, Paced, KeepsToJob, NoFile, Live, Alive, Workers
  <1>2. TypeInv /\ Earned /\ Apart /\ OneCrawler /\ Paced /\ [Next]_vars => Paced'
    <2>1. ASSUME Paced, UNCHANGED vars PROVE Paced'
      BY <2>1 DEF vars, fileVars, procVars, workerVars, histVars, Paced, KeepsToJob, PaceOf,
                  Counted, Calm, Live, Alive
    <2>2. QED
      BY <2>1, ProcessPaced, WorkerPaced DEF Next
  <1>3. TypeInv /\ Paced => BacksOff
    <2> SUFFICES ASSUME TypeInv, Paced, Calm, Live = {}, file.state # "never_run",
                        RespawnEligible(FALSE)
                 PROVE  flops < MaxFailures
      BY DEF BacksOff
    <2>1. flops <= file.failures /\ file.failures < MaxFailures
      BY DEF Paced, RespawnEligible
    <2>2. QED
      BY <2>1, FileFacts DEF TypeInv, TypeOK
  <1>4. QED
    BY InitType, TypeStep, InitApart, ApartStep, InitEarned, EarnedStep, ApartIsEnough,
       <1>1, <1>2, <1>3, PTL DEF Spec

\* All that ControlIsSound says, where users start whole crawls and bulk jobs
\* only.
THEOREM ControlStaysSound ==
    ASSUME "filtered" \notin Jobs
    PROVE  Spec => []ControlIsSound
  <1>1. TypeOK /\ MarkIsEarned /\ DeltaHasBaselineUnlessWiped /\ OneCrawler /\ BacksOff
        => ControlIsSound
    BY DEF ControlIsSound
  <1>2. QED
    BY TypeCorrect, MarksAreEarned, DeltasAreBased, OneCrawlerAlways, RespawnsBackOff, <1>1, PTL

=============================================================================

----------------------------- MODULE BridgeClient -----------------------------
(***************************************************************************)
(* One generation of the bridge (crates/bite-bridge/src/client.rs): the    *)
(* request threads that call it, its reader thread, the helper process at  *)
(* the other end of two pipes, and the owner that may recycle it           *)
(* (BridgeHandle::reset_if_same in crates/bite-mcp/src/helper.rs).         *)
(*                                                                         *)
(* A request thread makes one call, so the thread stands for the request   *)
(* id it draws from next_id.  Each action is one critical section: one     *)
(* hold of the pending map, of the stdin mutex or of the child slot, one   *)
(* write to a pipe, or one wait on the response channel.                   *)
(*                                                                         *)
(* The helper runs requests one at a time.  A handler either has its       *)
(* effect and answers, fails without effect, or is abandoned by its        *)
(* watchdog, which answers "timeout" while the body runs on in the         *)
(* background (SBHelper.swift, withWatchdog).  It may stay inside one      *)
(* handler for ever, and die at any point.                                 *)
(***************************************************************************)
EXTENDS Naturals, Sequences

CONSTANTS
    Callers,    \* request threads
    NoCaller,   \* nobody
    Recyclers,  \* threads that recycle the generation when their call fails
    Large       \* calls whose request line does not fit a partly full pipe

ASSUME BridgeAssumption ==
    /\ NoCaller \notin Callers
    /\ Recyclers \subseteq Callers
    /\ Large \subseteq Callers

VARIABLES
    pc,          \* request thread -> where it is in call_timeout
    out,         \* request thread -> what call_timeout returned
    pending,     \* ids registered for a response
    chan,        \* request thread -> message in its response channel
    stdin,       \* "open" while the writer is there, "none" once torn down
    lock,        \* holder of the stdin mutex
    child,       \* the child slot still holds the process
    reader,      \* reader thread: "reading", "drain", "closing", "stopped"
    failing,     \* drained ids the reader has not answered yet
    up,          \* the helper process is running
    toHelper,    \* request lines in the helper's stdin pipe
    fromHelper,  \* response lines in the helper's stdout pipe
    busy,        \* the request the helper is executing
    late,        \* bodies abandoned by their watchdog and still running
    ran          \* requests whose effect happened

callerVars == <<pc, out, chan>>
helperVars == <<up, toHelper, busy, late, ran>>
vars == <<pc, out, pending, chan, stdin, lock, child, reader, failing,
          up, toHelper, fromHelper, busy, late, ran>>

Failures == {"helper_exited", "helper_exited_unsent", "timeout"}
Replies == {"ok", "error", "timeout"}

Init ==
    /\ pc = [c \in Callers |-> "start"]
    /\ out = [c \in Callers |-> "none"]
    /\ pending = {}
    /\ chan = [c \in Callers |-> "none"]
    /\ stdin = "open"
    /\ lock = NoCaller
    /\ child = TRUE
    /\ reader = "reading"
    /\ failing = {}
    /\ up = TRUE
    /\ toHelper = << >>
    /\ fromHelper = << >>
    /\ busy = NoCaller
    /\ late = {}
    /\ ran = {}

-----------------------------------------------------------------------------
(***************************************************************************)
(* call_timeout, in a request thread.                                      *)
(***************************************************************************)
At(c, from, to) == pc[c] = from /\ pc' = [pc EXCEPT ![c] = to]

\* The call returns o.  run_tool_retrying then recycles the generation on
\* any failure of the transport; other callers leave it as it is.
Returns(c, from, o) ==
    /\ At(c, from, IF c \in Recyclers /\ o \in Failures THEN "recycle" ELSE "done")
    /\ out' = [out EXCEPT ![c] = o]

Register(c) ==
    /\ At(c, "start", "lock")
    /\ pending' = pending \cup {c}
    /\ UNCHANGED <<out, chan, stdin, lock, child, reader, failing, fromHelper, helperVars>>

LockStdin(c) ==
    /\ At(c, "lock", "write")
    /\ lock = NoCaller
    /\ lock' = c
    /\ UNCHANGED <<out, pending, chan, stdin, child, reader, failing, fromHelper, helperVars>>

\* A large line is written only while the helper is reading.
Fits(c) == c \in Large => busy = NoCaller /\ toHelper = << >>

\* write_all and flush succeed; the guard is dropped at the end of the block.
WriteLine(c) ==
    /\ At(c, "write", "recv")
    /\ stdin = "open" /\ up
    /\ Fits(c)
    /\ toHelper' = Append(toHelper, c)
    /\ lock' = NoCaller
    /\ UNCHANGED <<out, pending, chan, stdin, child, reader, failing,
                   up, fromHelper, busy, late, ran>>

\* The write breaks on a closed pipe, or the reader already took the writer.
WriteFails(c) ==
    /\ At(c, "write", "unpend")
    /\ stdin = "none" \/ ~up
    /\ lock' = NoCaller
    /\ UNCHANGED <<out, pending, chan, stdin, child, reader, failing, fromHelper, helperVars>>

Unpend(c) ==
    /\ Returns(c, "unpend", "helper_exited_unsent")
    /\ pending' = pending \ {c}
    /\ UNCHANGED <<chan, stdin, lock, child, reader, failing, fromHelper, helperVars>>

Receive(c) ==
    /\ chan[c] # "none"
    /\ Returns(c, "recv", chan[c])
    /\ chan' = [chan EXCEPT ![c] = "none"]
    /\ UNCHANGED <<pending, stdin, lock, child, reader, failing, fromHelper, helperVars>>

\* recv_timeout gives up.
Expire(c) ==
    /\ At(c, "recv", "expired")
    /\ chan[c] = "none"
    /\ UNCHANGED <<out, pending, chan, stdin, lock, child, reader, failing, fromHelper, helperVars>>

Forget(c) ==
    /\ At(c, "expired", "probe")
    /\ pending' = pending \ {c}
    /\ UNCHANGED <<out, chan, stdin, lock, child, reader, failing, fromHelper, helperVars>>

\* is_alive decides between the two ambiguous codes.
Probe(c) ==
    /\ Returns(c, "probe", IF child /\ up THEN "timeout" ELSE "helper_exited")
    /\ UNCHANGED <<pending, chan, stdin, lock, child, reader, failing, fromHelper, helperVars>>

\* The helper process ends: what was in its stdin pipe or running is lost,
\* what it wrote stays readable.
ProcessEnds ==
    /\ up' = FALSE
    /\ toHelper' = << >>
    /\ busy' = NoCaller
    /\ late' = {}
    /\ UNCHANGED <<fromHelper, ran>>

\* Faulty variant of Recycle: the process is dropped, not killed.
RecycleWithoutKill(c) ==
    /\ At(c, "recycle", "done")
    /\ child' = FALSE
    /\ UNCHANGED <<out, pending, chan, stdin, lock, reader, failing, fromHelper, helperVars>>

\* kill_child: under the child slot's lock, take the process, kill it, wait.
Recycle(c) ==
    /\ At(c, "recycle", "done")
    /\ child' = FALSE
    /\ IF child THEN ProcessEnds ELSE UNCHANGED <<fromHelper, helperVars>>
    /\ UNCHANGED <<out, pending, chan, stdin, lock, reader, failing>>

-----------------------------------------------------------------------------
(***************************************************************************)
(* The helper process.                                                     *)
(***************************************************************************)
hostVars == <<pc, out, pending, chan, stdin, lock, child, reader, failing>>

Accept ==
    /\ up /\ busy = NoCaller /\ toHelper # << >>
    /\ busy' = Head(toHelper)
    /\ toHelper' = Tail(toHelper)
    /\ UNCHANGED <<hostVars, up, fromHelper, late, ran>>

\* The handler's effect, exactly once per execution of its body.
Act ==
    /\ up /\ busy # NoCaller /\ busy \notin ran
    /\ ran' = ran \cup {busy}
    /\ UNCHANGED <<hostVars, up, toHelper, fromHelper, busy, late>>

\* Faulty variant of Reply: the request is acknowledged, not its effect.
ReplyAcknowledges ==
    /\ up /\ busy # NoCaller
    /\ fromHelper' = Append(fromHelper, [to |-> busy, says |-> "ok"])
    /\ busy' = NoCaller
    /\ UNCHANGED <<hostVars, up, toHelper, late, ran>>

\* One response line: a result after the effect, an error without it.
Reply ==
    /\ up /\ busy # NoCaller
    /\ fromHelper' = Append(fromHelper,
                            [to |-> busy, says |-> IF busy \in ran THEN "ok" ELSE "error"])
    /\ busy' = NoCaller
    /\ UNCHANGED <<hostVars, up, toHelper, late, ran>>

\* withWatchdog stops waiting for the body, which is not cancelled.
Watchdog ==
    /\ up /\ busy # NoCaller
    /\ fromHelper' = Append(fromHelper, [to |-> busy, says |-> "timeout"])
    /\ late' = late \cup ({busy} \ ran)
    /\ busy' = NoCaller
    /\ UNCHANGED <<hostVars, up, toHelper, ran>>

\* An abandoned body reaches its effect, or fails before it.
LateAct ==
    /\ up
    /\ \E c \in late :
          /\ late' = late \ {c}
          /\ ran' \in {ran, ran \cup {c}}
    /\ UNCHANGED <<hostVars, up, toHelper, fromHelper, busy>>

\* A crash, or an exit the host did not ask for.
Die == up /\ ProcessEnds /\ UNCHANGED hostVars

-----------------------------------------------------------------------------
(***************************************************************************)
(* The reader thread.                                                      *)
(***************************************************************************)
Message == Head(fromHelper)

\* A response goes to the caller still registered for it, or nowhere.
Deliver ==
    /\ reader = "reading" /\ fromHelper # << >>
    /\ fromHelper' = Tail(fromHelper)
    /\ pending' = pending \ {Message.to}
    /\ chan' = IF Message.to \in pending
               THEN [chan EXCEPT ![Message.to] = Message.says] ELSE chan
    /\ UNCHANGED <<pc, out, stdin, lock, child, reader, failing, helperVars>>

\* End of file: take the child if it is still there, and wait for it.
Reap ==
    /\ reader = "reading" /\ fromHelper = << >> /\ ~up
    /\ child' = FALSE
    /\ reader' = "drain"
    /\ UNCHANGED <<callerVars, pending, stdin, lock, failing, fromHelper, helperVars>>

\* Faulty variant of Drain: the registered ids are not taken.
DrainNothing ==
    /\ reader = "drain"
    /\ reader' = "closing"
    /\ UNCHANGED <<callerVars, pending, failing, stdin, lock, child, fromHelper, helperVars>>

\* Take every registered id at once ...
Drain ==
    /\ reader = "drain"
    /\ failing' = pending
    /\ pending' = {}
    /\ reader' = "closing"
    /\ UNCHANGED <<callerVars, stdin, lock, child, fromHelper, helperVars>>

\* ... then tell them one by one ...
FailOne ==
    /\ reader = "closing"
    /\ \E c \in failing :
          /\ failing' = failing \ {c}
          /\ chan' = [chan EXCEPT ![c] = "helper_exited"]
    /\ UNCHANGED <<pc, out, pending, stdin, lock, child, reader, fromHelper, helperVars>>

\* ... and only then drop the writer, under the stdin mutex.
CloseStdin ==
    /\ reader = "closing" /\ failing = {} /\ lock = NoCaller
    /\ stdin' = "none"
    /\ reader' = "stopped"
    /\ UNCHANGED <<callerVars, pending, lock, child, failing, fromHelper, helperVars>>

-----------------------------------------------------------------------------
CallerStep(c) ==
    \/ Register(c) \/ LockStdin(c) \/ WriteLine(c) \/ WriteFails(c) \/ Unpend(c)
    \/ Receive(c) \/ Expire(c) \/ Forget(c) \/ Probe(c) \/ Recycle(c)

HelperStep == Accept \/ Act \/ Reply \/ Watchdog \/ LateAct \/ Die

ReaderStep == Deliver \/ Reap \/ Drain \/ FailOne \/ CloseStdin

Next == (\E c \in Callers : CallerStep(c)) \/ HelperStep \/ ReaderStep

Spec == Init /\ [][Next]_vars

\* Threads of the host are scheduled and timeouts expire; nothing is assumed
\* of the helper, which may hang inside a handler for ever.
FairSpec ==
    /\ Spec
    /\ \A c \in Callers : WF_vars(CallerStep(c))
    /\ WF_vars(ReaderStep)

-----------------------------------------------------------------------------
(***************************************************************************)
(* Properties.                                                             *)
(***************************************************************************)
PcStates == {"start", "lock", "write", "unpend", "recv", "expired", "probe",
             "recycle", "done"}

\* The variables have their types, and a call has an outcome exactly when
\* call_timeout has returned.
TypeOK ==
    /\ pc \in [Callers -> PcStates]
    /\ out \in [Callers -> Replies \cup Failures \cup {"none"}]
    /\ \A c \in Callers : out[c] = "none" <=> pc[c] \notin {"recycle", "done"}
    /\ pending \subseteq Callers
    /\ chan \in [Callers -> Replies \cup {"none", "helper_exited"}]
    /\ stdin \in {"open", "none"}
    /\ lock \in Callers \cup {NoCaller}
    /\ child \in BOOLEAN
    /\ reader \in {"reading", "drain", "closing", "stopped"}
    /\ failing \subseteq Callers
    /\ up \in BOOLEAN
    /\ toHelper \in Seq(Callers)
    /\ fromHelper \in Seq([to : Callers, says : Replies])
    /\ busy \in Callers \cup {NoCaller}
    /\ late \subseteq Callers
    /\ ran \subseteq Callers

Queued == {toHelper[i] : i \in DOMAIN toHelper}

\* The helper holds the request and may still execute it.
MayStillRun(c) == c \in Queued \/ c = busy \/ c \in late

\* The codes mean what protocol.rs and docs/protocol.md say.  After
\* helper_exited_unsent or a clean error the request has not run and never
\* will, whatever the helper does later; a result is returned only for a
\* request that ran; helper_exited is only said once the process is gone.
OutcomeIsHonest ==
    \A c \in Callers :
        /\ out[c] \in {"error", "helper_exited_unsent"}
             => c \notin ran /\ ~MayStillRun(c)
        /\ out[c] = "ok" => c \in ran
        /\ out[c] = "helper_exited" => ~up

\* A request exists in one place of the helper at most: it is never executed
\* by two bodies, queued behind its own execution, or executed again once
\* its effect happened and its body is gone.
NeverTwice ==
    /\ \A i, j \in DOMAIN toHelper : toHelper[i] = toHelper[j] => i = j
    /\ \A c \in Queued : c # busy /\ c \notin late /\ c \notin ran
    /\ late \cap (ran \cup {busy}) = {}

\* No waiter is forgotten when the helper dies: once the reader has drained
\* the pending map, whoever still waits has its message or is about to get
\* it.  It is what makes the gap between the drain and the closing of stdin
\* safe: a call that registers in the gap never reaches recv.
NoStrandedWaiter ==
    reader \in {"closing", "stopped"} =>
        \A c \in Callers : pc[c] = "recv" => chan[c] # "none" \/ c \in failing

\* The pending map is exact.  It does not leak: only a call that has not
\* returned is registered, and one that waits without a message always is, or
\* was drained.  And a call gets at most one message: whoever has one, or is
\* about to be told of the death, can get no other.  The channels have room
\* for one, so a second send would block the reader thread, and every call
\* with it.
PendingIsExact ==
    /\ \A c \in Callers :
          /\ c \in pending => pc[c] \in {"lock", "write", "unpend", "recv", "expired"}
          /\ pc[c] \in {"lock", "write", "recv"} /\ chan[c] = "none" /\ reader \in {"reading", "drain"}
               => c \in pending
    /\ pending \cap failing = {}
    /\ \A c \in pending \cup failing : chan[c] = "none"

\* What is true of the calls, the reader and the helper at any moment.
CallsAreSound ==
    TypeOK /\ OutcomeIsHonest /\ NeverTwice /\ NoStrandedWaiter /\ PendingIsExact

\* The client implements the contract its callers rely on.
Contract == INSTANCE CallContract
ImplementsContract == Contract!Spec

\* "how long the Rust side waits for the Swift helper to answer one call"
\* (docs/configuration.md:26) is bounded: every call returns, also from a
\* helper that hangs in a handler for ever, if every caller whose call
\* fails recycles the generation.
EveryCallReturns == \A c \in Callers : pc[c] = "lock" ~> pc[c] = "done"

=============================================================================

------------------------------- MODULE ToolCall -------------------------------
(***************************************************************************)
(* Tool calls in the MCP server (crates/bite-mcp/src/mcp.rs), one thread   *)
(* per call: the key table (run_tool_idempotent, module Idempotency), the  *)
(* retry policy (run_tool_retrying) and the shared bridge handle with its  *)
(* generations of helper processes (BridgeHandle in helper.rs).            *)
(*                                                                         *)
(* One attempt to call the helper is a call through the bridge, taken with *)
(* what CallContract promises of it; module BridgeClient shows that the    *)
(* bridge keeps the contract.  A call makes at most two attempts.          *)
(*                                                                         *)
(* `forgotten` records the keys the table evicted.  It is a history        *)
(* variable: no action reads it.                                           *)
(***************************************************************************)
EXTENDS Idempotency

CONSTANTS
    Calls,       \* tools/call requests served by this process
    KeyOf,       \* call -> its idempotency key, None without one
    FpOf,        \* call -> the digest of its arguments
    ReplaySafe,  \* calls of tools the registry marks replay_safe
    Searches     \* live mail_messages_search calls, which have no retry policy

Attempts == Calls \X {1, 2}

ASSUME ToolCallAssumption ==
    /\ KeyOf \in [Calls -> Keys \cup {None}] /\ None \notin Keys
    /\ FpOf \in [Calls -> Fingerprints]
    /\ Calls = Values
    /\ \A c \in ReplaySafe \cup Searches : c \in Calls /\ KeyOf[c] = None

VARIABLES
    pc,         \* call -> where its thread is
    result,     \* call -> the code of its outcome so far
    value,      \* call -> whose value a replay returned
    written,    \* call -> ToolRun::request_written
    genOf,      \* attempt -> the generation it was made on, 0 before it
    out, ran,   \* the attempts as CallContract sees them
    handle,     \* the generation the handle holds, 0 for none
    spawned,    \* generations spawned so far
    alive,      \* generations whose process runs
    forgotten   \* keys evicted so far

callVars == <<pc, result, value, written>>
helperVars == <<handle, spawned, alive>>
vars == <<tableVars, callVars, genOf, out, ran, helperVars, forgotten>>

Bridge == INSTANCE CallContract WITH Callers <- Attempts

Exited == {"helper_exited", "helper_exited_unsent"}
Failures == Exited \cup {"timeout"}

Init ==
    /\ TableInit
    /\ pc = [c \in Calls |-> "idle"]
    /\ result = [c \in Calls |-> "none"]
    /\ value = [c \in Calls |-> None]
    /\ written = [c \in Calls |-> FALSE]
    /\ genOf = [a \in Attempts |-> 0]
    /\ Bridge!Init
    /\ handle = 0 /\ spawned = 0 /\ alive = {}
    /\ forgotten = {}

Keyed(c) == KeyOf[c] # None

Goes(c, from, to) == pc[c] = from /\ pc' = [pc EXCEPT ![c] = to]

-----------------------------------------------------------------------------
(***************************************************************************)
(* run_tool_idempotent: look the key up and claim it in one lock hold.     *)
(***************************************************************************)
StartUnkeyed(c) ==
    /\ ~Keyed(c)
    /\ Goes(c, "idle", "get")
    /\ UNCHANGED <<tableVars, result, value, written, genOf, out, ran, helperVars, forgotten>>

StartFresh(c) ==
    /\ Keyed(c)
    /\ Goes(c, "idle", "get")
    /\ ReserveFresh(KeyOf[c], FpOf[c])
    /\ forgotten' = forgotten \cup EvictedKeys
    /\ UNCHANGED <<result, value, written, genOf, out, ran, helperVars>>

\* A completed call is replayed verbatim; any other record refuses the call.
StartRecorded(c) ==
    /\ Keyed(c)
    /\ Goes(c, "idle", "done")
    /\ LET verdict == ReserveVerdict(KeyOf[c], FpOf[c]) IN
          /\ verdict # "fresh"
          /\ result' = [result EXCEPT ![c] = IF verdict = "done" THEN "replayed" ELSE "refused"]
          /\ value' = [value EXCEPT ![c] = IF verdict = "done" THEN entry[KeyOf[c]].val ELSE None]
    /\ UNCHANGED <<tableVars, written, genOf, out, ran, helperVars, forgotten>>

-----------------------------------------------------------------------------
(***************************************************************************)
(* BridgeHandle::get, for the first attempt ("get") and for the replay     *)
(* ("reget").  The handle's lock is held across a spawn, so a spawn is one *)
(* step.                                                                   *)
(***************************************************************************)
Try(c) == IF pc[c] \in {"get", "call"} THEN <<c, 1>> ELSE <<c, 2>>

Get(c) ==
    /\ Goes(c, "get", "call") \/ Goes(c, "reget", "recall")
    /\ IF handle # 0
       THEN UNCHANGED helperVars
       ELSE /\ spawned' = spawned + 1
            /\ handle' = spawned'
            /\ alive' = alive \cup {spawned'}
    /\ genOf' = [genOf EXCEPT ![Try(c)] = handle']
    /\ UNCHANGED <<tableVars, result, value, written, out, ran, forgotten>>

\* The helper cannot be spawned, exits before its hello or never says it.
\* The last two reuse the codes of a call that failed ambiguously.
SpawnFails(c) ==
    /\ handle = 0
    /\ Goes(c, "get", "end") \/ Goes(c, "reget", "end")
    /\ \E code \in {"helper_spawn_failed", "helper_exited", "timeout"} :
          result' = [result EXCEPT ![c] = code]
    /\ UNCHANGED <<tableVars, value, written, genOf, out, ran, helperVars, forgotten>>

-----------------------------------------------------------------------------
(***************************************************************************)
(* The attempts.                                                           *)
(***************************************************************************)

\* The bridge answers the attempt c is waiting for.  It speaks of an exit
\* only when the process is gone.
Returned(c, o) ==
    LET g == genOf[Try(c)] IN
    /\ Bridge!Return(Try(c), o)
    /\ o \in Exited => g \notin alive
    /\ result' = [result EXCEPT ![c] = o]
    /\ UNCHANGED <<tableVars, value, genOf, helperVars, forgotten>>

\* First attempt: a failed transport is recycled, except by a live search.
FirstReturns(c, o) ==
    /\ Goes(c, "call", IF o \in Failures /\ c \notin Searches THEN "recycle" ELSE "end")
    /\ Returned(c, o)
    /\ written' = [written EXCEPT ![c] = o # "helper_exited_unsent"]

\* Faulty variant of MayReplay: any exit is replayed.
MayReplayAnyExit(c) == result[c] \in Exited

\* A replay is due after a provably unsent attempt, or an exit under a tool
\* that may run twice; never after a timeout.
MayReplay(c) ==
    \/ result[c] = "helper_exited_unsent"
    \/ (result[c] = "helper_exited" /\ c \in ReplaySafe)

\* Faulty variant of Current: whatever the handle holds is recycled.
CurrentAny(c) == handle # 0

\* reset_if_same: only the generation the attempt was made on.
Current(c) == handle = genOf[<<c, 1>>]

\* Faulty variant of Recycle: the process is waited for, not killed.
RecycleWaits(c) ==
    /\ Goes(c, "recycle", IF MayReplay(c) THEN "reget" ELSE "end")
    /\ IF Current(c)
       THEN handle' = 0 /\ handle \notin alive
       ELSE UNCHANGED handle
    /\ UNCHANGED <<tableVars, result, value, written, genOf, out, ran, spawned, alive, forgotten>>

Recycle(c) ==
    /\ Goes(c, "recycle", IF MayReplay(c) THEN "reget" ELSE "end")
    /\ IF Current(c)
       THEN handle' = 0 /\ alive' = alive \ {handle}
       ELSE UNCHANGED <<handle, alive>>
    /\ UNCHANGED <<tableVars, result, value, written, genOf, out, ran, spawned, forgotten>>

\* The replay's outcome is final, and recycles nothing.
ReplayReturns(c, o) ==
    /\ Goes(c, "recall", "end")
    /\ Returned(c, o)
    /\ written' = [written EXCEPT ![c] = written[c] \/ o # "helper_exited_unsent"]

\* The helper has the effect of an attempt, while the process runs.
Execute(a) ==
    /\ genOf[a] \in alive
    /\ Bridge!Run(a)
    /\ UNCHANGED <<tableVars, callVars, genOf, helperVars, forgotten>>

\* A helper process ends on its own.
HelperDies(g) ==
    /\ alive' = alive \ {g}
    /\ UNCHANGED <<tableVars, callVars, genOf, out, ran, handle, spawned, forgotten>>

-----------------------------------------------------------------------------
(***************************************************************************)
(* run_tool_idempotent: end the claim.                                     *)
(***************************************************************************)
Ambiguous(c) == result[c] \in {"helper_exited", "timeout"}

\* The failure leaves it open whether the call took effect.
Unsettled(c) == written[c] /\ Ambiguous(c)

Finish(c) ==
    /\ Goes(c, "end", "done")
    /\ \/ ~Keyed(c) /\ UNCHANGED tableVars
       \/ Keyed(c) /\ result[c] = "ok" /\ SettleDone(KeyOf[c], c)
       \/ Keyed(c) /\ Unsettled(c) /\ SettleUnknown(KeyOf[c])
       \/ Keyed(c) /\ result[c] # "ok" /\ ~Unsettled(c) /\ Release(KeyOf[c])
    /\ UNCHANGED <<result, value, written, genOf, out, ran, helperVars, forgotten>>

-----------------------------------------------------------------------------
CallStep(c) ==
    \/ StartUnkeyed(c) \/ StartFresh(c) \/ StartRecorded(c)
    \/ Get(c) \/ SpawnFails(c)
    \/ \E o \in Bridge!Outcomes : FirstReturns(c, o) \/ ReplayReturns(c, o)
    \/ Recycle(c) \/ Finish(c)

Next ==
    \/ \E c \in Calls : CallStep(c)
    \/ \E a \in Attempts : Execute(a)
    \/ \E g \in alive : HelperDies(g)

Spec == Init /\ [][Next]_vars

-----------------------------------------------------------------------------
(***************************************************************************)
(* Properties.                                                             *)
(***************************************************************************)
PcStates == {"idle", "get", "call", "recycle", "reget", "recall", "end", "done"}
Codes == Bridge!Outcomes \cup {"none", "helper_spawn_failed", "replayed", "refused"}

\* The variables have their types (the retention order is KeyTable's); a thread
\* that is past its attempts has an outcome, and the handle names a generation
\* that was spawned.
TypeOK ==
    /\ entry \in [Keys -> Entries]
    /\ pc \in [Calls -> PcStates]
    /\ result \in [Calls -> Codes]
    /\ \A c \in Calls : pc[c] \in {"idle", "get", "call"} <=> result[c] = "none"
    /\ value \in [Calls -> Calls \cup {None}]
    /\ written \in [Calls -> BOOLEAN]
    /\ spawned \in Nat /\ handle \in 0..spawned /\ alive \subseteq 1..spawned
    /\ genOf \in [Attempts -> 0..spawned]
    /\ out \in [Attempts -> Bridge!Outcomes \cup {"none"}]
    /\ ran \subseteq Attempts

Owner(c) == Keyed(c) /\ pc[c] \in PcStates \ {"idle", "done"}

\* The attempt had its effect, or its process may still bring it about.
MayCommit(a) == a \in ran \/ (genOf[a] \in alive /\ out[a] \notin Bridge!Clean)

\* A tool that is not replay-safe never takes effect twice in one call: a
\* second attempt is made only when the first can have no effect any more.
OneEffectPerCall ==
    \A c \in Calls \ ReplaySafe : ~(MayCommit(<<c, 1>>) /\ genOf[<<c, 2>>] # 0)

\* "two same-key calls can never both dispatch" (docs/protocol.md:182): as
\* long as the table remembers a key, at most one attempt of all the calls
\* that carry it has had, or may still have, an effect.
OneEffectPerKey ==
    \A a, b \in Attempts :
        /\ KeyOf[a[1]] = KeyOf[b[1]]
        /\ KeyOf[a[1]] \in Keys \ forgotten
        /\ MayCommit(a) /\ MayCommit(b)
        => a = b

\* A free key is safe to use again: unless it was evicted, no attempt made
\* under it took effect, and none can take effect late.
FreeKeyMeansUnsent ==
    \A a \in Attempts :
        KeyOf[a[1]] \in Keys \ forgotten /\ entry[KeyOf[a[1]]].st = "unset" => ~MayCommit(a)

\* A claim belongs to exactly one running call, and the table keeps it until
\* that call ends it.
ClaimsHaveOneOwner ==
    \A k \in Keys :
        /\ entry[k].st = "in_flight" <=> \E c \in Calls : Owner(c) /\ KeyOf[c] = k
        /\ \A c, d \in Calls : Owner(c) /\ Owner(d) /\ KeyOf[c] = k /\ KeyOf[d] = k => c = d

\* "Clean failures, failed helper spawns (no request was ever written), and
\* provably-unsent calls do not pin the key" (docs/protocol.md:182): a pin
\* means an attempt was written and failed ambiguously.
PinsAreEarned ==
    \A k \in Keys : entry[k].st = "unknown" =>
        \E a \in Attempts : KeyOf[a[1]] = k /\ out[a] \in Bridge!Ambiguous

\* A replay returns the value of a call that carried the same key and the
\* same arguments, and took effect.
ReplaysAreOwn ==
    \A c \in Calls : result[c] = "replayed" =>
        /\ value[c] \in Calls
        /\ KeyOf[value[c]] = KeyOf[c] /\ FpOf[value[c]] = FpOf[c]
        /\ \E i \in {1, 2} : <<value[c], i>> \in ran

\* "a sibling request thread may already have respawned a helper that must
\* not be killed for an older generation's crash" (mcp.rs:458): the handle
\* lets go of a generation only after a call failed on that very one.
OnlyItsOwnFailureRecycles ==
    [][handle # 0 /\ handle' # handle =>
         \E c \in Calls : genOf[<<c, 1>>] = handle /\ out[<<c, 1>>] \in Failures]_vars

\* "on either code it respawns the helper" (docs/protocol.md:89): a call that
\* was told of an exit does not leave the dead generation in the handle.
ExitsAreRecycled ==
    \A c \in Calls \ Searches : pc[c] = "done" /\ out[<<c, 1>>] \in Exited => handle # genOf[<<c, 1>>]

\* No call ever waits for another, for a lock or for a process to go: until it
\* is answered it can take a step of its own.  Each step takes its thread
\* forward (PcStates in their order), so a thread that runs is answered, as
\* the bridge answers every attempt (BridgeClient, EveryCallReturns).
NoCallIsStuck == \A c \in Calls : pc[c] # "done" => ENABLED CallStep(c)

\* What is true of the calls, the keys and the helpers at any moment.
CallsAreSound ==
    /\ TypeOK
    /\ OneEffectPerCall /\ OneEffectPerKey
    /\ FreeKeyMeansUnsent /\ ClaimsHaveOneOwner /\ PinsAreEarned
    /\ ReplaysAreOwn /\ ExitsAreRecycled

\* The calls keep what an idempotency key promises.
KeyStatus(k) ==
    IF k \in forgotten THEN "forgotten"
    ELSE IF entry[k].st = "unset" THEN "free"
    ELSE IF entry[k].st = "in_flight" THEN "claimed"
    ELSE IF entry[k].st = "done" THEN "done" ELSE "pinned"

SentUnder(k) == {a \in ran : KeyOf[a[1]] = k}

Promise == INSTANCE AtMostOnce WITH
    Sends <- Attempts,
    status <- [k \in Keys |-> KeyStatus(k)],
    sent <- [k \in Keys |-> SentUnder(k)]
KeepsPromise == Promise!Spec

=============================================================================

----------------------------- MODULE Idempotency -----------------------------
(***************************************************************************)
(* The per-process table of client-supplied idempotency keys               *)
(* (crates/bite-mcp/src/idempotency.rs).  Every operation below is one     *)
(* hold of the table's mutex, so each is one atomic action.                *)
(*                                                                         *)
(* The table is a retention queue `order` and a map `entry`.  A key the    *)
(* map does not hold is "unset".  The value of a completed call is an      *)
(* element of Values, an argument digest an element of Fingerprints.       *)
(*                                                                         *)
(* The request threads are represented by `owed`: the keys some thread     *)
(* has claimed and not yet settled or released.  run_tool_idempotent       *)
(* (mcp.rs) settles or releases exactly the key it claimed; module         *)
(* ToolCall composes the table with those threads.                         *)
(***************************************************************************)
EXTENDS Naturals, Sequences, SequencesExt

CONSTANTS
    Keys,          \* client-chosen keys
    Fingerprints,  \* digests of the stripped arguments
    Values,        \* results of completed calls
    None,          \* no digest / no result
    MaxKeys        \* MAX_KEYS, the retention cap

ASSUME IdempotencyAssumption ==
    /\ MaxKeys \in Nat \ {0}
    /\ None \notin Fingerprints
    /\ None \notin Values

VARIABLES
    order,  \* retention order, oldest first
    entry   \* key -> what is recorded under it

tableVars == <<order, entry>>

(***************************************************************************)
(* Entries.                                                                *)
(***************************************************************************)
Unset == [st |-> "unset", fp |-> None, val |-> None]

InFlight(fp) == [st |-> "in_flight", fp |-> fp, val |-> None]

Recorded(k, outcome, v) == [st |-> outcome, fp |-> entry[k].fp, val |-> v]

Entries == [st  : {"unset", "in_flight", "done", "unknown"},
            fp  : Fingerprints \cup {None},
            val : Values \cup {None}]

Held == {k \in Keys : entry[k].st # "unset"}

(***************************************************************************)
(* Eviction: beyond the cap the oldest completed key goes, the oldest      *)
(* unknown pin when there is none, and never a key in flight.              *)
(***************************************************************************)
OldestWith(st, i) ==
    /\ entry[order[i]].st = st
    /\ \A j \in 1..(i - 1) : entry[order[j]].st # st

\* Faulty variant of IsVictim: the oldest settled key without preferring replays.
IsVictimNoPreference(i) ==
    /\ entry[order[i]].st \in {"done", "unknown"}
    /\ \A j \in 1..(i - 1) : entry[order[j]].st = "in_flight"

IsVictim(i) ==
    \/ OldestWith("done", i)
    \/ /\ \A j \in DOMAIN order : entry[order[j]].st # "done"
       /\ OldestWith("unknown", i)

Full == Len(order) >= MaxKeys

Victims == IF Full THEN {i \in DOMAIN order : IsVictim(i)} ELSE {}

EvictedKeys == {order[i] : i \in Victims}

OrderAfterEvict ==
    IF Victims = {} THEN order ELSE RemoveAt(order, CHOOSE i \in Victims : TRUE)

EntryAfterEvict ==
    [k \in Keys |-> IF k \in EvictedKeys THEN Unset ELSE entry[k]]

(***************************************************************************)
(* Operations.                                                             *)
(***************************************************************************)

\* Faulty variant of ReserveVerdict: an unknown pin does not hold its key.
ReserveVerdictPinIgnored(k, fp) ==
    IF entry[k].st \in {"unset", "unknown"} THEN "fresh"
    ELSE IF entry[k].fp # fp THEN "reused"
    ELSE entry[k].st

\* What a lookup of key k under digest fp answers; "fresh" claims the key.
ReserveVerdict(k, fp) ==
    IF entry[k].st = "unset" THEN "fresh"
    ELSE IF entry[k].fp # fp THEN "reused"
    ELSE entry[k].st

\* The key is free: make room, then record it in flight for the caller.
ReserveFresh(k, fp) ==
    /\ ReserveVerdict(k, fp) = "fresh"
    /\ order' = Append(OrderAfterEvict, k)
    /\ entry' = [EntryAfterEvict EXCEPT ![k] = InFlight(fp)]

SettleDone(k, v) ==
    /\ entry[k].st # "unset"
    /\ entry' = [entry EXCEPT ![k] = Recorded(k, "done", v)]
    /\ UNCHANGED order

SettleUnknown(k) ==
    /\ entry[k].st # "unset"
    /\ entry' = [entry EXCEPT ![k] = Recorded(k, "unknown", None)]
    /\ UNCHANGED order

\* Faulty variant of Release: the key stays in the retention queue.
ReleaseKeepsPlace(k) ==
    IF entry[k].st = "in_flight"
    THEN entry' = [entry EXCEPT ![k] = Unset] /\ UNCHANGED order
    ELSE UNCHANGED tableVars

\* Releasing removes the claim, and only a claim still in flight.
Release(k) ==
    IF entry[k].st = "in_flight"
    THEN /\ entry' = [entry EXCEPT ![k] = Unset]
         /\ \E i \in DOMAIN order :
               /\ order[i] = k
               /\ \A j \in 1..(i - 1) : order[j] # k
               /\ order' = RemoveAt(order, i)
    ELSE UNCHANGED tableVars

TableInit ==
    /\ order = << >>
    /\ entry = [k \in Keys |-> Unset]

-----------------------------------------------------------------------------
(***************************************************************************)
(* What holds of the table under the request threads (module KeyTable).    *)
(***************************************************************************)

\* The queue and the map have their types.
TableTypeOK == order \in Seq(Keys) /\ entry \in [Keys -> Entries]

\* The retention queue and the map never drift apart: the queue lists every
\* recorded key exactly once.  settle relies on it (an entry is updated in
\* place and never queued twice), and evict_if_full on its converse (a
\* position found in the queue always names a recorded key).
QueueMatchesMap ==
    /\ \A i, j \in DOMAIN order : order[i] = order[j] => i = j
    /\ \A i \in DOMAIN order : order[i] \in Held
    /\ \A k \in Held : \E i \in DOMAIN order : order[i] = k

\* What is true of the table at any moment.
TableIsSound == TableTypeOK /\ QueueMatchesMap

\* Eviction never takes a claim from under its owner (evict_if_full passes
\* over keys in flight): a key in flight is let go of only by a release, which
\* shortens the queue and touches no other key.
ClaimsAreNeverEvicted ==
    [][\A k \in Keys :
         entry[k].st = "in_flight" /\ entry'[k].st = "unset" =>
           /\ Len(order') < Len(order)
           /\ \A q \in Keys \ {k} : entry'[q] = entry[q]]_tableVars

\* The table exceeds its cap only if it had to: a key beyond the cap is
\* admitted only while every recorded key is in flight, so the size never
\* passes the cap or the largest number of concurrent claims there ever was.
GrowsOnlyWhenAllInFlight ==
    [][Len(order') > Len(order) /\ Len(order) >= MaxKeys
         => \A k \in Held : entry[k].st = "in_flight"]_tableVars

\* "the pin is the state that guards against a double send, so it outlives
\* replays whenever there is a choice" (idempotency.rs:190): a step that
\* forgets an unknown pin does it with the table full, with no completed key
\* to forget instead, and forgets no other pin.
PinsOutliveReplays ==
    [][\A k \in Keys :
         entry[k].st = "unknown" /\ entry'[k].st = "unset" =>
           /\ Full
           /\ \A q \in Keys : entry[q].st # "done"
           /\ \A q \in Keys : entry[q].st = "unknown" /\ entry'[q].st = "unset"
                               => q = k]_tableVars

\* The table lets go of a key only when it must, of pins last, and never of a
\* claim.
EvictionIsOrderly ==
    ClaimsAreNeverEvicted /\ GrowsOnlyWhenAllInFlight /\ PinsOutliveReplays

\* A settled outcome is final: until it is evicted, the recorded state, its
\* digest and its value never change, whatever the threads do.
OutcomesAreFinal ==
    [][\A k \in Keys :
         entry[k].st \in {"done", "unknown"} => entry'[k] \in {entry[k], Unset}]_tableVars

=============================================================================

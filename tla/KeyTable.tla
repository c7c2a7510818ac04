------------------------------- MODULE KeyTable -------------------------------
(***************************************************************************)
(* The key table of module Idempotency driven by request threads: a        *)
(* thread claims a key, and ends its claim exactly once, by a settle or a  *)
(* release (run_tool_idempotent in crates/bite-mcp/src/mcp.rs).            *)
(***************************************************************************)
EXTENDS Idempotency

VARIABLE owed   \* keys a thread has claimed and not yet settled or released

vars == <<order, entry, owed>>

Init == TableInit /\ owed = {}

\* run_tool_idempotent got Reserved::Fresh: this thread now owes an ending.
Claim(k, fp) ==
    /\ ReserveFresh(k, fp)
    /\ owed' = owed \cup {k}

\* The key is recorded: the call is answered or refused from the table.
Repeat(k, fp) ==
    /\ ReserveVerdict(k, fp) # "fresh"
    /\ UNCHANGED vars

\* The tool run completed with value v.
Complete(k, v) ==
    /\ k \in owed
    /\ SettleDone(k, v)
    /\ owed' = owed \ {k}

\* A request was written and the failure code is ambiguous.
Pin(k) ==
    /\ k \in owed
    /\ SettleUnknown(k)
    /\ owed' = owed \ {k}

\* Any other failure: provably nothing was sent.
Abandon(k) ==
    /\ k \in owed
    /\ Release(k)
    /\ owed' = owed \ {k}

Next ==
    \/ \E k \in Keys, fp \in Fingerprints : Claim(k, fp) \/ Repeat(k, fp)
    \/ \E k \in Keys, v \in Values : Complete(k, v)
    \/ \E k \in Keys : Pin(k) \/ Abandon(k)

Spec == Init /\ [][Next]_vars

-----------------------------------------------------------------------------
(***************************************************************************)
(* What holds of the threads; Idempotency states what holds of the table.  *)
(***************************************************************************)

\* The variables have their types.
TypeOK == TableTypeOK /\ owed \subseteq Keys

\* A key is in flight exactly while one thread owes its ending: no claim is
\* evicted under its owner, and none outlives it.
InFlightIffOwed == \A k \in Keys : entry[k].st = "in_flight" <=> k \in owed

=============================================================================

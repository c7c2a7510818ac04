------------------------------ MODULE AtMostOnce ------------------------------
(***************************************************************************)
(* What an idempotency key promises (docs/protocol.md, "idempotency_key"): *)
(* the calls made under one key have at most one effect between them.  A   *)
(* key is freed only when nothing was sent, and nothing ever will be; a    *)
(* pinned key may still see its one effect happen late.  The promise ends  *)
(* when the server has to forget the key.                                  *)
(***************************************************************************)
CONSTANTS Keys, Sends

VARIABLES
    status,  \* key -> "free", "claimed", "done", "pinned" or "forgotten"
    sent     \* key -> the sends that took effect under it

promiseVars == <<status, sent>>

Init ==
    /\ status = [k \in Keys |-> "free"]
    /\ sent = [k \in Keys |-> {}]

Becomes(k, from, to) == status[k] = from /\ status' = [status EXCEPT ![k] = to]

\* The server forgets settled keys, to make room for the key it records.
Forgets(k, becomes) ==
    \E lost \in SUBSET {q \in Keys : status[q] \in {"done", "pinned"}} :
        status' = [q \in Keys |-> IF q \in lost THEN "forgotten"
                                  ELSE IF q = k THEN becomes ELSE status[q]]

Claim(k) == status[k] = "free" /\ Forgets(k, "claimed") /\ UNCHANGED sent

\* A key that was forgotten before is recorded again.
Reclaim(k) == status[k] = "forgotten" /\ Forgets(k, "forgotten") /\ UNCHANGED sent

Send(k) ==
    /\ status[k] \in {"claimed", "pinned"}
    /\ sent[k] = {}
    /\ \E s \in Sends : sent' = [sent EXCEPT ![k] = {s}]
    /\ UNCHANGED status

Finish(k) == sent[k] # {} /\ Becomes(k, "claimed", "done") /\ UNCHANGED sent

Pin(k) == Becomes(k, "claimed", "pinned") /\ UNCHANGED sent

Free(k) == sent[k] = {} /\ Becomes(k, "claimed", "free") /\ UNCHANGED sent

\* Nothing is promised of a forgotten key.
Unpromised(k) ==
    /\ status[k] = "forgotten"
    /\ \E S \in SUBSET Sends : sent' = [sent EXCEPT ![k] = S]
    /\ UNCHANGED status

Next ==
    \E k \in Keys :
        \/ Claim(k) \/ Send(k) \/ Finish(k) \/ Pin(k) \/ Free(k)
        \/ Reclaim(k) \/ Unpromised(k)

Spec == Init /\ [][Next]_promiseVars

=============================================================================

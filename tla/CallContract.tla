----------------------------- MODULE CallContract -----------------------------
(***************************************************************************)
(* What one call through the bridge promises its caller (docs/protocol.md, *)
(* "Replay semantics"; the error constructors of bite-bridge/protocol.rs). *)
(* A call has an effect inside the helper at most once, possibly after its *)
(* caller was answered.  "ok" is said only of a call that ran; "error" and *)
(* "helper_exited_unsent" only of a call that did not run and never will;  *)
(* the other codes promise nothing.                                        *)
(***************************************************************************)
CONSTANT Callers   \* the calls, one per request thread

Clean == {"error", "helper_exited_unsent"}
Ambiguous == {"helper_exited", "timeout"}
Outcomes == Clean \cup Ambiguous \cup {"ok"}

VARIABLES
    out,   \* call -> "none" while it is open, then its outcome
    ran    \* calls whose effect happened inside the helper

contractVars == <<out, ran>>

Init == out = [c \in Callers |-> "none"] /\ ran = {}

Run(c) ==
    /\ c \notin ran
    /\ out[c] \notin Clean
    /\ ran' = ran \cup {c}
    /\ UNCHANGED out

Return(c, o) ==
    /\ out[c] = "none"
    /\ o = "ok" => c \in ran
    /\ o \in Clean => c \notin ran
    /\ out' = [out EXCEPT ![c] = o]
    /\ UNCHANGED ran

Next == \E c \in Callers : Run(c) \/ \E o \in Outcomes : Return(c, o)

Spec == Init /\ [][Next]_contractVars

=============================================================================

------------------------------ MODULE MCToolCall ------------------------------
(* ToolCall with three calls: b repeats the key and the arguments of a, and  *)
(* c, of a replay-safe tool, has no key.                                     *)
EXTENDS ToolCall, TLC

CONSTANTS k1, f1, a, b, c

MCKeys == {k1}
MCFingerprints == {f1}
MCCalls == {a, b, c}
MCKeyOf == (a :> k1) @@ (b :> k1) @@ (c :> None)
MCFpOf == [x \in MCCalls |-> f1]
MCReplaySafe == {c}

=============================================================================

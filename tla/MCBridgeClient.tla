---------------------------- MODULE MCBridgeClient ----------------------------
(* BridgeClient with two request threads, one of which writes a large        *)
(* request.                                                                  *)
EXTENDS BridgeClient

CONSTANTS a, b

MCTwo == {a, b}
MCOne == {b}

=============================================================================

------------------------------ MODULE MCRelease ------------------------------
(* Release with two versions and two crates. *)
EXTENDS Release

MCCrates == <<"bite-bridge", "bite-mcp">>

=============================================================================

----------------------------- MODULE MCEndpoints -----------------------------
(* An instance of Endpoints for TLC. *)
EXTENDS Endpoints

MCPorts == {1}
MCEphemeral == {7, 8}

=============================================================================

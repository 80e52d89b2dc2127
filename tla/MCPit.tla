-------------------------------- MODULE MCPit -------------------------------
(* Pit for TLC.                                                            *)
EXTENDS Pit

=============================================================================

------------------------------ MODULE MCStream ------------------------------
(* Values of the constants of Stream for TLC: payloads around both limits. *)
EXTENDS Stream

MCKind == {"Hello", "FileChunk", "Error"}
MCPeers == {"same", "newer", "any"}
=============================================================================

----------------------------- MODULE MCImsgRpc ------------------------------
(***************************************************************************)
(* Two callers beside the connection that respawns.                        *)
(***************************************************************************)
EXTENDS ImsgRpc

CONSTANTS c1, c2
=============================================================================

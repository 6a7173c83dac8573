--------------------------- MODULE MCBridgeServer ---------------------------
(***************************************************************************)
(* Two connections.                                                        *)
(***************************************************************************)
EXTENDS BridgeServer

CONSTANTS c1, c2
=============================================================================

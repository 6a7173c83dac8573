----------------------------- MODULE MCLiveSync -----------------------------
(***************************************************************************)
(* More messages than a poll returns, one of which may change.             *)
(***************************************************************************)
EXTENDS LiveSync
=============================================================================

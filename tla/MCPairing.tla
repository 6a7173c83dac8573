----------------------------- MODULE MCPairing -----------------------------
(***************************************************************************)
(* Two clients behind one address, two codes, and time for a ticket to     *)
(* expire.  The clients are interchangeable.                               *)
(***************************************************************************)
EXTENDS Pairing, TLC

CONSTANTS c1, c2

Symmetry == Permutations({c1, c2})
=============================================================================

----------------------------- MODULE MCDesktop ------------------------------
(***************************************************************************)
(* Two texts, or one and a retry, and a message of another.  What a text   *)
(* says does not matter, so the texts are interchangeable.                 *)
(***************************************************************************)
EXTENDS Desktop, TLC

CONSTANTS d1, d2

Symmetry == Permutations({d1, d2})
=============================================================================

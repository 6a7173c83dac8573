--------------------------- MODULE MCLinkSession ----------------------------
(***************************************************************************)
(* Two servers and two request tasks.  Request tasks are interchangeable,  *)
(* and so are servers.                                                     *)
(***************************************************************************)
EXTENDS LinkSession, TLC

CONSTANTS s1, s2, r1, r2

Symmetry == Permutations({s1, s2}) \cup Permutations({r1, r2})
=============================================================================

-------------------------- MODULE MCSettingsStore --------------------------
(***************************************************************************)
(* A task of the daemon and a command, and two servers.  No property tells *)
(* passwords apart, so one is enough.                                      *)
(***************************************************************************)
EXTENDS SettingsStore, TLC

CONSTANTS p1, p2, s1, s2, w1

Symmetry == Permutations({p1, p2}) \cup Permutations({s1, s2})
=============================================================================

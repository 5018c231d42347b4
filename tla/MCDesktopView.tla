---------------------------- MODULE MCDesktopView ----------------------------
(* Small instances of the registry with a client that follows it, for TLC. *)
EXTENDS DesktopView, TLC

CONSTANTS a1, a2, p1, p2

\* Only their names tell applications and objects apart.
Symmetry == Permutations({a1, a2}) \cup Permutations({p1, p2})
=============================================================================

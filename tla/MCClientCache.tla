---------------------------- MODULE MCClientCache ----------------------------
(* Three objects below the application for TLC. *)
EXTENDS ClientCache, TLC

CONSTANTS root, o1, o2, o3

\* Only their names tell the objects below the application apart.
Symmetry == Permutations({o1, o2, o3})
=============================================================================

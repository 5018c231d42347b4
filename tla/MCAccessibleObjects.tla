------------------------- MODULE MCAccessibleObjects -------------------------
(* Two objects below the root for TLC. *)
EXTENDS AccessibleObjects

CONSTANTS root, o1, o2

=============================================================================

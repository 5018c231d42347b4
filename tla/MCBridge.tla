------------------------------ MODULE MCBridge ------------------------------
(* Small instances of the bridge, for TLC. *)
EXTENDS Bridge, TLC

CONSTANTS t1, t2

Text == <<"Object", "TextChanged">>
Types == {<<"Object">>, Text}
Events == {Text, <<"Window", "Activate">>}
Symmetry == Permutations({t1, t2})
=============================================================================

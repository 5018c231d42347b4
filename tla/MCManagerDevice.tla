-------------------------- MODULE MCManagerDevice --------------------------
(* Small instances of the device with an accessibility manager, for TLC. *)
EXTENDS ManagerDevice

\* One key, with and without caps lock, and another one.
Definitions == {[keycode |-> 3, keysym |-> 70, modifiers |-> {}],
                [keycode |-> 3, keysym |-> 70, modifiers |-> {1}],
                [keycode |-> 5, keysym |-> 71, modifiers |-> {15}]}
=============================================================================

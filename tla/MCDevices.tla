------------------------------ MODULE MCDevices ------------------------------
(* Small instances of the devices, for TLC. *)
EXTENDS Devices

\* A key that may be mapped to a modifier, a letter grabbed with and without that
\* modifier, which X does not know, and a keypad key that is grabbed by its symbol.
Keypad5 == 90
Keycodes == 1..4
Codes == [s \in {Keypad5} |-> 4]
WithModifiers(bits) == [keycode |-> 3, keysym |-> 0, modifiers |-> bits]
Definitions == {WithModifiers({}), WithModifiers({12}),
                [keycode |-> 0, keysym |-> Keypad5, modifiers |-> {}]}
Bits == {12, 13, 14, 15}
\* Another client of X has the keypad key with caps lock.
TakenByOthers == {<<4, {1}>>}
=============================================================================

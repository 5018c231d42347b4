--------------------------- MODULE MCEventListener ---------------------------
(* Small instances of the event listeners, for TLC. *)
EXTENDS EventListener, TLC

CONSTANTS c1, c2

Changed == <<"Object", "StateChanged">>
Text == <<"Object", "TextChanged">>
\* One class of events and one kind of event in it.
Types == {<<"Object">>, Changed}
Events == {Changed, Text}
=============================================================================

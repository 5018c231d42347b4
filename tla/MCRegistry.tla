----------------------------- MODULE MCRegistry -----------------------------
(* Small instances of the registry alone, for TLC. *)
EXTENDS Registry

\* Mouse events as a class, with a detail that is polled for and with one that is not.
MCEventTypes == {<<"Mouse">>, <<"Mouse", "Abs">>, <<"Mouse", "Button">>}
=============================================================================

------------------------------- MODULE Devices -------------------------------
(***************************************************************************)
(* The device of an assistive technology (atspi_device_new_full): that of  *)
(* X11, or, where WAYLAND_DISPLAY is set, that of the accessibility        *)
(* manager.  Its grabs and ids are those of Device in both.  The legacy    *)
(* device is left out.                                                     *)
(***************************************************************************)
EXTENDS ManagerDevice

CONSTANTS Window, NoWindow, PointerRoot, Keycode, OnKeypad, KeycodeOf, Taken,
          ModifierKey, VirtualBit, LockBit, NumBit, SymbolicNumBit, Careful,
          MaxMoves, MaxMaps

ASSUME ModifierAssumption ==
  /\ VirtualBit \subseteq Nat /\ SymbolicNumBit \in VirtualBit
  /\ {LockBit, NumBit} \cap VirtualBit = {}
ASSUME CarefulAssumption == Careful \in BOOLEAN

VARIABLES
  backend,  \* the device that was made
  \* the variables of X11Device, as far as Device and ManagerDevice have none
  alive, keyGrabs, modifiers, virtualMods, keyboardGrabbed, focusedWindow, held,
  focus, queue, reported, raced, moves, maps

X11 == INSTANCE X11Device

managerOnly == <<grabbedKeys, mapped, enabledMods, scheduled, manager, changes, crashes>>
x11Only == <<alive, keyGrabs, modifiers, virtualMods, keyboardGrabbed, focusedWindow, held,
             focus, queue, reported, raced, moves, maps>>

\* No manager watches the keyboard for a device with X11.
DevicesInit ==
  /\ Init /\ X11!Init
  /\ backend \in {"x11", "manager"}
  /\ backend = "x11" => ~watched

DevicesNext ==
  \/ backend = "x11" /\ X11!Next /\ UNCHANGED <<backend, managerOnly>>
  \/ backend = "manager" /\ Next /\ UNCHANGED <<backend, x11Only>>

DevicesSpec == DevicesInit /\ [][DevicesNext]_<<vars, x11Only, backend>>

-----------------------------------------------------------------------------
(* Properties *)

\* On X11, X holds for the device exactly the grabs that the assistive
\* technology wants and other clients leave to it, see X11Device.
GrabsAreHeld == backend = "x11" => X11!GrabsAreHeld

\* On X11, a key event is reported exactly once, from the raw event or the other
\* one, see X11Device.
KeyReportedOnce == backend = "x11" => X11!KeyReportedOnce

\* An id stands for one grab or one watcher, also after the ids have wrapped;
\* with a manager, the backend's keys are those of the grabs, see ManagerDevice.
IdsAndKeysAgree == IdsIdentify /\ (backend = "manager" => KeysMatchGrabs)

\* With a manager, it has what the assistive technology grabs and maps unless a
\* call failed, see ManagerDevice.
ManagerIsTold == backend = "manager" => ManagerHasGrabs
=============================================================================

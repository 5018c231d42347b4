--------------------------- MODULE ManagerDevice ---------------------------
(***************************************************************************)
(* AtspiDevice on a compositor with the accessibility manager interface    *)
(* (atspi/atspi-device-a11y-manager.c).  The device keeps what the         *)
(* assistive technology grabs and maps, and hands the manager the whole of *)
(* it, 10 ms after a change.  The manager sends it the key events.  Every  *)
(* call to the manager may fail, and the device ignores it: a failed       *)
(* SetKeyGrabs is sent again only with the next change.                    *)
(*                                                                         *)
(* Keys are known by their symbols here.  The bits of modifiers are        *)
(* numbers, FirstBit (15) to LastBit (31) those of virtual ones.           *)
(***************************************************************************)
EXTENDS Device, Sequences, SequencesExt

CONSTANTS Keysym,             \* keys that are mapped to modifiers
          FirstBit, LastBit,  \* VIRTUAL_MOD_START, VIRTUAL_MOD_END
          CapsLock, NumLock,  \* MODIFIER_CAPSLOCK, MODIFIER_NUMLOCK
          MaxChanges,         \* bound: calls to map, unmap and remove
          MaxKeys,            \* bound: key events
          MaxCrashes          \* bound: losses of the manager

ASSUME BitAssumption == FirstBit \in Nat \ {0} /\ LastBit \in Nat

VARIABLES
  grabbedKeys,       \* grabbed_keys: symbols with modifiers
  grabbedModifiers,  \* grabbed_modifiers: symbols
  virtualModifiers,  \* virtual_modifiers, in the order of the list
  enabledMods,       \* enabled_virtual_modifiers
  scheduled,         \* refresh_timeout_id is set
  installed,         \* manager: the grabs it keeps for this client
  watched,           \* manager: it sends key events to this client
  failed,            \* the last SetKeyGrabs failed, or the manager ended after it
  down,              \* keys that are pressed
  changes, keys, crashes  \* bounded counters

mapped == <<grabbedModifiers, virtualModifiers>>
manager == <<installed, watched, failed>>
vars == <<device, grabbedKeys, mapped, enabledMods, scheduled, manager, down,
          changes, keys, crashes>>

NoGrabs == [modifiers |-> {}, keys |-> {}]

-----------------------------------------------------------------------------
(* Grabs *)

KeyOf(kd) == [keysym |-> kd.keysym, modifiers |-> kd.modifiers]

\* What refresh_grabs sends: each key with and without the locks.
WithLocks(key) ==
  {[keysym |-> key.keysym, modifiers |-> key.modifiers \cup s] : s \in SUBSET {CapsLock, NumLock}}
Wanted == [modifiers |-> grabbedModifiers, keys |-> UNION {WithLocks(k) : k \in grabbedKeys}]

\* (Fault: changes are not sent.)
ScheduleNothing == UNCHANGED scheduled
ScheduleRefresh == scheduled' = TRUE

\* refresh_keys_timeout_cb: the manager takes the grabs, or the call fails, as
\* when the manager has gone, answers too late, or does not know the client by
\* the name it should have (ACCESS_DENIED).
RefreshTimeout ==
  /\ scheduled
  /\ scheduled' = FALSE
  /\ \/ installed' = Wanted /\ failed' = FALSE
     \/ installed' \in {installed, Wanted} /\ failed' = TRUE
  /\ UNCHANGED <<device, grabbedKeys, mapped, enabledMods, watched, down, changes, keys, crashes>>

\* (Fault: a key that is grabbed is grabbed again.)
HasKeyGrabNone(kd) == FALSE
HasKeyGrab(kd) == KeyOf(kd) \in grabbedKeys

AddKeyGrab(kd) ==
  /\ ~HasKeyGrab(kd)
  /\ grabbedKeys' = grabbedKeys \cup {KeyOf(kd)}
  /\ KeepGrab(kd)
  /\ ScheduleRefresh
  /\ UNCHANGED <<mapped, enabledMods, manager, down, changes, keys, crashes>>

\* (Fault: the grabs of the key go whatever their modifiers.)
UngrabbedAll(kd) == {k \in grabbedKeys : k.keysym # kd.keysym}
Ungrabbed(kd) == grabbedKeys \ {KeyOf(kd)}

RemoveKeyGrab(g) ==
  /\ changes < MaxChanges
  /\ changes' = changes + 1
  /\ grabbedKeys' = Ungrabbed(g.kd)
  /\ DropGrab(g)
  /\ IF HasKeyGrab(g.kd) THEN ScheduleRefresh ELSE UNCHANGED scheduled
  /\ UNCHANGED <<mapped, enabledMods, manager, down, keys, crashes>>

-----------------------------------------------------------------------------
(* Modifiers *)

Before(i) == IF i = 1 THEN FirstBit - 1 ELSE virtualModifiers[i - 1].modifier
\* get_unused_virtual_modifier: the first hole in the list, or the bit after
\* the last one; 0 stands for none.  A bit below the former one is taken for a
\* hole too, the difference being unsigned.
UnusedModifier ==
  LET n == Len(virtualModifiers)
      holes == {i \in 1..n : virtualModifiers[i].modifier - Before(i) \notin {0, 1}}
  IN IF holes # {} THEN Before(CHOOSE i \in holes : \A j \in holes : i <= j) + 1
     ELSE IF Before(n + 1) < LastBit THEN Before(n + 1) + 1 ELSE 0

\* After the bit below, if some key has it, or at the end.
Inserted(entry) ==
  LET i == SelectInSeq(virtualModifiers, LAMBDA e : e.modifier = entry.modifier - 1)
  IN IF i = 0 THEN Append(virtualModifiers, entry)
     ELSE InsertAt(virtualModifiers, i + 1, entry)

ModifiersOf(keysym) == {e.modifier : e \in {f \in Range(virtualModifiers) : f.keysym = keysym}}

MapKeysymModifier(keysym) ==
  /\ changes < MaxChanges
  /\ changes' = changes + 1
  /\ ModifiersOf(keysym) = {}
  /\ UnusedModifier # 0
  /\ virtualModifiers' = Inserted([modifier |-> UnusedModifier, keysym |-> keysym])
  /\ grabbedModifiers' = grabbedModifiers \cup {keysym}
  /\ ScheduleRefresh
  /\ UNCHANGED <<device, grabbedKeys, enabledMods, manager, down, keys, crashes>>

\* The first entry of the key, if there is one, goes.
UnmapKeysymModifier(keysym) ==
  /\ changes < MaxChanges
  /\ changes' = changes + 1
  /\ virtualModifiers' = RemoveFirstMatch(virtualModifiers, LAMBDA e : e.keysym = keysym)
  /\ grabbedModifiers' = grabbedModifiers \ {keysym}
  /\ ScheduleRefresh
  /\ UNCHANGED <<device, grabbedKeys, enabledMods, manager, down, keys, crashes>>

AddKeyWatcher ==
  /\ WatchKeys
  /\ UNCHANGED <<grabbedKeys, mapped, enabledMods, scheduled, manager, down, changes, keys, crashes>>

ModsAfter(keysym, pressed) ==
  IF pressed THEN enabledMods \cup ModifiersOf(keysym) ELSE enabledMods \ ModifiersOf(keysym)

\* A key is pressed or released, and the signal about it handled.
KeyEvent(keysym) ==
  /\ keys < MaxKeys
  /\ keys' = keys + 1
  /\ down' = IF keysym \in down THEN down \ {keysym} ELSE down \cup {keysym}
  /\ enabledMods' = IF watched THEN ModsAfter(keysym, keysym \notin down) ELSE enabledMods
  /\ UNCHANGED <<device, grabbedKeys, mapped, scheduled, manager, changes, crashes>>

\* The manager ends, and may come back: it knows nothing of this client then.
Crash ==
  /\ crashes < MaxCrashes
  /\ crashes' = crashes + 1
  /\ installed' = NoGrabs
  /\ watched' = FALSE
  /\ failed' = TRUE
  /\ UNCHANGED <<device, grabbedKeys, mapped, enabledMods, scheduled, down, changes, keys>>

-----------------------------------------------------------------------------

\* RequestName and WatchKeyboard may have failed, unnoticed.
Init ==
  /\ DeviceInit
  /\ grabbedKeys = {} /\ grabbedModifiers = {} /\ virtualModifiers = <<>>
  /\ enabledMods = {} /\ scheduled = FALSE
  /\ installed = NoGrabs /\ watched \in BOOLEAN /\ failed = FALSE
  /\ down = {} /\ changes = 0 /\ keys = 0 /\ crashes = 0

Next ==
  \/ RefreshTimeout
  \/ \E kd \in Definition : AddKeyGrab(kd)
  \/ \E g \in grabs : RemoveKeyGrab(g)
  \/ \E k \in Keysym : MapKeysymModifier(k) \/ UnmapKeysymModifier(k) \/ KeyEvent(k)
  \/ AddKeyWatcher
  \/ Crash

Spec == Init /\ [][Next]_vars

-----------------------------------------------------------------------------
(* Properties *)

\* Unless the last SetKeyGrabs failed, which nothing makes up for before the next
\* change (refresh_grabs ignores errors), or a timeout is set that will send it,
\* the manager has exactly the keys of the grabs that the assistive technology
\* holds ids of, with and without the locks, and the keys that modifiers are
\* mapped to (schedule_refresh_grabs merges changes that follow each other).
ManagerHasGrabs ==
  \/ scheduled \/ failed
  \/ /\ installed.keys = UNION {WithLocks(KeyOf(g.kd)) : g \in grabs}
     /\ installed.modifiers = {e.keysym : e \in Range(virtualModifiers)}

\* The keys that the backend keeps are those of the grabs that the assistive
\* technology knows, one of each: has_key_grab keeps apart what remove_key_grab
\* finds by key and modifiers.
KeysMatchGrabs ==
  /\ grabbedKeys = {KeyOf(g.kd) : g \in grabs}
  /\ \A g, h \in grabs : KeyOf(g.kd) = KeyOf(h.kd) => g = h

\* The assistive technology, the device and the backend mean the same grabs, by
\* their ids and by their keys.
GrabsAgree == IdsIdentify /\ KeysMatchGrabs

\* Two keys are never mapped to one modifier (map_keysym_modifier).
ModifiersAreApart ==
  \A i, j \in DOMAIN virtualModifiers :
    virtualModifiers[i].modifier = virtualModifiers[j].modifier => i = j
=============================================================================

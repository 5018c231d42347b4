----------------------------- MODULE X11Device -----------------------------
(***************************************************************************)
(* AtspiDevice on X11 (atspi/atspi-device-x11.c): the grabs that an        *)
(* assistive technology (AT) holds in the X server, the modifiers it maps  *)
(* keys to, and the key events it is told of.                              *)
(*                                                                         *)
(* A passive grab of X is for a window, a key code and a set of modifiers. *)
(* The device grabs for the window it believes to have the focus, and a    *)
(* grab with virtual modifiers only while these are on, so it moves its    *)
(* grabs whenever either changes.  X sends for each key event a raw event  *)
(* and, unless no window has the focus, the event itself; the master       *)
(* device's copies of both change nothing further and are left out.        *)
(*                                                                         *)
(* Sets of modifiers are sets of the numbers of their bits.                *)
(***************************************************************************)
EXTENDS Device, Sequences, SequencesExt

CONSTANTS Window, NoWindow, PointerRoot,
          Keycode,      \* the keys of the keyboard
          OnKeypad,     \* those on the keypad
          KeycodeOf,    \* key symbols to codes: XKeysymToKeycode
          Taken,        \* grabs other clients of X hold
          ModifierKey,  \* keys that the AT maps to modifiers
          VirtualBit,   \* the bits of ATSPI_VIRTUAL_MODIFIER_MASK
          LockBit, NumBit, SymbolicNumBit,
          Careful,      \* the AT keeps the keyboard for one window, and not to the end
          MaxKeys,      \* bound: key events
          MaxMoves,     \* bound: changes of the focus
          MaxMaps       \* bound: calls to map a key

VARIABLES
  alive,            \* the device is not finalized
  keyGrabs,         \* key_grabs
  modifiers,        \* modifiers: keys with the bit they are mapped to
  virtualMods,      \* virtual_mods_enabled
  keyboardGrabbed,  \* keyboard_grabbed
  focusedWindow,    \* focused_window
  held,             \* grabs this client holds in X
  focus,            \* X: the window with the focus
  down,             \* X: keys that are pressed
  queue,            \* X events on their way to the device
  reported,         \* times the last key event handled was reported
  raced,            \* the device had another focus in mind than X, when it mattered
  keys, moves, maps \* bounded counters

local == <<alive, keyGrabs, modifiers, virtualMods, keyboardGrabbed, focusedWindow>>
server == <<focus, down>>
vars == <<device, local, held, server, queue, reported, raced, keys, moves, maps>>

Focus == Window \cup {NoWindow, PointerRoot}

-----------------------------------------------------------------------------
(* Grabs in X *)

Combinations(window, keycode, mods, optional) ==
  {<<window, keycode, mods \cup s>> : s \in SUBSET optional}

\* X grants what no other client holds; there is no grabbing without a window.
Granted(combinations) ==
  {c \in combinations : c[1] \in Window /\ <<c[2], c[3]>> \notin Taken}

\* grab_key and ungrab_key: with and without the locks, as far as they are not
\* asked for; a key of the keypad is another key when num lock is on.
Grabbing(window, keycode, mods) ==
  Combinations(window, keycode, mods,
               IF keycode \in OnKeypad THEN {LockBit} ELSE {LockBit, NumBit})
Ungrabbing(window, keycode, mods) ==
  Combinations(window, keycode, mods, {LockBit, NumBit})

Code(kd) == IF kd.keysym # 0 THEN KeycodeOf[kd.keysym] ELSE kd.keycode
Physical(kd) == kd.modifiers \ VirtualBit

ShouldBeEnabled(kd, on, whole) == ~whole /\ kd.modifiers \cap VirtualBit \subseteq on

\* (Fault: grabs with other virtual modifiers are not seen as duplicates.)
HasActiveDuplicateExact(list, i) ==
  \E j \in DOMAIN list \ {i} : list[j].enabled /\ list[j].kd = list[i].kd
HasActiveDuplicate(list, i) ==
  \E j \in DOMAIN list \ {i} :
    /\ list[j].enabled
    /\ list[j].kd.keycode = list[i].kd.keycode
    /\ list[j].kd.keysym = list[i].kd.keysym
    /\ Physical(list[j].kd) = Physical(list[i].kd)

\* The functions below take and give the list with what is held: a record s.
Enabled(s, i, window) ==
  [list |-> [s.list EXCEPT ![i].enabled = TRUE, ![i].window = window],
   held |-> IF HasActiveDuplicate(s.list, i) THEN s.held
            ELSE s.held \cup Granted(Grabbing(window, Code(s.list[i].kd), Physical(s.list[i].kd)))]

Disabled(s, i) ==
  LET g == s.list[i]
      list == [s.list EXCEPT ![i].enabled = FALSE]
  IN IF ~g.enabled THEN s
     ELSE [list |-> list,
           held |-> IF HasActiveDuplicate(list, i) THEN s.held
                    ELSE s.held \ Ungrabbing(g.window, Code(g.kd), Physical(g.kd))]

Switched(s, i, on, off) ==
  IF i \in off THEN Disabled(s, i)
  ELSE IF i \in on /\ ~s.list[i].enabled THEN Enabled(s, i, focus)
  ELSE s

\* A loop over key_grabs that enables those at on and disables those at off.
SwitchedAll(s, on, off) ==
  LET after[n \in 0..Len(s.list)] ==
        IF n = 0 THEN s ELSE Switched(after[n - 1], n, on, off)
  IN after[Len(s.list)]

\* The second loop of refresh_key_grabs, with the modifiers on; whole: the keyboard
\* is grabbed.
Settled(s, on, whole) ==
  LET should == {i \in DOMAIN s.list : ShouldBeEnabled(s.list[i].kd, on, whole)}
  IN SwitchedAll(s, should, DOMAIN s.list \ should)

\* (Fault: the grabs stay with the window that had the focus.)
RefreshedInPlace(s, on, whole) == Settled(s, on, whole)
\* refresh_key_grabs
Refreshed(s, on, whole) ==
  LET elsewhere == {i \in DOMAIN s.list : s.list[i].window # focus}
  IN Settled(SwitchedAll(s, {}, elsewhere), on, whole)

Now == [list |-> keyGrabs, held |-> held]
Become(s) == keyGrabs' = s.list /\ held' = s.held
Refresh(on, whole) == Become(Refreshed(Now, on, whole)) /\ focusedWindow' = focus

-----------------------------------------------------------------------------
(* Calls of the AT *)

rest == <<server, queue, reported, raced, keys, moves>>

AddKeyGrab(kd) ==
  LET i == Len(keyGrabs) + 1
      new == [list |-> Append(keyGrabs, [kd |-> kd, enabled |-> FALSE, window |-> NoWindow]),
              held |-> held]
      granted == Granted(Grabbing(focusedWindow, Code(kd), Physical(kd)))
  IN /\ alive
     /\ IF ~ShouldBeEnabled(kd, virtualMods, keyboardGrabbed) THEN Become(new)
        ELSE /\ HasActiveDuplicate(new.list, i) \/ granted # {}
             /\ Become(Enabled(new, i, focusedWindow))
     /\ KeepGrab(kd)
     /\ UNCHANGED <<alive, modifiers, virtualMods, keyboardGrabbed, focusedWindow, maps, rest>>

\* (Fault: the modifiers are not compared.)
SameKeyOnly(kd, other) ==
  \/ kd.keycode # 0 /\ kd.keycode = other.keycode
  \/ kd.keysym # 0 /\ kd.keysym = other.keysym
SameKey(kd, other) ==
  /\ \/ kd.keycode # 0 /\ kd.keycode = other.keycode
     \/ kd.keysym # 0 /\ kd.keysym = other.keysym
  /\ kd.modifiers = other.modifiers

\* atspi_device_remove_key_grab: the backend removes the first of its grabs
\* that is for the same key.
RemoveKeyGrab(g) ==
  LET i == SelectInSeq(keyGrabs, LAMBDA o : SameKey(g.kd, o.kd))
      s == Disabled(Now, i)
  IN /\ alive
     /\ IF i = 0 THEN Become(Now) ELSE keyGrabs' = RemoveAt(s.list, i) /\ held' = s.held
     /\ DropGrab(g)
     /\ UNCHANGED <<alive, modifiers, virtualMods, keyboardGrabbed, focusedWindow, maps, rest>>

AddKeyWatcher == alive /\ WatchKeys /\ UNCHANGED <<local, held, maps, rest>>

\* find_virtual_mapping: 0 stands for no modifier.
Mapping(keycode) ==
  LET i == SelectInSeq(modifiers, LAMBDA e : e.keycode = keycode)
  IN IF i = 0 THEN 0 ELSE modifiers[i].modifier

\* get_unused_virtual_modifier; num lock's symbolic bit counts as used.
UnusedModifier ==
  LET unused == VirtualBit \ ({SymbolicNumBit} \cup {e.modifier : e \in Range(modifiers)})
  IN IF unused = {} THEN 0 ELSE CHOOSE b \in unused : \A c \in unused : b <= c

\* A key that is neither shift nor control, whose modifier of X it would return.
MapModifier(keycode) ==
  /\ alive
  /\ maps < MaxMaps
  /\ maps' = maps + 1
  /\ Mapping(keycode) = 0
  /\ modifiers' = Append(modifiers, [keycode |-> keycode, modifier |-> UnusedModifier])
  /\ UNCHANGED <<alive, keyGrabs, virtualMods, keyboardGrabbed, focusedWindow, held, device, rest>>

UnmapModifier(keycode) ==
  LET i == SelectInSeq(modifiers, LAMBDA e : e.keycode = keycode)
  IN /\ alive
     /\ i # 0
     /\ modifiers' = RemoveAt(modifiers, i)
     /\ UNCHANGED <<alive, keyGrabs, virtualMods, keyboardGrabbed, focusedWindow, held, device, maps, rest>>

WholeKeyboard(window) == UNION {Grabbing(window, k, {}) : k \in Keycode}

GrabKeyboard ==
  LET s == Refreshed(Now, virtualMods, TRUE)
  IN /\ alive /\ ~keyboardGrabbed
     /\ keyboardGrabbed' = TRUE
     /\ focusedWindow' = focus
     /\ keyGrabs' = s.list
     /\ held' = s.held \cup Granted(WholeKeyboard(focus))
     /\ UNCHANGED <<alive, modifiers, virtualMods, device, maps, rest>>

\* The keys are released for the window that has the focus now.
UngrabKeyboard ==
  LET released == UNION {Ungrabbing(focusedWindow, k, {}) : k \in Keycode}
  IN /\ alive /\ keyboardGrabbed
     /\ keyboardGrabbed' = FALSE
     /\ Become(Refreshed([list |-> keyGrabs, held |-> held \ released], virtualMods, FALSE))
     /\ focusedWindow' = focus
     /\ UNCHANGED <<alive, modifiers, virtualMods, device, maps, rest>>

Finalize ==
  /\ alive
  /\ Careful => ~keyboardGrabbed
  /\ alive' = FALSE
  /\ keyGrabs' = <<>>
  /\ held' = SwitchedAll(Now, {}, DOMAIN keyGrabs).held
  /\ grabs' = {}
  /\ modifiers' = <<>>
  /\ UNCHANGED <<virtualMods, keyboardGrabbed, focusedWindow, watchers, lastGrabId, added, maps, rest>>

-----------------------------------------------------------------------------
(* X and the AT's main loop *)

FocusMoves(window) ==
  /\ alive /\ moves < MaxMoves
  /\ window # focus
  /\ Careful => ~keyboardGrabbed
  /\ focus' = window
  /\ moves' = moves + 1
  /\ UNCHANGED <<local, held, device, down, queue, reported, raced, keys, maps>>

\* A FocusIn event, or a window event of an application: they come at any time.
FocusNoticed ==
  /\ alive
  /\ Refresh(virtualMods, keyboardGrabbed)
  /\ UNCHANGED <<alive, modifiers, virtualMods, keyboardGrabbed, device, maps, rest>>

\* A key is pressed or released: one that may be mapped, for the others have no
\* effect that these, while not mapped, do not have.
Key(keycode) ==
  LET event(kind) == [kind |-> kind, keycode |-> keycode, pressed |-> keycode \notin down,
                      focus |-> focus]
  IN /\ alive /\ keys < MaxKeys
     /\ keys' = keys + 1
     /\ down' = IF keycode \in down THEN down \ {keycode} ELSE down \cup {keycode}
     /\ queue' = queue \o (IF focus = NoWindow THEN <<event("raw")>>
                           ELSE <<event("raw"), event("device")>>)
     /\ UNCHANGED <<local, held, device, focus, reported, raced, moves, maps>>

\* set_virtual_modifier: the modifiers on after a key event.
ModsAfter(keycode, pressed) ==
  LET modifier == {Mapping(keycode)} \ {0}
  IN IF pressed THEN virtualMods \cup modifier ELSE virtualMods \ modifier

SetVirtualModifier(keycode, pressed) ==
  LET on == ModsAfter(keycode, pressed)
  IN IF on = virtualMods THEN UNCHANGED <<keyGrabs, virtualMods, focusedWindow, held>>
     ELSE virtualMods' = on /\ Refresh(on, keyboardGrabbed)

\* using_raw_key_fallback.
UsingRaw(window) == window \in {NoWindow, PointerRoot}

\* A raw event is reported only in the fallback.
HandleRaw ==
  LET e == Head(queue)
      skipped == ~UsingRaw(focusedWindow)
  IN /\ alive /\ queue # <<>> /\ e.kind = "raw"
     /\ queue' = Tail(queue)
     /\ IF skipped THEN UNCHANGED <<keyGrabs, virtualMods, focusedWindow, held>>
        ELSE SetVirtualModifier(e.keycode, e.pressed)
     /\ reported' = IF skipped THEN 0 ELSE 1
     /\ raced' = (raced \/ UsingRaw(e.focus) = skipped)
     /\ UNCHANGED <<alive, modifiers, keyboardGrabbed, device, server, keys, moves, maps>>

\* (Fault: also in the fallback.)
IsReportedAlways(window) == TRUE
\* A device event is reported when the raw one was not.
IsReported(window) == ~UsingRaw(window)

HandleDevice ==
  LET e == Head(queue)
  IN /\ alive /\ queue # <<>> /\ e.kind = "device"
     /\ queue' = Tail(queue)
     /\ SetVirtualModifier(e.keycode, e.pressed)
     /\ reported' = IF IsReported(focusedWindow') THEN reported + 1 ELSE reported
     /\ raced' = (raced \/ UsingRaw(e.focus) # UsingRaw(focusedWindow'))
     /\ UNCHANGED <<alive, modifiers, keyboardGrabbed, device, server, keys, moves, maps>>

-----------------------------------------------------------------------------

Init ==
  /\ DeviceInit
  /\ alive = TRUE
  /\ keyGrabs = <<>> /\ modifiers = <<>>
  /\ virtualMods = {} /\ keyboardGrabbed = FALSE
  /\ focus \in Focus /\ focusedWindow = focus
  /\ held = {} /\ down = {} /\ queue = <<>>
  /\ reported = 1 /\ raced = FALSE
  /\ keys = 0 /\ moves = 0 /\ maps = 0

Next ==
  \/ \E kd \in Definition : AddKeyGrab(kd)
  \/ \E g \in grabs : RemoveKeyGrab(g)
  \/ AddKeyWatcher
  \/ \E k \in ModifierKey : MapModifier(k) \/ UnmapModifier(k)
  \/ GrabKeyboard \/ UngrabKeyboard \/ Finalize
  \/ \E w \in Focus : FocusMoves(w)
  \/ FocusNoticed
  \/ \E k \in ModifierKey : Key(k)
  \/ HandleRaw \/ HandleDevice

Spec == Init /\ [][Next]_vars

-----------------------------------------------------------------------------
(* Properties *)

\* What X should hold for the device: of the grabs the AT has, those whose
\* virtual modifiers are on, or all keys, for the window that the device
\* believes to have the focus.
Wanted ==
  IF keyboardGrabbed THEN WholeKeyboard(focusedWindow)
  ELSE UNION {Grabbing(focusedWindow, Code(g.kd), Physical(g.kd)) :
              g \in {h \in grabs : ShouldBeEnabled(h.kd, virtualMods, FALSE)}}

\* However grabs of one key, modifiers and the focus come and go, X holds for
\* the device exactly what the AT has by its ids and other clients leave to it:
\* refresh_key_grabs moves the grabs, duplicates in enable_key_grab and
\* disable_key_grab take over from each other, and remove_key_grab, which
\* searches by key and modifiers, finds the right one.  A finalized device
\* holds nothing.
GrabsAreHeld == held = IF alive THEN Granted(Wanted) ELSE {}

\* A key event is reported exactly once, from the raw event or the other one,
\* unless X and the device have different ideas of the focus meanwhile (the
\* cases XI_RawKeyPress and XI_KeyPress of do_event_dispatch).
KeyReportedOnce ==
  (queue = <<>> \/ Head(queue).kind = "raw") => reported = 1 \/ raced
=============================================================================

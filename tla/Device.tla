------------------------------- MODULE Device -------------------------------
(***************************************************************************)
(* The part of AtspiDevice (atspi/atspi-device.c) that its backends share: *)
(* the key grabs and key watchers of an assistive technology and the ids   *)
(* it knows them by.  X11Device and ManagerDevice are the backends.        *)
(*                                                                         *)
(* Ids are unsigned integers that wrap; IdSize stands for 2^32.            *)
(***************************************************************************)
EXTENDS Integers, FiniteSets

CONSTANTS Definition,  \* the key definitions that are grabbed
          IdSize,      \* number of ids
          MaxGrabs,    \* bound: grabs at a time
          MaxAdded     \* bound: ids ever given out

ASSUME IdAssumption == IdSize \in Nat /\ IdSize > 1
ASSUME DeviceBoundAssumption == MaxGrabs \in Nat /\ MaxAdded \in Nat

VARIABLES grabs,       \* keygrabs: records of an id and a definition
          watchers,    \* ids of key_watchers, which nothing removes
          lastGrabId,  \* last_grab_id
          added        \* ids given out so far

device == <<grabs, watchers, lastGrabId, added>>

Id == 0..(IdSize - 1)

DeviceInit == grabs = {} /\ watchers = {} /\ lastGrabId = 0 /\ added = 0

IsIdUsed(id) == id = 0 \/ id \in watchers \/ \E g \in grabs : g.id = id

\* (Fault: the ids are taken to be free once they wrap.)
GrabIdUnchecked(id) == id = IF lastGrabId = 0 THEN 1 ELSE lastGrabId
\* The search for an unused id begins at the last one and wraps.
GrabId(id) ==
  /\ ~IsIdUsed(id)
  /\ \A i \in Id : ~IsIdUsed(i) => (id - lastGrabId) % IdSize <= (i - lastGrabId) % IdSize

\* get_grab_id gives out id.
Give(id) ==
  /\ added < MaxAdded
  /\ GrabId(id)
  /\ lastGrabId' = (id + 1) % IdSize
  /\ added' = added + 1

\* The backend took kd: the device keeps a grab of its own.
KeepGrab(kd) ==
  /\ Cardinality(grabs) < MaxGrabs
  /\ \E id \in Id : Give(id) /\ grabs' = grabs \cup {[id |-> id, kd |-> kd]}
  /\ UNCHANGED watchers

\* The backend let go of the definition of g.
DropGrab(g) == grabs' = grabs \ {g} /\ UNCHANGED <<watchers, lastGrabId, added>>

\* atspi_device_add_key_watcher.
WatchKeys ==
  /\ \E id \in Id : Give(id) /\ watchers' = watchers \cup {id}
  /\ UNCHANGED grabs

\* An id stands for one grab or one watcher, also after the ids have wrapped:
\* what the assistive technology removes by its id is what it added.
IdsIdentify ==
  /\ \A g, h \in grabs : g.id = h.id => g = h
  /\ \A g \in grabs : g.id \notin watchers \cup {0}
=============================================================================

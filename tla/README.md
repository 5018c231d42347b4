# A TLA+ verification of at-spi2-core

at-spi2-core connects applications and assistive technologies (ATs: screen
readers, on-screen keyboards, test tools) over a D-Bus bus of its own.  This
directory holds TLA+ models of the parts of it that keep state and talk to each
other, TLC configurations that check them on small instances, and proofs of
their main invariants that TLAPS checks for all instances.

Run from this directory: `tlc -config <name>.cfg <module>` for a row of the
table of runs, `tlapm <module>.tla` for a module of proofs.  `PROJECT.json` maps
each definition to the lines of code it was translated from.

## The system

| part | state | operations | talks to |
|---|---|---|---|
| **registry daemon**, `registryd/registry.c` | `apps` (applications in the desktop, with `disabled`, `pending` ping, process id), `events` (event registrations), `id` | Embed, Unembed, RegisterEvent, DeregisterEvent, GetChildren..., handling of NameOwnerChanged, a ping round every 30 s | applications (Ping, ChildrenChanged), ATs (registrations, signals about them), bus (process ids), controller |
| **device event controller**, `registryd/deviceeventcontroller.c`, `-x11.c` | `key_listeners`, `keygrabs_list`, `message_queue`, `hung_processes`, mouse poll timeout | RegisterKeystrokeListener, DeregisterKeystrokeListener, NotifyListenersSync/Async, key events of X, generating events, mouse polling | ATs (NotifyEvent with a 3 s timeout), X server |
| **re-entrant list**, `registryd/reentrant-list.c` | running iterators | foreach that survives removals | controller |
| **bridge**, `atk-adaptor/bridge.c`, `event.c` | `clients`, `events` (mirror of the registry's registrations), start-up state, key listeners | register with the registry, activate and deactivate, emit ATK events as D-Bus signals | registry, ATs |
| **object register, cache, leases**, `atk-adaptor/accessible-register.c`, `accessible-cache.c`, `accessible-leasing.c` | object <-> id maps; cached objects, objects to add; leases with expiry times | register, deregister (on finalize), add to and remove from the cache, take and end a lease | toolkit objects, AddAccessible/RemoveAccessible signals |
| **adaptors**, `atk-adaptor/adaptors/` | none | D-Bus methods on ATK objects, searches of the tree (Collection) | toolkit |
| **libatspi cache**, `atspi/atspi-misc.c`, `atspi-accessible.c` | `app_hash`, the objects of each application with their cached children, deferred messages, hung applications | references by name and path, GetItems, AddAccessible and RemoveAccessible signals, NameOwnerChanged | applications, registry |
| **libatspi event listeners**, `atspi/atspi-event-listener.c` | `event_listeners`, `pending_removals`, `in_send` | register, deregister, dispatch of an event to callbacks | registry, callbacks of the AT |
| **libatspi devices**, `atspi/atspi-device*.c`, `atspi-registry.c` | grabs, device listeners | key grabs, keystroke listeners | controller, X, compositor |
| **bus launcher**, `bus/at-spi-bus-launcher.c` | the bus's process, address and error, `a11y_enabled`, `event_listeners` | GetAddress, IsEnabled, child exit, signals | session bus, dbus-daemon or dbus-broker, settings |
| **droute, dbind, ATK** | none that concurrency can reach | marshalling, method tables, interfaces of the toolkit | |

Every process is single threaded.  What makes the system hard is that nearly
everything is asynchronous or re-enters the main loop: a method call can be
handled after its sender has died, a reply after its subject is gone, a signal
after a newer snapshot; a blocking call dispatches other messages while it
waits; a client that hangs must not hang the desktop; a reference handed to
another process must stay valid although nobody holds it.

What makes the parts correct:

- registry: what belongs to a connection goes with it; the desktop that a client
  builds up from the ChildrenChanged signals is the one GetChildren returns; a
  hung application is hidden and shown again; each ping counts once; replies
  about an application meet that application; the mouse is polled exactly while
  somebody listens.
- controller: only registered listeners see keys; keys are grabbed exactly while
  a registration wants them that was not taken back; the keyboard never stays frozen; a client that
  timed out is asked again.
- event listeners: callbacks may do anything to the list while an event is
  dispatched; a withdrawn one is not called, every other one is, nothing is read
  after it was freed, and the bus's match rules follow the registrations.
- bridge: whatever order its start-up, registrations and losses of the registry
  come in, an event somebody listens to is emitted; the dead are forgotten.
- object register and cache: a path leads to its object or nowhere; each reference
  is somebody's; what the toolkit adds is announced and what is defunct is let go.
- client cache: once everything is handled, a client's lists of children, counts
  and parents are those of the application, or are known to be out of use.
- collection: a search returns, in order and up to the count, what its part of the
  flattened tree holds of the objects that the rule asks for.
- bus launcher: no bus without a launcher, no launcher with a dead bus, every
  caller answered, and IsEnabled tells whether somebody listens.
- devices: X and the manager hold the grabs the AT has, no more and no less; each
  key is reported once; a modifier is one key's alone; what is removed by an id is
  what was added under it.
- leases: an object sent to a client lives at least the lease time and not for
  ever; the queue, its index and the references agree.

The hazards behind these, line by line, are the list `hazards` of PROJECT.json.

## Modules

### Registry, DesktopView

`Registry` models registry.c: a set `apps` of records (the array only grows at
its end, so ids give its order), `events`, and the daemon's `inbox`: the daemon
has one connection, and the order in which the bus wrote it (calls, replies,
NameOwnerChanged) is the order in which it handles them.  One action per
handler: `HandleEmbed` (impl_Embed, add_application, the request of the process
id), `HandleUnembed`, `HandleNameOwnerChanged` (handle_disconnection with all
removals and their signals), `HandleRegisterEvent`, `HandleDeregisterEvent`,
`HandlePidReply` (set_app_pid), `HandlePingReply` and `PingTimeout`
(handle_app_ping), `PingApplications`, `PollMouse`.  The clients may call,
answer, hang, recover and disconnect at any time, with calls of theirs on the
way.  Signals wait in `signals` for an observer.

Of the device event controller `Registry` keeps which clients have listeners
(`deviceClients`) and the calls that wait for its idle callback (`deviceCalls`):
removing an application makes the controller forget its client.

`DesktopView` adds a client that fetches the list of applications once and then
follows the ChildrenChanged signals as libatspi does
(cache_process_children_changed): it inserts at the position of an "add", drops
its list if that position does not exist, and removes at a "remove".  No
Unembed caller exists in this repository (the bridge sends DeregisterApplication,
which the registry does not implement), so `CallUnembed` stands for a toolkit
that waits for the answer to Embed first.

### DeviceEventController

The key listeners (newest first), the counts of the grabs, the message queue and
the walk over the clones of the listeners when a key event is shown.  The
registry's connection and main loop are split as the code splits them: while a
listener is waited for (`asked`), `DispatchCall`, `DispatchGone`, `LateAnswer`
and `OpenCallFails` may happen, calls only enter `messages`, and no
`HandleRegister`, `HandleDeregister` or `HandleNotify` runs.  `Timeout` is the end
of the 3 s; the call and a Ping stay open (`late`) and each completion takes the
client off `hung`.  `AnswerTooLate` is the reply that arrives as the 3 s end and
is dropped.  `registered` is a history: the registrations that were handled and whose
withdrawal was not, which is more than `listeners` once a listener with several masks is
withdrawn for one of them.  A count below zero stands for the unsigned count that wrapped; the
process has then hit its assertion, so nothing follows.

### Leasing, LeaseContract

`Leasing` models accessible-leasing.c tick by tick: list nodes with addresses
that are reused, the hash to nodes, one timeout, whole-second expiry times, the
two readings of the clock in expiry_func, the finalizers between them (time may
pass, `Take` may be called), and the dispose that leaves the hash alone.
`LeaseContract` is the promise to clients: an object is held by one reference
and not released before the lease time, except at shutdown.  `KeepsContract`
says that `Leasing` implements it.

### EventListener

The list of listeners of a client of libatspi and the dispatch of events to
them.  The client is one thread, but a call of the library that waits for a
reply processes the messages deferred so far, so callbacks run inside
deregistrations and deregistrations inside callbacks.  `stack` is the call stack:
frames for process_deferred_messages, _atspi_send_event (with the entry it is
at and the callbacks it called), a callback, and
atspi_event_listener_deregister_from_callback (with the entry it goes on at).
Each action is what runs between two points where something else may run:
`Register`, `Deregister` (entry of the call), `WalkRemoves` (up to the blocking
DeregisterEvent call), `ReplyArrives`, `WalkEnds`, `Arrive` (defer_message),
`BeginProcess`, `ProcessNext`, `ProcessEnds`, `Dispose` (an object's defunct event is
dispatched at once), `CallCallback`, `CallbackReturns`, `DispatchEnds`.
`WalkIsLost` is the step on to an entry that was freed while the walk waited;
after it nothing is known and `wild` stops the model.  It is reachable: a
deregistration made outside callbacks keeps its next entry over the wait, and a
callback that runs in the wait may free it.

### Bridge

An application's bridge, the part of the registry it talks to, and the ATs whose
registrations it mirrors.  What the bus delivers to each process has one order:
`calls` to the registry, `appBox` to the application, `notices` of the
registry's owner to each AT.  The handlers of registry.c appear as in
`Registry`, reduced to registrations for all applications; those of bridge.c are
`Start` (init_bus), `ReceiveEmbedReply` (register_reply and the two calls it
makes), `ReceiveEventsReply`, `ReceiveKeysReply` (each with tally_event_reply),
`ReceiveRegistered`, `ReceiveDeregistered`, `ReceiveGone`, `ReceiveRegistryGone`
and `ReceiveRegistryNew`; libatspi's are `Listen`, `Withdraw`, `Notice` (with
_atspi_reregister_event_listeners).  `Crash` loses the registry with everything
it had not answered, which the bus answers with errors; calls made while there
is none wait for the bus to start one (`Restart`).  `IsSent` is the decision of
event.c to emit.

### AccessibleObjects

The objects of one application as its bridge knows them: accessible-register.c,
accessible-cache.c, and what object.c, event.c and cache-adaptor.c do with both.
`reg` has the ids (`SPI_DBUS_ID` of each object, `ref2ptr`, the counter), `queue`
and `toAdd` the two queues of add_pending_items, `refs` what GObject counts.
`Traversal` is that idle callback, cut where toolkit code may run within it: each
turn of its loops reads states or converts an object.  `Within` says which of a
toolkit's operations may happen there; in the run objects become defunct.
`Settle` is what follows from a reference count of zero: the weak references of
the register and the cache.  A lease is what `Leasing` models in detail; here it
may end at any time.

### ClientCache

The same tree at the other end: what libatspi makes of AddAccessible,
RemoveAccessible, ChildrenChanged, property changes, the reply to GetItems and
replies to GetChildAtIndex.  `kids`, `known` and `queue` are the application's
tree and its bridge's cache in short, `wire` what is on its way or deferred, in
the order it was sent.  Signals come over the bus and wait for an idle, replies may come
over a connection of their own (`Arrives`): `Handle` takes the first signal past replies
that were sent before it, or any reply.  `view` has per object the list of children with holes (NULL entries
left by g_ptr_array_set_size), the parent and the flag ATSPI_CACHE_CHILDREN;
`Gone` is an entry whose instance was disposed.

The client can go wrong, and `raced` names how: "outdated" (a signal with a parent
handled before an older reply to GetItems that has another one), "overtaking" (any other
message handled before an older one), "early" (GetItems answered while the bridge's queue is not empty),
"moved" (an object is in the bridge's cache while its parent is not, as it was put
below another one, in the cache already or while it waited for the idle).  ParentIsRight
holds with all of them but "outdated", which leaves the old parent for good
(atspi-misc.c:631); ViewIsRight and ListsAreInUse hold without any.  ListsAreInUse cannot
be had with "overtaking": a list that was changed by a message out of order may be too
short for a later "added", and is then not used again.  TLC finds this, and the old
parent of "outdated", when the exceptions are taken out of the properties.

### Collection

collection-adaptor.c as recursive operators, one per function of the code
(`Canonical`, `Backwards`, `RightOf`, `Tree`), with its counters, flags and the
object it stops at, against a definition of the same searches by the positions of
objects in the tree.  Where the documents disagree with each other the properties take
the side that the tests take (GetMatchesTo gives what is before the object,
GetMatchesFrom what is after it: xml/Collection.xml:100-104 and 137-138,
atk_test_collection.c:118-130, 185-200), and what is not implemented, or otherwise than
any of them says, is left out by name (`Implemented`, `SiblingsMatch`; see Divergences).  A behaviour is one call; the scenarios are the trees and
rules of MCCollection.

### BusLauncher

at-spi-bus-launcher.c, the bus processes it starts and the programs around it.
`phase` is where its one thread is: in the main loop ("up"), in ensure_a11y_bus
("launching", "spawning", "reading"), or on its way out.  `child` follows each
process from fork over the child setup (`Setup`: prctl, then the check of the
parent) to exec, the address and its end.  `Kill` and `BusDies` may happen at any
point.  ATs are seen through EventListenerRegistered and NameOwnerChanged:
`here` and `gone` are the truth, `table` is event_listeners.

### Device, X11Device, ManagerDevice, Devices

`Device` is what atspi-device.c keeps for every backend: `grabs`, `watchers` and the
ids, which wrap.  The two modules that extend it are the backends.

`X11Device` is atspi-device-x11.c with the X server.  `keyGrabs` is the backend's
list, `held` what X holds for this client as triples of window, code and modifiers,
`focusedWindow` the focus the device knows of and `focus` that of X.  Enabling,
disabling and refreshing are functions on the list and `held` together (`Enabled`,
`Disabled`, `SwitchedAll`, `Refreshed`), since one grab's duplicates decide what another one
changes in X.  `Key` puts the events of a key on the `queue` as X does: the raw one,
and the other one if a window, or PointerRoot, has the focus.  `HandleRaw` and
`HandleDevice` choose the one to report.  `raced` says that the focus the device
knew when it chose was of another kind than that of X when the key was pressed: the
key is then lost or doubled, which KeyReportedOnce leaves out.

`ManagerDevice` is atspi-device-a11y-manager.c with the compositor: `installed` is what
the manager has, `scheduled` the timeout that will send it the whole again.  The device
ignores the errors of its calls: RequestName and WatchKeyboard may have failed (`Init`),
SetKeyGrabs may fail with a manager that is there, before or after it took the grabs
(`RefreshTimeout`), and the manager may end (`Crash`).  `failed` says that the last
SetKeyGrabs was lost in one of these ways; nothing but the next change sends them again.

`Devices` is the device that atspi_device_new_full makes, one or the other: it extends
`ManagerDevice`, instantiates `X11Device` over the same `Device` and adds the choice,
`backend`.  What both share, the ids and grabs, is checked for both.

## Runs

| run | configuration | states | shows |
|---|---|---|---|
| view | 2 interchangeable applications, 2 interchangeable roots | 3.3 M | pings resolve once, nothing outlives its connection, no reply writes to a freed application, a client that follows the signals has the registry's list |
| registry | 1 application, 1 AT, mouse and other event types | 0.5 M | registrations, mouse polling, and the liveness of removal, hiding and showing |
| leasing | 2 objects, 3 nodes, 2 ticks a second, 18 ticks | 0.1 M | the lease invariants, the refinement, and that every lease ends |
| keys | 3 clients of which two at a time are there, 5 registrations, two of them of one listener with two masks, a grab that X refuses, 2 key events, 5 calls and key events together | 0.4 M | who is asked, the counts of the grabs, hung clients, the keyboard thaws |
| listeners | 2 callbacks, 2 types of which one covers the other, 3 registrations, 2 withdrawals, 2 events | 0.4 M | dispatch is safe and complete whatever the callbacks do; match rules; withdrawn entries are freed |
| bridge | 2 interchangeable ATs, 2 types of which one covers the other, 3 registrations and withdrawals, 1 crash of the registry | 3.4 M | what is listened to is emitted, the dead are forgotten |
| objects | the root and 2 objects of which one may be transient or a leaf, 3 ids, objects become defunct during the traversal | 0.5 M | references balance, paths lead home, the cache has the tree, defunct objects go |
| client_cache | the root and 3 interchangeable objects, 3 changes, 1 read, 2 messages on the way when one is sent, one kind of race | 1.2 M | lists, counts and parents at the client |
| collection | the 24 trees of 5 objects with every set of objects that match and are leaves, and a row of four with the values of one criterion, of every match type, at a time; counts 0 and 2, all orders and kinds of walks | 0.9 M | searches, walks and GetTree agree with the flattened tree |
| launcher | 1 caller, 2 ATs, 2 launchers in turn, 2 processes that are killed or fail | 0.2 M | life and death of the bus, answers, IsEnabled |
| devices | X: 2 windows, no window and PointerRoot, 3 definitions of which two are duplicates in X, one grab taken by others, 1 change of the focus, 2 key events, 2 keys mapped; manager: the same definitions, 2 keys that are mapped, 3 changes, any SetKeyGrabs may fail, 1 end of the manager; 3 ids | 2.0 M | X or the manager gets the grabs that are wanted, each key is reported once, ids and keys agree |
| modifiers_shared | 3 keys, 5 calls to map and unmap | | violation: see Findings |

Bounds, all named in the modules: `MaxId`, `MaxInbox`, `MaxSignals`,
`MaxPollers`, `MaxEvents`, `MaxCalls`, `MaxStarted`, `MaxTime`, `LastTake`, `MaxPause`,
`MaxListeners`, `MaxWithdrawals`, `MaxWaiting`, `MaxCrashes`, `MaxQueue`,
`MaxOps`, `MaxWire`, `MaxRaces`, `MaxReads`, `MaxLaunches`, `MaxSets`,
`MaxBreaks`, `MaxGrabs`, `MaxAdded`, `MaxKeys`, `MaxMoves`, `MaxMaps`, `MaxChanges`.
They bound what clients start, never what the code does in answer, and each is large
enough for the cases that matter: two applications in the desktop, or two roots
of one application, removed together or one by one (positions, and removals that
shift them); a ping round overlapping the former one (`PromptPings = FALSE`); a
call in the inbox when its sender dies; a second key event while the answer to
the first is still open; a lease renewed while another one waits;
a second dispatch inside a callback of a
first one with an entry withdrawn in between, and an entry registered by a
callback; a registration on its way when the application asks for all of them,
a registry lost while the application has not heard its answers; a subtree
built before it is attached and one that is queued twice; an object that is moved
between two announcements, and a list of which only a part is known; a launcher
that is killed while its second bus starts; ids that wrap while the first ones are in
use (`IdSize`); a grab that takes over from its duplicate in another window.

Three assumptions about the clients are constants.  `Careful` of EventListener: each
registration is withdrawn once, with the type it was made for
(RulesMatchListeners needs it; without it another callback's rule may go).
`Careful` of Bridge: an AT withdraws no type that covers another type it still
listens to; otherwise the bridge removes both from its mirror and WantedIsSent
fails once the mirror is in use.  `Careful` of X11Device and Devices: while the AT has
the keyboard the focus stays, and it gives it back before the end; otherwise
GrabsAreHeld fails.
`KeyAT` is empty in the runs: the answer about
keystroke listeners then only counts, and adds no clients.

Every property is checked against a fault: the operators marked "(Fault: ...)"
in the modules are plausible mistakes in the code, and each makes its property
fail.

Deadlock checking is off: with the calls bounded, a run ends when everything is
handled.

### Fairness

- registry: GLib dispatches what has arrived (`Handle`), a call is completed by an
  answer or its timeout, the poll timeouts fire, the bus delivers; all weakly
  fair.  The ping timer fires whatever else goes on; in the model the bound on
  undelivered signals can disable it, so it is strongly fair.  No client is
  assumed to do anything.
- controller: its own steps, the 3 s timeout, and the default timeout of libdbus
  on each open call are weakly fair; no client need answer.  With finitely many
  key events a client is marked finitely often.
- leases: time passes, a due timeout is dispatched, expiry_func and dispose end.
- event listeners: a blocking call is answered or times out, callbacks return,
  and the idle source of deferred messages is dispatched (`Library`).

- objects: the bridge's idle callback runs and ends (`Traversal`); the toolkit need
  not do anything.
- launcher: the sources of its main loop are served, GetAddress with strong
  fairness because launches and departures take the thread in between; processes
  go on with what they start; the session bus activates a launcher for a call.  No
  AT, and no process that kills, is assumed to act.

## Proofs

Eight modules hold the theorems, one per component, but for DevicesProofs, which has
what is about keys: the devices and the registry's controller. The provers check them
for every value of the constants, under the ASSUMEs of the modules (names of
applications and ATs differ; registrations of keystroke listeners have the types the
code reads; NULL is not the empty string, nor a list of references; at least one tick a
second; the guint holds a lease time; event types are sequences of their parts; objects
are finitely many). Where a theorem assumes more, its statement says so and the text
below says why. Each invariant of a run is proved from an inductive one, named below
with what it adds and why it is needed; TLC checked these on the runs' instances before.

**RegistryProofs**

- `TypeCorrect`: the type invariant, inductive as it stands.
- `NoGhosts`: inductive with `GhostInv`, which adds that every call waiting in
  the inbox comes from a client that is connected or whose NameOwnerChanged is
  *behind* the call in the inbox.  Without this an Embed could be handled after
  the clean-up.
- `PidReachesItsApplication`: `PidInv` says for each awaited process id that its
  application is in the desktop, and that whatever removes it is queued behind
  the reply; this rests on calls to Unembed following the answer to Embed, and on
  the bus's order.  It is the reason why the raw pointer in set_app_pid is safe.
- `PingsAreResolvedOnce`: `PingInv` speaks of open calls, of answers in the inbox and of
  the applications that wait at once: no call is there twice, no answer is there twice or
  together with its call, and what an application waits for is one of the two.  Calls
  whose application was removed remain until they end, hence it cannot be stated of
  applications alone.
- `MousePolling`: need and request of mouse polling agree, timeouts remain.
- `FollowersCatchUp` (ViewCatchesUp): a client that joined and follows ChildrenChanged has, after the
  signals on their way, the list that GetChildren would return (`ViewSpec`, the
  registry and one client).  What the signals do to the list is a recursive
  function, so it is not unfolded: `Leads(v, ss, w)` says that some row of lists goes
  from v to w, each next list what `Process` makes of the one before and the next
  signal.  `CatchInv` says that the signals lead from the view to a list w that has
  each application that is not disabled at its `Rank` (`Lists`), which is where
  emit_children_changed counts it.  `ListsMore` and `ListsLess` are the two edits,
  one application more or less; `CatchesGone` does the many removals of a
  disconnection, `CatchesPing` the one or two signals of a ping's answer, and
  `FollowedIs` turns `Leads` into the function.  The client finds what
  it removes by its reference, and takes this reference out before it adds it: with
  one root in two applications it would take out the wrong one.  That they differ
  is `RootInv`, which needs what is under way too: the root in a call to Embed is one
  that its client embeds once, and an application's root stays embedded until the
  call to Unembed for it is handled.

**LeasingProofs**

- `TypeCorrect`, `QueueAndIndex`: `LeaseInv` adds to the queue and
  index that each element's expiry is that of its object's last take
  (`ExpiryIsFromTaken`) and that takes and expiry_func began no later than now.
- `LeasesKeepContract`: each step of `Leasing` is a step of `LeaseContract` or
  leaves it unchanged; the arithmetic is in `ExpiresLate`: an expiry at whole
  second s + LEASE_TIME_S + 1 is never reached before LEASE_TIME_S full seconds.
- `WakesInTime`: with `TimerInv`, if the finalizers take at most a second the
  timeout is never later than the head's expiry.  The assumption is needed: with
  a longer `MaxPause` the interval computed from the second reading of the clock
  is negative, becomes a very large guint, and leases no longer end.

**AccessibleObjectsProofs**

- `ReferencesAreBalanced`: `CountInv` adds that an object with a parent has the
  toolkit's reference (`TreeIsOwned`); without it a traversal could reach a finalized
  object.  It holds for every `Within`, that is, whatever the toolkit does while the
  traversal adds objects.
- `PathsLeadToTheirObjects`: `RegisterInv` says that the ids in use are exactly
  the counter's many (so a new id below the counter's limit is free), no two objects have
  one, and an object has an id exactly if the register points back to it, unless its weak
  reference has run.  It assumes `IdsSuffice`: after 2^32 registrations the counter wraps
  and the code gives ids out again without a look.
- `TreeGetsCached`: `TreeInv` says of every object that belongs in the cache and whose
  parent is cached or about to be that it is so too, or waits in the queue, and that
  something is pending while the queue is not empty.  It assumes that no
  toolkit attaches objects within the traversal, since the code does leave those out (see
  Divergences).
- `DefunctGetsNoLease`: the action property, from `CountInv`.

**BusLauncherProofs**

- `EnabledFollowsListeners`: inductive as it stands.
- `OrphansHaveNotStarted`, `LeavingStopsTheBus`, `LauncherWatchesItsBus`,
  `LaunchAnswersItsCaller`: what is safety of NoOrphanBus, EndsWithItsBus and
  CallsAreAnswered, from `BusInv`: the values of pid and watches at each point of
  ensure_a11y_bus (`LaunchInv`), that a child past the first point of its setup has asked
  for the signal (`ChildInv`), that a launcher has the bus it knows or is just reading and
  no other (`OwnInv`), and that a daemon whose launcher is gone is still in the
  setup (`NoOrphanStarts`).  Liveness adds only that these steps happen.

**EventListenerProofs**

- `TypeCorrect`, `DispatchSafe`: inductive with `SafeInv`.  It
  says which frames may lie on which (`InnerCalls`: a callback on the dispatch that
  called it, a deregistration on a callback or at the bottom) and that entries wait
  to be removed only during a dispatch (`RemovalsWait`).  So when the outermost
  dispatch ends, or a deregistration removes at once, no frame below holds an entry
  (`NobodyHolds`).  Nothing is asked of the client: `Careful` may be FALSE.  The
  deregistration at the bottom of the stack is not protected (WalkIsLost is reachable).
- `NothingWaitsInVain`: `RemovalsWait` by itself, which WithdrawnIsFreed rests on.
- `WithdrawnNotCalled`: `WithdrawInv` says for each deregistration in progress that
  the entries it covers and has passed are freed or wait to be (`Covers`), although
  other calls change the list while it waits for its replies; after it, that what was
  withdrawn and is still in the list waits.
- `EveryCallbackReached`: `ReachInv` says for each dispatch in progress that above the
  entry it is at, no matching callback is missing among those called (`Reaches`), and
  for each callback in progress that it is that of the entry its dispatch is at
  (`CalledFor`).  The proofs of the steps look at the top of the stack only; that the
  rest keeps what it had is in `KeptFrames`, `KeptCovers` and `KeptReaches`.
- `OneRulePerListener`: `RulesInv` counts the entries that do not wait to be removed;
  `WalkInv` says that deregistrations in progress are about different callbacks, and
  that the entries one will still come to have its very type and do not wait yet.  It
  assumes `Careful`, which the run has too: the code removes the rule of the type it is
  given, so that a covering type takes another callback's rule (see Divergences).

**BridgeProofs**

- `GoneAreForgotten`: `UndoInv` says of an AT that is gone that each
  trace of it (a registration in the registry or the mirror, a call, a signal, the
  answer to GetRegisteredEvents) has its end queued behind it, as the bus's Gone to the
  registry or as the registry's announcement to the bridge.  It holds until the
  registry is lost for the first time: the mirror keeps what the lost one had told.
- `WantedGetsSent`: `ReachInv` says for each event a connected AT listens to where the
  news of it is (`Reaches`): in a call to the registry, with the registry, in a signal or
  the answer to the bridge, in the mirror, or still to be sent again as the AT has the
  notice of a new registry before it; and that the last of these is not followed by
  something that takes it back.  It holds over any number of losses.  It assumes
  `Careful` (an AT does not deregister a type that another of its registrations
  covers), as the run does.

**DevicesProofs**

- `GrabsStayInAgreement`: GrabsAgree, which is IdsIdentify and
  KeysMatchGrabs, is inductive.  A removal takes the key of one grab from the backend;
  that no other grab is left without it needs that no two grabs have one key, which
  has_key_grab sees to as long as the backend's keys are those of the grabs.
- `ManagerHearsAll`: from three invariants.  GrabsAgree takes the keys of the backend to
  the grabs of the AT; `ModifiersKept` says that grabbed_modifiers are the keys of
  virtual_modifiers, which have each key once, wherever an entry is put in or taken out of
  the list (`InsertAtElements`, `RemoveAtElements`); `Sending` that whatever changes either
  schedules a refresh, which sends all of them unless the call fails.
- `IdsAndKeysStayInAgreement`: GrabsAgree for the device
  that is made.  The steps of the one with X11 reach the ids through the operators of
  `Device` only (`NewGrabKeepsIds`, `NewWatcherKeepsIds`), and a grab that X refuses
  takes no id.
- `KeysAreReportedOnce`: `KeysInv` says that raw and other events alternate in the queue,
  with one view of the focus per pair (`Paired`), and counts the reports within a pair.
- `GrabsAreHeldInX`: `GrabsInv` says that X holds what the entries of key_grabs that are
  enabled grab for the window the device knows of (`Holds`), and the whole keyboard while
  that is grabbed (`Whole`); that an entry is enabled as it should be (`AsShould`); and
  that there are as many entries of each definition as grabs of the device (`AsMany`), as
  remove_key_grab takes the first entry for the key and not that of the grab.  A step of
  a loop need not change X (`TurnedOff`, `TurnedOn`): an enabled duplicate holds the same
  (`AlikeGrabSame`), and what other definitions grab is not given back with this one
  (`OthersGrabElse`).  The loops are recursive functions, whose values exist for lists of
  any length (`SwitchingExists`) and keep `Holds` turn by turn (`SwitchedAllHolds`, by
  `UpTo`).  The theorem assumes `Careful`, as the run does, and `DefinitionsAreApart`:
  definitions for one key and the same modifiers (`SameKey`) are equal, and two that
  are not duplicates have another code or differ in more than the locks.  The code needs
  both: without the second disable_key_grab gives back what another entry still has (see
  Divergences, line 304).  TLC checked the invariant on the run's instance, in which the
  definitions have one key with two sets of modifiers.
- `OnlyRegisteredAreAsked` (of DeviceEventController, as is the next): `Shown` says that
  each clone which a key event still has to be shown to is of a listener in the list, or
  of a client that has left.  While there are clones only a departure changes the list,
  and takes the listeners of the client it is about; that this client is not on the bus
  any more needs that a departure is queued after it happened (`GoneAreGone`).
- `GrabsFollowRegistrations`: the list of listeners is not what the grabs are counted
  from, since remove_listener_cb takes all listeners of a path out of it for one mask
  (see Divergences, line 1267); `registered` is, the history of the registrations that were
  handled and whose withdrawal was not.  `CountInv` says more of the case
  GrabsMatchRegistrations is about: that each registration is there once, and that the
  calls in `messages` and then in `inbox` register what is not there when they come, and
  withdraw what is (`Orderly`, over `After`, the registrations that are left after so many
  messages); what is left after the last of them is what the clients have (`mine`).  So
  what a withdrawal releases is within the counts.
  `OneShare` says what one registration adds to the sum, wherever in the list it is.  An
  application that leaves has no listeners in this case, so removing them changes and
  releases nothing (`NothingRemoved`, `NothingReleased`).  A listener may have any number
  of masks.  TLC checked the invariant on the run's instance.
- `AssertionIsKept`, from the same invariant: counts do not go below zero, which the
  registry would not survive.  A grab that X refuses has none (`Counted`).
- `MarkedCanBeForgotten`, `KeyEventsGetShorter`: what the liveness of this module rests
  on.  A mark is set together with the count of the calls that stay open, and the end of
  any of them takes it off (`MarkInv`); each step of the walk over the clones leaves
  fewer, and nothing else changes them.

**ClientCacheProofs**

- `TypeCorrect`: lists have objects, holes and disposed instances only, whatever is
  handled in whatever order.
- `ParentsGetRight`: `ParentInv` says of each object with a parent that every message
  which tells the client another one has a message behind it that corrects it
  (`Corrected`), and that the client has the parent of a known object or is told it.
  The correcting message must be a signal: a reply to GetItems may fail, or be handled
  before what it corrects.  It needs that an object has one parent (`OneParent`), that
  dead objects are nobody's children and have none, and that only they are announced as
  gone: with a signal of an earlier life on its way a parent would be lost.
- `ListsGetRight`: what is in `view` says little while messages are on their way, so
  `ViewInv` speaks of the view the client will have once it has handled all of `wire` in
  order (`Leads`): every list in use is then that of the tree (`WillBeRight`).  A reply to
  GetItems may still be lost, so this is said twice, with the reply and without it; that
  there is at most one (`OneReply`) makes the two agree when it is handled or fails.  A
  signal that is sent is the last one, and changes a right list to a right list
  (`AddedRight`, `RemovedRight`, `GoneRight`, `ChildRight`).  For items the order does not
  matter, but that each child of an object comes with it (`CaughtIsRight`): the bridge's
  cache has the parents of what it has and, but for what is queued, the children
  (`AboveIsKnown`, `BelowIsKnown`), and the loops of add_pending_items leave no child out
  (`NewObjectsCatch`).  TLC checked `ViewInv` before, also with six changes of the tree.
- `ListsStayInUse`: `WillBeRight` says also of which objects the lists will be in use
  (`Due`): of all that are known once the reply is handled, and of none if it is lost,
  as GetItems may then be called again.  An "added" keeps a list in use only since the
  list is right when it comes, so the two have one invariant.
- The loops of the code (over a reply's items, and over the queue of new objects) are
  recursive functions; `LoopExists` and `UpTo` give the values of such a function and
  what each of its turns keeps, by the least turn that would not.  That the loops of
  add_pending_items end within `MaxTurns` is a guard of `Announce`, which TLC found never
  to be false.

**Only model-checked**

- Liveness (GoneIsRemoved, MousePollStops, EveryLeaseEnds, AddedIsAnnounced,
  WithdrawnIsFreed, KeyboardThaws, HungIsForgotten, NoOrphanBus and the rest): the
  provers have no rule for fairness and ENABLED.
- Collection, whose traversals are RECURSIVE operators as the code's are.

## Findings

*modifiers_shared*: the accessibility manager's device puts the lowest bit, when it is
used again, at the end of a list that has to be sorted, and then gives it out a second
time; with more calls also the bit after the last one, 32.

### Divergences

The models follow the code where it does something else than its documents say;
the properties then leave the case out, or state what does hold.

- registry.c:332: DeregisterEvent for all applications never removes a registration
  for all applications, since NULL is compared with "" (`Removed`).
- deviceeventcontroller.c:1267: withdrawing a listener for one modifier mask
  forgets it for all (`RemovedListener`), although a listener is registered once for each
  mask and taken back for each (atspi-registry.c:188-191, 266-273).  The grabs of the
  other masks stay until they are taken back too: the keys are grabbed meanwhile and
  nobody is asked.  GrabsMatchRegistrations is about the registrations therefore, and says
  nothing of who is listened to.
- deviceeventcontroller.c:1741: a DeregisterKeystrokeListener call that waits in
  message_queue while its sender leaves is handled after the sender's listeners were
  removed, and releases their grabs a second time, which may be the only reference of
  another client; a RegisterKeystrokeListener call leaves a listener nobody removes.
  GrabsMatchRegistrations leaves applications out for it (`Embedded`).
- deviceeventcontroller.c:1333: the listeners of a client that is no application stay
  when it leaves the bus.
- atspi-event-listener.c:964: deregistering removes the match rule of the given
  type for each entry removed; with a covering type, or a repeated withdrawal in a
  callback, that is the rule of another callback (`RemoveMatch`; set `Careful` to
  FALSE and RulesMatchListeners fails).
- bridge.c:93: the bridge waits for three replies and makes two calls, so it emits
  all events until the registry has been lost and found once (`Tally`).
- accessible-cache.c:333: an object that a toolkit attaches while the idle adds
  others has no idle of its own (put "attach" in `Within` and AddedIsAnnounced
  fails).
- atspi-misc.c:744, atspi-event-listener.c:234-264: the races of ClientCache;
  a list keeps a hole, a stale entry or the wrong length.  atspi-misc.c:631: a reply to
  GetItems that is handled after a newer signal about a parent puts the old parent back
  ("outdated").
- collection-adaptor.c: GetMatchesTo without limit_scope goes on behind the current
  object when that lies deeper than the first level, and returns its results from
  the last to the first (line 929), and with a count the first ones and not those next to
  the object; GetMatchesFrom with the children leaves out the
  first child (line 529), and none of its properties is about this kind of search; the reverse order is that of the first `count` results; `invert` is
  read and not used; the match type "empty" matches nothing
  (atspi-constants.h:212-214); interfaces any of none match nothing; GetTree reads its
  rule and does not use it.  GetMatchesTo gives what is before an object and
  GetMatchesFrom what is after it, as xml/Collection.xml:100-104 and 137-138 have it; its
  lines 113-117, 123 and 134, and atspi-collection.c:174-179 and 222-237, say the opposite.
- at-spi-bus-launcher.c: a daemon that ends before it prints an address leaves an
  empty address that GetAddress returns until the main loop hears of its end; a
  broker outlives a launcher that is killed; a launch that failed is not tried
  again; the departure of an AT undoes what was set by hand.
- atspi-device-x11.c:887: the keyboard is ungrabbed for the window that has the focus
  then, and stays grabbed for the one that had it when it was grabbed, if the focus moved
  meanwhile (`UngrabKeyboard`; set `Careful` to FALSE and GrabsAreHeld fails).
- atspi-device-x11.c:641: the modifier of a key that is unmapped while it is pressed stays
  on; with the manager's device it does too (`ModsAfter`).
- atspi-device-x11.c:589: the fourth key that is mapped gets no modifier, where
  atspi-device.c:486-487 promises the first one (`UnusedModifier`).
- atspi-device.c:317: events are matched with the key code only, so a grab defined by its
  key symbol takes the key from the applications and calls nobody; line 314: a callback
  that removes grabs frees what the loop goes on with.
- atspi-device-x11.c:430: a key pressed as the focus comes or goes is lost or reported
  twice (`raced`); line 304: two definitions of one key of X that are not duplicates,
  by code and by symbol say, release each other's grabs; the runs have no such
  definitions.
- atspi-device-a11y-manager.c:157-163, 555-573: the errors of SetKeyGrabs, RequestName and
  WatchKeyboard are ignored.  After one, and after the manager was lost, the grabs are
  sent again only when they change, and the manager is not asked again to send key events
  (`failed`, `watched`).

## Plan

What would come next: the client's side of hung and lost applications
(atspi-misc.c:1211, app_hash), listeners for one application and filters of
EventListener, ReentrantList, restarts of the accessibility bus in Bridge, and the
build of the launcher with the other order.  Proofs:
the walks of Collection against the flattened tree, for trees of any size, once they
are recursive functions.

## Abstractions worth knowing

- `Registry.HandleNameOwnerChanged`: the code removes the applications of any name that
  is released (registry.c:377-384); applications are known by unique names, and the model
  has no others.  `CallUnembed` follows the answer to Embed.
- `DeviceEventController.GrabbedKey`: the grabs that are issued again after a key event
  (update_key_grabs, deviceeventcontroller-x11.c:1219-1220) are those X has already:
  `Refused` is fixed, X does not refuse later what it once granted.
  `Matches`: every listener is for presses and releases (deviceeventcontroller.c:1005).
- `BusLauncher.SpawnFails`: a child that is killed between fork and exec counts as an exec
  that failed; the code would go on with an empty address (at-spi-bus-launcher.c:379-407).
- `X11Device.Granted`: a grab for no window or PointerRoot is refused without a word, where
  X reports an error (atspi-device-x11.c:208); windows are not destroyed.
- `EventListener`, `Bridge`, `X11Device`: see the `Careful` constants above.

## Not modelled

The adaptors other than Collection, droute, dbind and the proxies of libatspi are
stateless conversions; ATK's state is per object and local.  Generating key and
mouse events, keymaps and XEvIE are calls of X.  registry-main.c has no state after
start-up.  Of the event listeners: listeners for a single application, details
that match by prefix, the filter of window events, counts of callbacks.  Of the
bridge: restarts of the bus, plugs, direct connections, events that are always
sent to keep caches up to date.  Of the register and the cache: their finalization,
hyperlinks, two threads that share the cache's mutex.  Of libatspi's cache:
applications that hang or leave, strings, states and attributes, the old format of
AddAccessible.  Of the devices: the legacy backend, pointer monitoring, device listeners,
which callback of a grab is called for an event, and keys that X itself has as modifiers.
Of Collection: the limit of interfaces a rule may have, children
that are NULL, action names, and the unescaping of attributes in read_mr.  Of the
launcher: the session manager, the X property, settings that others write.

------------------------------- MODULE Bridge -------------------------------
(***************************************************************************)
(* The bridge of an application (atk-adaptor/bridge.c, event.c) and how it *)
(* learns which events to emit: its start-up calls to the registry, the    *)
(* registry's signals about registrations, and the loss and return of the  *)
(* registry and of the assistive technologies.                             *)
(*                                                                         *)
(* What the bus delivers to the registry, to the application and to each   *)
(* assistive technology comes in one order each: calls, appBox, notices.   *)
(* The registry's part of this is that of module Registry, reduced to      *)
(* registrations for all applications.  A call sent while there is no      *)
(* registry waits for the bus to activate one.                             *)
(*                                                                         *)
(* The registrations of one client for one type are withdrawn together, so *)
(* lists of registrations are sets.                                        *)
(***************************************************************************)
EXTENDS Integers, Sequences, FiniteSets, SequencesExt

CONSTANTS AT,           \* bus names of assistive technologies
          KeyAT,        \* those that may have keystroke listeners
          EventType,    \* types that are listened to
          Event,        \* types of events that occur; none updates a cache
          MaxCalls,     \* bound: registrations and withdrawals
          MaxWaiting,   \* bound: messages waiting before something new happens
          MaxCrashes,   \* bound: times the registry is lost
          Careful       \* TRUE: withdrawing a type never covers another one

ASSUME KeyAssumption == KeyAT \subseteq AT
ASSUME ModeAssumption == Careful \in BOOLEAN
ASSUME TypeAssumption == EventType \subseteq Seq(STRING)

VARIABLES
  up,           \* there is a registry
  registered,   \* its registry->events
  calls,        \* calls and signals on the way to it
  keyCalls,     \* calls of GetKeystrokeListeners it has not answered
  started,      \* the bridge has been initialised
  appBox,       \* messages from the bus to the application
  clients,      \* its clients; the bus reports the loss of these names
  mirror,       \* spi_global_app_data->events
  active,       \* listeners for ATK's events are installed
  replies,      \* replies_received
  initialized,  \* events_initialized
  appLost,      \* registry_lost of signal_filter
  connected,    \* [AT -> BOOLEAN]
  listening,    \* [AT -> SUBSET EventType], types with a live listener
  atLost,       \* registry_lost of the client library
  notices,      \* changes of the registry's owner on the way to each AT
  made,         \* registrations and withdrawals so far
  crashes       \* times the registry was lost so far

registryVars == <<up, registered, keyCalls>>
appVars == <<clients, mirror, active, replies, initialized, appLost>>
atVars == <<connected, listening, atLost, notices>>
vars == <<registryVars, calls, started, appBox, appVars, atVars, made, crashes>>

\* spi_event_is_subtype and event_is_subtype: type begins data.
IsSubtype(data, type) == Len(type) <= Len(data) /\ SubSeq(data, 1, Len(type)) = type

\* The bound on what clients start.
MayStart == Len(calls) <= MaxWaiting /\ Len(appBox) <= MaxWaiting

\* Messages to the application; before it is started it has no match rules.
ToApp(msgs) == appBox' = IF started THEN appBox \o msgs ELSE appBox

-----------------------------------------------------------------------------
(* The assistive technologies *)

\* Not waiting for an answer: the library's calls to the registry block.
IsFree(at) ==
  /\ connected[at]
  /\ \A i \in DOMAIN calls :
       calls[i].kind \in {"RegisterEvent", "DeregisterEvent"} => calls[i].at # at

\* atspi_event_listener_register...: the call is sent whether or not there is
\* a registry.
Listen(at, type) ==
  /\ IsFree(at) /\ type \notin listening[at] /\ made < MaxCalls /\ MayStart
  /\ listening' = [listening EXCEPT ![at] = @ \cup {type}]
  /\ calls' = Append(calls, [kind |-> "RegisterEvent", at |-> at, type |-> type])
  /\ made' = made + 1
  /\ UNCHANGED <<registryVars, started, appBox, appVars, connected, atLost,
                 notices, crashes>>

\* atspi_event_listener_deregister... of one callback.
Withdraw(at, type) ==
  /\ IsFree(at) /\ type \in listening[at] /\ made < MaxCalls /\ MayStart
  /\ Careful => \A t \in listening[at] \ {type} : ~IsSubtype(t, type)
  /\ listening' = [listening EXCEPT ![at] = @ \ {type}]
  /\ calls' = Append(calls, [kind |-> "DeregisterEvent", at |-> at, type |-> type])
  /\ made' = made + 1
  /\ UNCHANGED <<registryVars, started, appBox, appVars, connected, atLost,
                 notices, crashes>>

\* The bus tells the registry, and the application if it asked about the name.
Die(at) ==
  /\ connected[at] /\ MayStart
  /\ connected' = [connected EXCEPT ![at] = FALSE]
  /\ listening' = [listening EXCEPT ![at] = {}]
  /\ notices' = [notices EXCEPT ![at] = <<>>]
  /\ calls' = IF up THEN Append(calls, [kind |-> "Gone", at |-> at]) ELSE calls
  /\ ToApp(IF at \in clients THEN <<[kind |-> "Gone", at |-> at]>> ELSE <<>>)
  /\ UNCHANGED <<registryVars, started, appVars, atLost, made, crashes>>

\* _atspi_reregister_event_listeners
Reregister(at) ==
  LET types == SetToSeq(listening[at])
  IN [i \in DOMAIN types |-> [kind |-> "RegisterEvent", at |-> at, type |-> types[i]]]

\* handle_name_owner_changed of the client library, for the registry's name.
Notice(at) ==
  /\ IsFree(at) /\ notices[at] # <<>>
  /\ notices' = [notices EXCEPT ![at] = Tail(@)]
  /\ IF Head(notices[at]) = "new" /\ atLost[at]
     THEN /\ calls' = calls \o Reregister(at)
          /\ atLost' = [atLost EXCEPT ![at] = FALSE]
     ELSE /\ atLost' = [atLost EXCEPT ![at] = @ \/ Head(notices[at]) = "gone"]
          /\ UNCHANGED calls
  /\ UNCHANGED <<registryVars, started, appBox, appVars, connected, listening,
                 made, crashes>>

-----------------------------------------------------------------------------
(* The registry *)

Called(kind) == up /\ calls # <<>> /\ Head(calls).kind = kind
Consume == calls' = Tail(calls)

HandleRegisterEvent ==
  /\ Called("RegisterEvent")
  /\ LET c == Head(calls)
     IN /\ registered' = registered \cup {<<c.at, c.type>>}
        /\ ToApp(<<[c EXCEPT !.kind = "Registered"]>>)
  /\ Consume
  /\ UNCHANGED <<up, keyCalls, started, appVars, atVars, made, crashes>>

\* impl_DeregisterEvent, remove_events: a registration for all applications
\* stays (NULL is compared with the empty string), but its end is announced.
HandleDeregisterEvent ==
  /\ Called("DeregisterEvent")
  /\ ToApp(<<[Head(calls) EXCEPT !.kind = "Deregistered"]>>)
  /\ Consume
  /\ UNCHANGED <<registryVars, started, appVars, atVars, made, crashes>>

\* remove_events for a lost connection: the empty type covers all.
\* (Fault: nothing is announced.)
AnnouncedGoneNever(at) == <<>>
AnnouncedGone(at) == <<[kind |-> "Deregistered", at |-> at, type |-> <<>>]>>

HandleGone ==
  /\ Called("Gone")
  /\ LET at == Head(calls).at
     IN /\ registered' = {r \in registered : r[1] # at}
        /\ ToApp(AnnouncedGone(at))
  /\ Consume
  /\ UNCHANGED <<up, keyCalls, started, appVars, atVars, made, crashes>>

HandleEmbed ==
  /\ Called("Embed")
  /\ ToApp(<<[kind |-> "EmbedReply"]>>)
  /\ Consume
  /\ UNCHANGED <<registryVars, started, appVars, atVars, made, crashes>>

HandleGetRegisteredEvents ==
  /\ Called("GetRegisteredEvents")
  /\ ToApp(<<[kind |-> "EventsReply", events |-> registered]>>)
  /\ Consume
  /\ UNCHANGED <<registryVars, started, appVars, atVars, made, crashes>>

\* The device event controller answers from its idle queue, with the clients it
\* knows, connected or not.
HandleGetKeystrokeListeners ==
  /\ up /\ keyCalls > 0
  /\ keyCalls' = keyCalls - 1
  /\ \E known \in SUBSET KeyAT : ToApp(<<[kind |-> "KeysReply", clients |-> known]>>)
  /\ UNCHANGED <<up, registered, calls, started, appVars, atVars, made, crashes>>

\* The registry is lost.  The bus announces it and answers the calls it had
\* got with errors; the clients ignore that their calls failed.
\* (The calls it had not answered, in the order they were made.)
Unanswered == {i \in DOMAIN calls : calls[i].kind \in {"Embed", "GetRegisteredEvents"}}
InOrder(S) ==
  {f \in [1..Cardinality(S) -> S] : \A i, j \in DOMAIN f : i < j => f[i] < f[j]}

ErrorReplies(order) ==
  [i \in DOMAIN order |-> IF calls[order[i]].kind = "Embed" THEN [kind |-> "EmbedReply"]
                          ELSE [kind |-> "EventsReply", events |-> {}]]
  \o [i \in 1..keyCalls |-> [kind |-> "KeysReply", clients |-> {}]]

Crash ==
  /\ up /\ crashes < MaxCrashes /\ MayStart
  /\ up' = FALSE
  /\ crashes' = crashes + 1
  /\ registered' = {} /\ calls' = <<>> /\ keyCalls' = 0
  /\ \E order \in InOrder(Unanswered) :
       ToApp(<<[kind |-> "RegistryGone"]>> \o ErrorReplies(order))
  /\ notices' = [at \in AT |-> IF connected[at] THEN Append(notices[at], "gone") ELSE <<>>]
  /\ UNCHANGED <<started, appVars, connected, listening, atLost, made>>

Restart ==
  /\ ~up
  /\ up' = TRUE
  /\ ToApp(<<[kind |-> "RegistryNew"]>>)
  /\ notices' = [at \in AT |-> IF connected[at] THEN Append(notices[at], "new") ELSE <<>>]
  /\ UNCHANGED <<registered, keyCalls, calls, started, appVars, connected,
                 listening, atLost, made, crashes>>

-----------------------------------------------------------------------------
(* The application *)

Receive(kind) == appBox # <<>> /\ Head(appBox).kind = kind
ConsumeApp == appBox' = Tail(appBox)

\* init_bus, register_application
Start ==
  /\ ~started
  /\ started' = TRUE
  /\ calls' = Append(calls, [kind |-> "Embed"])
  /\ UNCHANGED <<registryVars, appBox, appVars, atVars, made, crashes>>

\* spi_atk_add_client for each: the first one installs the listeners for ATK's
\* events.
AddClients(names) ==
  /\ clients' = clients \cup names
  /\ active' = (active \/ (clients = {} /\ names # {}))

\* tally_event_reply
Tally ==
  /\ replies' = replies + 1
  /\ initialized' = (initialized \/ replies' = 3)

\* register_reply: an error is a reply too.
ReceiveEmbedReply ==
  /\ Receive("EmbedReply")
  /\ IF initialized THEN UNCHANGED <<calls, keyCalls>>
     ELSE /\ calls' = Append(calls, [kind |-> "GetRegisteredEvents"])
          /\ keyCalls' = keyCalls + 1
  /\ ConsumeApp
  /\ UNCHANGED <<up, registered, started, appVars, atVars, made, crashes>>

\* get_events_reply.  (If it is the third reply and there is no client the
\* listeners are removed, and none are there.)
ReceiveEventsReply ==
  /\ Receive("EventsReply")
  /\ LET got == Head(appBox).events
     IN /\ mirror' = mirror \cup got
        /\ AddClients({e[1] : e \in got})
  /\ Tally
  /\ ConsumeApp
  /\ UNCHANGED <<registryVars, calls, started, appLost, atVars, made, crashes>>

\* get_device_events_reply
ReceiveKeysReply ==
  /\ Receive("KeysReply")
  /\ AddClients(Head(appBox).clients)
  /\ Tally
  /\ ConsumeApp
  /\ UNCHANGED <<registryVars, calls, started, mirror, appLost, atVars, made, crashes>>

\* handle_event_listener_registered, add_event
ReceiveRegistered ==
  /\ Receive("Registered")
  /\ LET m == Head(appBox)
     IN mirror' = mirror \cup {<<m.at, m.type>>} /\ AddClients({m.at})
  /\ ConsumeApp
  /\ UNCHANGED <<registryVars, calls, started, replies, initialized, appLost,
                 atVars, made, crashes>>

\* remove_events of the bridge.  (Fault: of any client.)
MirrorWithoutType(at, type) == {e \in mirror : ~IsSubtype(e[2], type)}
MirrorWithout(at, type) ==
  {e \in mirror : ~(e[1] = at /\ IsSubtype(e[2], type))}

ReceiveDeregistered ==
  /\ Receive("Deregistered")
  /\ mirror' = MirrorWithout(Head(appBox).at, Head(appBox).type)
  /\ ConsumeApp
  /\ UNCHANGED <<registryVars, calls, started, clients, active, replies,
                 initialized, appLost, atVars, made, crashes>>

\* spi_atk_remove_client: the last one takes the listeners for ATK's events along.
ReceiveGone ==
  /\ Receive("Gone")
  /\ LET at == Head(appBox).at
     IN /\ clients' = clients \ {at}
        /\ active' = (active /\ (at \in clients => clients' # {}))
  /\ ConsumeApp
  /\ UNCHANGED <<registryVars, calls, started, mirror, replies, initialized,
                 appLost, atVars, made, crashes>>

ReceiveRegistryGone ==
  /\ Receive("RegistryGone")
  /\ appLost' = TRUE
  /\ ConsumeApp
  /\ UNCHANGED <<registryVars, calls, started, clients, mirror, active, replies,
                 initialized, atVars, made, crashes>>

\* The application registers again if it knew the registry.
RegisterAgain ==
  IF appLost THEN calls' = Append(calls, [kind |-> "Embed"]) ELSE UNCHANGED calls

ReceiveRegistryNew ==
  /\ Receive("RegistryNew")
  /\ RegisterAgain
  /\ appLost' = FALSE
  /\ ConsumeApp
  /\ UNCHANGED <<registryVars, started, clients, mirror, active, replies,
                 initialized, atVars, made, crashes>>

\* The listeners for ATK's events and signal_is_needed let the event through.
IsSent(event) ==
  /\ active
  /\ initialized => \E e \in mirror : IsSubtype(event, e[2])

-----------------------------------------------------------------------------
Init ==
  /\ up = TRUE /\ registered = {} /\ calls = <<>> /\ keyCalls = 0
  /\ started = FALSE /\ appBox = <<>>
  /\ clients = {} /\ mirror = {} /\ active = FALSE
  /\ replies = 0 /\ initialized = FALSE /\ appLost = FALSE
  /\ connected = [at \in AT |-> TRUE]
  /\ listening = [at \in AT |-> {}]
  /\ atLost = [at \in AT |-> FALSE]
  /\ notices = [at \in AT |-> <<>>]
  /\ made = 0 /\ crashes = 0

RegistryStep ==
  \/ HandleRegisterEvent \/ HandleDeregisterEvent \/ HandleGone
  \/ HandleEmbed \/ HandleGetRegisteredEvents \/ HandleGetKeystrokeListeners
  \/ Restart

AppStep ==
  \/ ReceiveEmbedReply \/ ReceiveEventsReply \/ ReceiveKeysReply
  \/ ReceiveRegistered \/ ReceiveDeregistered \/ ReceiveGone
  \/ ReceiveRegistryGone \/ ReceiveRegistryNew

Environment ==
  \/ Start \/ Crash
  \/ \E at \in AT : Die(at)
  \/ \E at \in AT, type \in EventType : Listen(at, type) \/ Withdraw(at, type)

Next ==
  \/ RegistryStep \/ AppStep \/ Environment
  \/ \E at \in AT : Notice(at)

Spec == Init /\ [][Next]_vars

-----------------------------------------------------------------------------
(* Properties *)

\* Everything sent has been handled.
Settled ==
  /\ started /\ up /\ calls = <<>> /\ keyCalls = 0 /\ appBox = <<>>
  /\ \A at \in AT : notices[at] = <<>>

Wanted(event) == \E at \in AT : \E t \in listening[at] : IsSubtype(event, t)

\* However registrations, the application's start and losses of the registry
\* are interleaved, the application emits every event that somebody listens to
\* (bridge.c:86-99, 340-389, 888-944; event.c:425-485), if clients withdraw no
\* type that covers another they listen to.
WantedIsSent == Settled => \A e \in Event : Wanted(e) => IsSent(e)

\* While the registry is not lost, an assistive technology that has gone is
\* forgotten by the registry and by the mirror of its registrations
\* (registry.c:366-394, bridge.c:818-852).
DeadAreForgotten ==
  (Settled /\ crashes = 0) =>
    \A at \in AT : ~connected[at] => \A e \in registered \cup mirror : e[1] # at
=============================================================================

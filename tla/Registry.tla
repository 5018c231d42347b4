------------------------------ MODULE Registry ------------------------------
(***************************************************************************)
(* The registry daemon of AT-SPI (registryd/registry.c): the applications  *)
(* embedded in the desktop, the event registrations of the assistive       *)
(* technologies, the liveness pings and the mouse-poll request it makes of *)
(* the device event controller.                                            *)
(*                                                                         *)
(* The daemon is single threaded.  Whatever reaches it comes through one   *)
(* connection, in the order in which the message bus wrote it: method      *)
(* calls of the clients, replies of the bus and of the applications, and   *)
(* the bus's own NameOwnerChanged signals.  That order is the sequence     *)
(* inbox.  What the registry sends is handled by the bus at once: the bus  *)
(* keeps the order of each connection, so delaying it adds no behaviour.   *)
(*                                                                         *)
(* The array registry->apps only grows at its end, so the order of its     *)
(* elements is the order of their ids and the array is a set of records.   *)
(* registry->events is a set too: two equal registrations are always       *)
(* removed together.                                                       *)
(***************************************************************************)
EXTENDS Integers, Sequences, FiniteSets, SequencesExt

CONSTANTS App,          \* bus names of applications
          AT,           \* bus names of assistive technologies
          KeyClient,    \* clients that register keystroke listeners
          Path,         \* object paths of root objects
          EventType,    \* event types, sequences of their ":" separated parts
          Null, Empty,  \* a NULL string and the empty string
          MaxId,        \* bound: applications ever embedded
          MaxInbox,     \* bound: messages waiting before a client sends more
          MaxSignals,   \* bound: undelivered signals before a client sends more
          MaxPollers,   \* bound: mouse poll timeouts before one more is asked for
          MaxEvents,    \* bound: registrations before one more is asked for
          PromptPings   \* TRUE: every ping is resolved before the next round

Client == App \cup AT
NoRound == 2

ASSUME ClientAssumption == App \cap AT = {} /\ KeyClient \subseteq Client
ASSUME StringAssumption == Null # Empty /\ {Null, Empty} \cap Client = {}
ASSUME BoundAssumption == MaxId \in Nat /\ MaxInbox \in Nat

VARIABLES
  apps,        \* registry->apps
  nextId,      \* registry->id
  events,      \* registry->events
  wantMouse,   \* have_mouse_event_listener of the device event controller
  pollers,     \* mouse poll timeouts in the main loop
  deviceClients, \* bus names with device listeners in the controller
  deviceCalls,   \* senders of the calls in the controller's message_queue
  round,       \* parity of the last ping round
  pings,       \* Ping calls without an answer
  inbox,       \* messages from the bus to the registry
  signals,     \* signals from the registry to an observer
  wildWrite,   \* a reply was written to an application already freed
  conn,        \* [Client -> {"on", "gone"}], the client's connection
  roots,       \* the roots a client believes are embedded
  waiting,     \* the roots whose Embed call has not been answered
  hung         \* the client does not answer

registryVars == <<apps, nextId, events, wantMouse, pollers, deviceClients,
                  deviceCalls, round, pings, wildWrite>>
clientVars == <<conn, roots, waiting, hung>>
vars == <<registryVars, clientVars, inbox, signals>>

Application == [id : Nat, name : App, path : Path, disabled : BOOLEAN,
                pending : {0, 1, NoRound}, pid : App \cup {Null}]
Registration == [listener : AT, app : App \cup {Null}, type : EventType]

Message ==
       [kind : {"Embed", "Unembed"}, sender : App, path : Path]
  \cup [kind : {"NameOwnerChanged"}, sender : Client]
  \cup [kind : {"RegisterEvent", "DeregisterEvent"}, sender : AT,
        type : EventType, app : App \cup {Empty}]
  \cup [kind : {"RegisterKeystrokeListener"}, sender : Client]
  \cup [kind : {"PidReply"}, app : Nat, name : App, ok : BOOLEAN]
  \cup [kind : {"PingReply"}, app : Nat, round : {0, 1}, ok : BOOLEAN]

Ref(a) == <<a.name, a.path>>
Gone(c) == [kind |-> "NameOwnerChanged", sender |-> c]

-----------------------------------------------------------------------------
(* Helpers of registry.c *)

\* The elements of as that are before a in the array, and as from the array's start.
Place(as, a) == Cardinality({b \in as : b.id < a.id})
InOrder(as) == [i \in 1..Cardinality(as) |-> CHOOSE a \in as : Place(as, a) = i - 1]

Enabled(as) == {b \in as : ~b.disabled}

\* The position emit_children_changed reports: enabled applications before a.
\* (Fault: disabled ones are counted.)
IndexOfAll(as, a) == Place(as, a)
IndexOf(as, a) == Place(Enabled(as), a)

ChildrenChanged(op, as, a) ==
  [kind |-> op, ref |-> Ref(a), index |-> IndexOf(as, a)]

\* event_is_subtype: the parts of remove, up to an empty one, begin data.
IsSubtype(data, remove) ==
  \A i \in DOMAIN remove :
    (\A j \in 1..i : remove[j] # "") => i <= Len(data) /\ data[i] = remove[i]

NeedsMousePoll(type) ==
  /\ type # <<>> /\ type[1] = "Mouse"
  /\ Len(type) > 1 => type[2] \in {"", "Abs"}

\* The registrations remove_events takes away.  app_bus_name is NULL in a
\* registration for every application, and no string compares equal to it.
Removed(bus, type, app) ==
  {e \in events : /\ e.listener = bus
                  /\ type = <<>> \/ e.app = app
                  /\ IsSubtype(e.type, type)}

\* (Fault: the need is judged by what is removed.)
RemoveEventsStops(bus, type, app) ==
  /\ events' = events \ Removed(bus, type, app)
  /\ wantMouse' = (wantMouse /\ ~\E e \in Removed(bus, type, app) : NeedsMousePoll(e.type))
  /\ UNCHANGED pollers
RemoveEvents(bus, type, app) ==
  /\ events' = events \ Removed(bus, type, app)
  /\ wantMouse' = (wantMouse /\ \E e \in events' : NeedsMousePoll(e.type))
  /\ UNCHANGED pollers

Deregistered(bus, type) == [kind |-> "deregistered", bus |-> bus, type |-> type]

\* spi_device_event_controller_start_poll_mouse
StartPollMouse ==
  /\ wantMouse' = TRUE
  /\ pollers' = IF wantMouse THEN pollers ELSE pollers + 1

\* The applications handle_disconnection removes.
\* (Faults: the one behind a removed one is skipped; only enabled ones are seen.)
ApplicationsOfSkipping(c) ==
  {a \in apps : a.name = c /\ ~\E b \in apps : b.name = c /\ b.id = a.id - 1}
ApplicationsOfEnabled(c) == {a \in apps : a.name = c /\ ~a.disabled}
ApplicationsOf(c) == {a \in apps : a.name = c}

\* The "remove" signals of remove_application over several applications.  Each
\* is emitted while the earlier ones have already left the array.
\* (Fault: only the first is announced.)
RemoveSignalsFirst(gone) ==
  [i \in 1..Cardinality({b \in gone : \A a \in gone : b.id <= a.id}) |->
     ChildrenChanged("remove", apps, CHOOSE b \in gone : \A a \in gone : b.id <= a.id)]
RemoveSignals(gone) ==
  LET order == InOrder(gone)
      before(a) == apps \ {b \in gone : b.id < a.id}
  IN [i \in DOMAIN order |-> ChildrenChanged("remove", before(order[i]), order[i])]

\* remove_application for all of gone; the controller forgets their listeners.
RemoveApplications(gone) ==
  /\ apps' = apps \ gone
  /\ deviceClients' = deviceClients \ {a.name : a \in gone}
  /\ UNCHANGED deviceCalls

-----------------------------------------------------------------------------
(* The handlers of the registry *)

Receive(kind) == inbox # <<>> /\ Head(inbox).kind = kind
Consume == inbox' = Tail(inbox)

\* impl_Embed, socket_embed, add_application.  The process id is asked of the
\* bus before the caller gets its answer; the bus replies behind what it has
\* already queued.
HandleEmbed ==
  /\ Receive("Embed")
  /\ LET m == Head(inbox)
         new == [id |-> nextId, name |-> m.sender, path |-> m.path,
                 disabled |-> FALSE, pending |-> NoRound, pid |-> Null]
     IN /\ apps' = apps \cup {new}
        /\ signals' = Append(signals, ChildrenChanged("add", apps, new))
        /\ inbox' = Append(Tail(inbox),
                      [kind |-> "PidReply", app |-> nextId, name |-> m.sender,
                       ok |-> conn[m.sender] = "on"])
        /\ waiting' = [waiting EXCEPT ![m.sender] = @ \ {m.path}]
  /\ nextId' = nextId + 1
  /\ UNCHANGED <<events, wantMouse, pollers, deviceClients, deviceCalls,
                 round, pings, wildWrite, conn, roots, hung>>

\* impl_Unembed: the first entry that names the same object is removed.
HandleUnembed ==
  /\ Receive("Unembed")
  /\ LET m == Head(inbox)
         same == {a \in apps : Ref(a) = <<m.sender, m.path>>}
         first == {a \in same : \A b \in same : a.id <= b.id}
     IN /\ RemoveApplications(first)
        /\ signals' = signals \o RemoveSignals(first)
  /\ Consume
  /\ UNCHANGED <<nextId, events, wantMouse, pollers, round, pings, wildWrite,
                 clientVars>>

\* handle_disconnection: every application of the connection that went away,
\* then its event registrations.
HandleNameOwnerChanged ==
  /\ Receive("NameOwnerChanged")
  /\ LET c == Head(inbox).sender
         gone == ApplicationsOf(c)
     IN /\ RemoveApplications(gone)
        /\ RemoveEvents(c, <<>>, Empty)
        /\ signals' = signals \o Append(RemoveSignals(gone), Deregistered(c, <<>>))
  /\ Consume
  /\ UNCHANGED <<nextId, round, pings, wildWrite, clientVars>>

HandleRegisterEvent ==
  /\ Receive("RegisterEvent")
  /\ LET m == Head(inbox)
     IN /\ events' = events \cup
             {[listener |-> m.sender, type |-> m.type,
               app |-> IF m.app = Empty THEN Null ELSE m.app]}
        /\ IF NeedsMousePoll(m.type) THEN StartPollMouse
                                     ELSE UNCHANGED <<wantMouse, pollers>>
        /\ signals' = Append(signals, [kind |-> "registered", bus |-> m.sender,
                                       type |-> m.type])
  /\ Consume
  /\ UNCHANGED <<apps, nextId, deviceClients, deviceCalls, round, pings,
                 wildWrite, clientVars>>

HandleDeregisterEvent ==
  /\ Receive("DeregisterEvent")
  /\ LET m == Head(inbox)
     IN /\ RemoveEvents(m.sender, m.type, m.app)
        /\ signals' = Append(signals, Deregistered(m.sender, m.type))
  /\ Consume
  /\ UNCHANGED <<apps, nextId, deviceClients, deviceCalls, round, pings,
                 wildWrite, clientVars>>

\* handle_dec_method: calls to the controller are put aside, to be handled when
\* the main loop is idle.
HandleRegisterKeystrokeListener ==
  /\ Receive("RegisterKeystrokeListener")
  /\ deviceCalls' = deviceCalls \cup {Head(inbox).sender}
  /\ Consume
  /\ UNCHANGED <<apps, nextId, events, wantMouse, pollers, deviceClients, round,
                 pings, wildWrite, clientVars, signals>>

\* message_queue_dispatch: the controller remembers the client.  How it may be
\* withdrawn is left to DeviceEventController.
DispatchDeviceCall ==
  /\ \E c \in deviceCalls :
       /\ deviceClients' = deviceClients \cup {c}
       /\ deviceCalls' = deviceCalls \ {c}
  /\ UNCHANGED <<apps, nextId, events, wantMouse, pollers, round, pings,
                 wildWrite, clientVars, inbox, signals>>

\* set_app_pid writes through the pointer it was given when the call was made,
\* if the reply is not an error.
\* (Fault: errors are not told apart.)
HasPidAlways(m) == TRUE
HasPid(m) == m.ok

PidTarget(m) == {a \in apps : a.id = m.app}

HandlePidReply ==
  /\ Receive("PidReply")
  /\ LET m == Head(inbox)
         target == PidTarget(m)
     IN IF HasPid(m)
        THEN /\ apps' = (apps \ target) \cup {[a EXCEPT !.pid = m.name] : a \in target}
             /\ wildWrite' = (wildWrite \/ target = {})
        ELSE UNCHANGED <<apps, wildWrite>>
  /\ Consume
  /\ UNCHANGED <<nextId, events, wantMouse, pollers, deviceClients,
                 deviceCalls, round, pings, clientVars, signals>>

\* disable_app or enable_app, and the ping is no longer pending.
\* (Faults: it stays pending; nothing is ever disabled, or enabled again.)
ResolvedPending(a, ok) == [a EXCEPT !.disabled = ~ok]
ResolvedEnabled(a, ok) == [a EXCEPT !.pending = NoRound, !.disabled = FALSE]
ResolvedDisabled(a, ok) == [a EXCEPT !.pending = NoRound, !.disabled = @ \/ ~ok]
Resolved(a, ok) == [a EXCEPT !.pending = NoRound, !.disabled = ~ok]

\* handle_app_ping: the answer counts for the application that still waits for
\* this very call.
AppPing(id, r, ok) ==
  LET hit == {a \in apps : a.id = id /\ a.pending = r}
      changed == {a \in hit : a.disabled = ok}
      op == IF ok THEN "add" ELSE "remove"
  IN /\ apps' = (apps \ hit) \cup
                {Resolved(a, ok) : a \in hit}
     /\ signals' = signals \o
          [i \in 1..Cardinality(changed) |->
             ChildrenChanged(op, apps, CHOOSE a \in changed : TRUE)]

HandlePingReply ==
  /\ Receive("PingReply")
  /\ LET m == Head(inbox) IN AppPing(m.app, m.round, m.ok)
  /\ Consume
  /\ UNCHANGED <<nextId, events, wantMouse, pollers, deviceClients,
                 deviceCalls, round, pings, wildWrite, clientVars>>

\* No answer within 10 s: libdbus completes the call with an error.
PingTimeout ==
  /\ \E p \in pings :
       /\ hung[p.name]
       /\ pings' = pings \ {p}
       /\ AppPing(p.app, p.round, FALSE)
  /\ UNCHANGED <<nextId, events, wantMouse, pollers, deviceClients,
                 deviceCalls, round, wildWrite, clientVars, inbox>>

\* ping_applications, every 30 s: one call to each application, disabled or
\* not.  Rounds alternate, so two calls that are both open are told apart.
PingApplications ==
  LET r == 1 - round
      asked == {[app |-> a.id, name |-> a.name, round |-> r] : a \in apps}
  IN /\ apps # {}
     /\ PromptPings => \A a \in apps : a.pending = NoRound
     /\ \A p \in pings : p.round # r
     /\ \A i \in DOMAIN inbox : inbox[i].kind = "PingReply" => inbox[i].round # r
     /\ Len(signals) < MaxSignals
     /\ apps' = {[a EXCEPT !.pending = r] : a \in apps}
     /\ pings' = pings \cup asked
     /\ round' = r
     /\ UNCHANGED <<nextId, events, wantMouse, pollers, deviceClients,
                    deviceCalls, wildWrite, clientVars, inbox, signals>>

\* A mouse poll timeout of the controller fires: it ends when nobody listens.
\* (Fault: it always asks to be called again.)
PollMouseAgain == pollers > 0 /\ ~wantMouse /\ UNCHANGED vars
PollMouse ==
  /\ pollers > 0 /\ ~wantMouse
  /\ pollers' = pollers - 1
  /\ UNCHANGED <<apps, nextId, events, wantMouse, deviceClients, deviceCalls,
                 round, pings, wildWrite, clientVars, inbox, signals>>

-----------------------------------------------------------------------------
(* The clients and the bus *)

Send(m) == inbox' = Append(inbox, m)
MaySend(c) ==
  /\ conn[c] = "on" /\ ~hung[c]
  /\ Len(inbox) < MaxInbox /\ Len(signals) < MaxSignals

\* A root object is embedded once, without waiting for the answer.
CallEmbed(c, p) ==
  /\ MaySend(c) /\ p \notin roots[c] \cup waiting[c]
  /\ nextId + Cardinality({i \in DOMAIN inbox : inbox[i].kind = "Embed"}) < MaxId
  /\ Send([kind |-> "Embed", sender |-> c, path |-> p])
  /\ roots' = [roots EXCEPT ![c] = @ \cup {p}]
  /\ waiting' = [waiting EXCEPT ![c] = @ \cup {p}]
  /\ UNCHANGED <<registryVars, conn, hung, signals>>

\* What is not known to be embedded is not unembedded: the call follows the
\* answer to Embed.
CallUnembed(c, p) ==
  /\ MaySend(c) /\ p \in roots[c] \ waiting[c]
  /\ Send([kind |-> "Unembed", sender |-> c, path |-> p])
  /\ roots' = [roots EXCEPT ![c] = @ \ {p}]
  /\ UNCHANGED <<registryVars, conn, waiting, hung, signals>>

CallRegisterEvent(c, type, app) ==
  /\ MaySend(c) /\ pollers < MaxPollers /\ Cardinality(events) < MaxEvents
  /\ Send([kind |-> "RegisterEvent", sender |-> c, type |-> type, app |-> app])
  /\ UNCHANGED <<registryVars, clientVars, signals>>

CallDeregisterEvent(c, type, app) ==
  /\ MaySend(c)
  /\ Send([kind |-> "DeregisterEvent", sender |-> c, type |-> type, app |-> app])
  /\ UNCHANGED <<registryVars, clientVars, signals>>

CallRegisterKeystrokeListener(c) ==
  /\ MaySend(c) /\ c \notin deviceClients \cup deviceCalls
  /\ Send([kind |-> "RegisterKeystrokeListener", sender |-> c])
  /\ UNCHANGED <<registryVars, clientVars, signals>>

\* A connection may close at any time, in the middle of a call too.
Disconnect(c) ==
  /\ conn[c] = "on"
  /\ conn' = [conn EXCEPT ![c] = "gone"]
  /\ hung' = [hung EXCEPT ![c] = FALSE]
  /\ Send(Gone(c))
  /\ UNCHANGED <<registryVars, roots, waiting, signals>>

Hang(c) ==
  /\ conn[c] = "on" /\ ~hung[c]
  /\ hung' = [hung EXCEPT ![c] = TRUE]
  /\ UNCHANGED <<registryVars, conn, roots, waiting, inbox, signals>>

Recover(c) ==
  /\ hung[c]
  /\ hung' = [hung EXCEPT ![c] = FALSE]
  /\ UNCHANGED <<registryVars, conn, roots, waiting, inbox, signals>>

\* The application answers a Ping, or the bus does for a name nobody owns.
AnswerPing ==
  /\ \E p \in pings :
       /\ ~hung[p.name]
       /\ pings' = pings \ {p}
       /\ Send([kind |-> "PingReply", app |-> p.app, round |-> p.round,
                ok |-> conn[p.name] = "on"])
  /\ UNCHANGED <<apps, nextId, events, wantMouse, pollers, deviceClients,
                 deviceCalls, round, wildWrite, clientVars, signals>>

\* The observer takes the next signal.
Deliver ==
  /\ signals # <<>>
  /\ signals' = Tail(signals)
  /\ UNCHANGED <<registryVars, clientVars, inbox>>

-----------------------------------------------------------------------------
Init ==
  /\ apps = {} /\ nextId = 0 /\ events = {}
  /\ wantMouse = FALSE /\ pollers = 0
  /\ deviceClients = {} /\ deviceCalls = {}
  /\ round = 0 /\ pings = {} /\ wildWrite = FALSE
  /\ inbox = <<>> /\ signals = <<>>
  /\ conn = [c \in Client |-> "on"]
  /\ roots = [c \in Client |-> {}]
  /\ waiting = [c \in Client |-> {}]
  /\ hung = [c \in Client |-> FALSE]

RegistryStep ==
  \/ HandleEmbed \/ HandleUnembed \/ HandleNameOwnerChanged
  \/ HandleRegisterEvent \/ HandleDeregisterEvent
  \/ HandleRegisterKeystrokeListener
  \/ HandlePidReply \/ HandlePingReply
  \/ PingTimeout \/ PingApplications \/ PollMouse \/ DispatchDeviceCall

ClientStep ==
  \/ \E c \in Client : Disconnect(c)
  \/ \E c \in KeyClient : CallRegisterKeystrokeListener(c)
  \/ \E c \in App : \/ Hang(c) \/ Recover(c)
                    \/ \E p \in Path : CallEmbed(c, p) \/ CallUnembed(c, p)
  \/ \E c \in AT, t \in EventType, a \in App \cup {Empty} :
       CallRegisterEvent(c, t, a) \/ CallDeregisterEvent(c, t, a)
  \/ AnswerPing

Next == RegistryStep \/ ClientStep \/ Deliver

Spec == Init /\ [][Next]_vars

\* The main loop dispatches what has arrived, a call is completed by its answer
\* or by its timeout, whichever is first, and the bus delivers.  The timer of
\* the pings fires whatever else is on its way, so it is strongly fair: only the
\* bound on signals disables it now and then.
Handle ==
  \/ HandleEmbed \/ HandleUnembed \/ HandleNameOwnerChanged
  \/ HandleRegisterEvent \/ HandleDeregisterEvent
  \/ HandleRegisterKeystrokeListener \/ HandlePidReply \/ HandlePingReply

Fairness ==
  /\ WF_vars(Handle) /\ SF_vars(PingApplications)
  /\ WF_vars(AnswerPing \/ PingTimeout) /\ WF_vars(PollMouse)
  /\ WF_vars(Deliver)

FairSpec == Spec /\ Fairness

-----------------------------------------------------------------------------
(* Correctness *)

TypeOK ==
  /\ apps \subseteq Application /\ nextId \in Nat
  /\ events \subseteq Registration
  /\ wantMouse \in BOOLEAN /\ pollers \in Nat
  /\ deviceClients \subseteq Client /\ deviceCalls \subseteq Client
  /\ round \in {0, 1}
  /\ pings \subseteq [app : Nat, name : App, round : {0, 1}]
  /\ wildWrite \in BOOLEAN
  /\ inbox \in Seq(Message)
  /\ conn \in [Client -> {"on", "gone"}]
  /\ roots \in [Client -> SUBSET Path]
  /\ waiting \in [Client -> SUBSET Path]
  /\ hung \in [Client -> BOOLEAN]

\* Nothing of a connection outlives it: an application in the desktop, or an
\* event registration, belongs to a connection that is open or whose loss the
\* registry has still to hear of (handle_disconnection against a call that was
\* in flight when the caller died).
Known(c) == conn[c] = "on" \/ Gone(c) \in ToSet(inbox)
NoGhostApplication == \A a \in apps : Known(a.name)
NoGhostRegistration == \A e \in events : Known(e.listener)

\* set_app_pid keeps a pointer to the application while the bus is asked for
\* its process id.  The reply always finds the application alive: no Unembed
\* or disconnection frees it in between.
NoWildWrite == ~wildWrite

\* The process id stored is that of the application's own connection.
PidIsOwn == \A a \in apps : a.pid \in {Null, a.name}

\* The mouse is polled exactly while some registration needs it, and while it
\* is wanted a poll timeout is alive (remove_events recomputes the need from
\* what is left; stop and start leave timeouts behind).
MousePollMatchesEvents ==
  /\ wantMouse <=> \E e \in events : NeedsMousePoll(e.type)
  /\ wantMouse => pollers > 0

\* A ping an application waits for is resolved exactly once: the call is open
\* or its one answer is on the way.  Otherwise the application would keep its
\* disabled state for ever, or a stale answer would change it.
PingResolvedOnce ==
  \A a \in apps : a.pending # NoRound =>
    Cardinality({p \in pings : p.app = a.id /\ p.round = a.pending})
    + Cardinality({i \in DOMAIN inbox : /\ inbox[i].kind = "PingReply"
                                        /\ inbox[i].app = a.id
                                        /\ inbox[i].round = a.pending}) = 1

\* Every mouse poll timeout ends once no registration needs it any more, those
\* left over from registrations withdrawn and made again in between too.
MousePollStops ==
  <>[](\A e \in events : ~NeedsMousePoll(e.type)) => <>[](pollers = 0)

\* An application whose connection is lost leaves the desktop.
GoneIsRemoved ==
  \A c \in App : conn[c] = "gone" ~> \A a \in apps : a.name # c

\* An application that stops answering for good ends up disabled for good, and
\* one that answers from some time on ends up enabled for good, whatever
\* happened to it before.
ShownWhileAnswering ==
  \A c \in App :
    /\ <>[]hung[c] => <>[](\A a \in apps : a.name = c => a.disabled)
    /\ <>[](conn[c] = "on" /\ ~hung[c])
         => <>[](\A a \in apps : a.name = c => ~a.disabled)
=============================================================================

------------------------ MODULE DeviceEventController ------------------------
(***************************************************************************)
(* Keystroke listeners of the registry (deviceeventcontroller.c).  Calls   *)
(* wait in message_queue for an idle callback; a NameOwnerChanged is       *)
(* handled at once.  A key event is shown to its listeners one after the   *)
(* other.  While a listener is waited for (send_and_allow_reentry) D-Bus   *)
(* messages are dispatched, but the main loop does not run: calls pile up  *)
(* in message_queue, departures take effect.                               *)
(***************************************************************************)
EXTENDS Integers, Sequences, FiniteSets, SequencesExt

CONSTANTS Client,        \* bus names of the ATs
          Embedded,      \* those that the registry has as applications as well
          Registration,  \* the arguments of RegisterKeystrokeListener in use
          Mask, Key,     \* modifiers; keycodes
          Pressed,       \* the keys that are pressed
          AnyKey,        \* key_val 0
          Refused,       \* grabs that another X client holds
          None,          \* nobody is waited for, no key event is shown
          Together,      \* the sets of clients that are on the bus together
          MaxCalls,      \* bound: calls each client makes
          MaxEvents,     \* bound: key events
          MaxStarted     \* bound: calls and key events together

KeyStroke == [mask : Mask, key : Key]
Grab == Mask \X (Key \cup {AnyKey})

ASSUME RegistrationAssumption ==
  /\ Embedded \subseteq Client /\ Together \subseteq SUBSET Client
  /\ Pressed \subseteq KeyStroke /\ Refused \subseteq Grab /\ AnyKey \notin Key
  /\ None \notin Client /\ None \notin Registration
  /\ \A r \in Registration :
       /\ r.client \in Client /\ r.mask \in Mask /\ r.keys \in Seq(Key)
       /\ r.global \in BOOLEAN /\ r.preemptive \in BOOLEAN /\ r.path \in STRING

VARIABLES
  conn,       \* clients on the bus
  mine,       \* registrations each client made and did not take back
  inbox,      \* messages of the bus that the registry has not read yet
  messages,   \* controller->message_queue
  draining,   \* message_queue_dispatch runs
  listeners,  \* controller->key_listeners, newest first
  registered, \* history: the registrations that were handled and whose withdrawal was not
  keygrabs,   \* ref_count of each element of keygrabs_list, 0 if there is none
  todo,       \* the clones a key event still has to be shown to
  asked,      \* the clone whose client is waited for
  hung,       \* hung_processes
  late,       \* calls to each client whose answers unmark it
  calls,      \* calls each client made
  events      \* key events

clientVars == <<conn, mine, calls>>
listenerVars == <<listeners, registered, keygrabs>>
hungVars == <<hung, late>>
controllerVars == <<conn, mine, inbox, messages, draining, listeners, registered,
                    keygrabs, todo, asked, hung, late, calls, events>>

-----------------------------------------------------------------------------
(* Key grabs *)

\* handle_keygrab: how often a listener names a grab.
Wants(l, g) ==
  IF l.mask # g[1] THEN 0
  ELSE IF l.keys = <<>> THEN (IF g[2] = AnyKey THEN 1 ELSE 0)
  ELSE Cardinality({i \in DOMAIN l.keys : l.keys[i] = g[2]})

\* register_global_keygrabs.  A grab that X refuses is dropped again.
AddedGrabs(gs, l) ==
  [g \in Grab |-> IF g \in Refused THEN 0 ELSE gs[g] + Wants(l, g)]

\* deregister_global_keygrabs.  A count that goes below zero wraps, and is
\* caught by the assertion in update_key_grabs.
\* (Fault: a grab that is named twice is released once.)
ReleasedOnce(gs, l) ==
  [g \in Grab |-> IF gs[g] <= 0 \/ Wants(l, g) = 0 THEN gs[g] ELSE gs[g] - 1]
ReleasedGrabs(gs, l) ==
  [g \in Grab |-> IF gs[g] <= 0 THEN gs[g] ELSE gs[g] - Wants(l, g)]

\* g_assert (grab_mask->ref_count <= 0), in unsigned arithmetic
AssertionHolds == \A g \in Grab : keygrabs[g] >= 0

\* The elements of s at the positions of I, in their order.
Elements(s, I) ==
  LET taken[n \in 0..Len(s)] ==
        IF n = 0 THEN <<>>
        ELSE IF n \in I THEN Append(taken[n - 1], s[n]) ELSE taken[n - 1]
  IN taken[Len(s)]

\* remove_listener_cb compares the client and the path, not the mask or keys: what a
\* listener was registered for with other masks is forgotten with it.
RemovedListener(ls, l) ==
  Elements(ls, {i \in DOMAIN ls : ~(ls[i].client = l.client /\ ls[i].path = l.path)})

\* spi_remove_device_listeners deregisters the newest listener of each path, and the
\* others of the path go with it.
Newest(c) ==
  {i \in DOMAIN listeners :
     /\ listeners[i].client = c
     /\ \A j \in 1..(i - 1) : ~(listeners[j].client = c /\ listeners[j].path = listeners[i].path)}
AllRemoved(ls, c) == Elements(ls, {i \in DOMAIN ls : ls[i].client # c})
AllReleased(c) ==
  LET released[n \in 0..Len(listeners)] ==
        IF n = 0 THEN keygrabs
        ELSE IF n \in Newest(c) THEN ReleasedGrabs(released[n - 1], listeners[n])
        ELSE released[n - 1]
  IN released[Len(listeners)]

-----------------------------------------------------------------------------
(* Clients *)

Send(m) == inbox' = Append(inbox, m)

MayStart == events + FoldFunction(+, 0, calls) < MaxStarted

CountCall(c) ==
  /\ MayStart /\ c \in conn /\ calls[c] < MaxCalls[c]
  /\ calls' = [calls EXCEPT ![c] = @ + 1]

CallRegister(r) ==
  /\ CountCall(r.client) /\ r \notin mine
  /\ mine' = mine \cup {r}
  /\ Send([type |-> "register", listener |-> r])
  /\ UNCHANGED <<conn, messages, draining, listenerVars, todo, asked, hungVars, events>>

\* The arguments are those of a registration that was made.
CallDeregister(r) ==
  /\ CountCall(r.client) /\ r \in mine
  /\ mine' = mine \ {r}
  /\ Send([type |-> "deregister", listener |-> r])
  /\ UNCHANGED <<conn, messages, draining, listenerVars, todo, asked, hungVars, events>>

\* A toolkit hands in a key event (NotifyListenersSync, NotifyListenersAsync).
CallNotify(k) ==
  /\ MayStart /\ events < MaxEvents /\ events' = events + 1
  /\ Send([type |-> "notify", stroke |-> k])
  /\ UNCHANGED <<clientVars, messages, draining, listenerVars, todo, asked, hungVars>>

Disconnect(c) ==
  /\ c \in conn /\ conn' = conn \ {c}
  /\ Send([type |-> "gone", client |-> c])
  /\ UNCHANGED <<mine, calls, messages, draining, listenerVars, todo, asked, hungVars, events>>

-----------------------------------------------------------------------------
(* The registry *)

Waiting == asked # None

\* The main loop dispatches a message, or send_and_allow_reentry does.
MayDispatch == Waiting \/ (todo = <<>> /\ ~draining)

\* handle_dec_method
DispatchCall ==
  /\ MayDispatch /\ inbox # <<>> /\ inbox[1].type # "gone"
  /\ inbox' = Tail(inbox) /\ messages' = Append(messages, inbox[1])
  /\ UNCHANGED <<clientVars, draining, listenerVars, todo, asked, hungVars, events>>

\* handle_disconnection: only an application's listeners are removed.
DispatchGone ==
  /\ MayDispatch /\ inbox # <<>> /\ inbox[1].type = "gone"
  /\ inbox' = Tail(inbox)
  /\ IF inbox[1].client \in Embedded
     THEN /\ listeners' = AllRemoved(listeners, inbox[1].client)
          /\ registered' = AllRemoved(registered, inbox[1].client)
          /\ keygrabs' = AllReleased(inbox[1].client)
     ELSE UNCHANGED listenerVars
  /\ UNCHANGED <<clientVars, messages, draining, todo, asked, hungVars, events>>

Idle == todo = <<>> /\ ~Waiting

\* message_queue_dispatch is not entered while a key event is shown.
\* (Fault: calls are handled as they come.)
MayHandleAlways == TRUE
MayHandle == Idle

HandleCall(type) ==
  /\ MayHandle /\ messages # <<>> /\ messages[1].type = type
  /\ messages' = Tail(messages)

HandleRegister ==
  /\ HandleCall("register")
  /\ LET l == messages[1].listener
     IN /\ listeners' = <<l>> \o listeners /\ registered' = <<l>> \o registered
        /\ keygrabs' = IF l.global THEN AddedGrabs(keygrabs, l) ELSE keygrabs
  /\ draining' = (messages' # <<>>)
  /\ UNCHANGED <<clientVars, inbox, todo, asked, hungVars, events>>

\* spi_deregister_controller_key_listener.  The keys copied for a call without
\* keys go to a clone whose keys are not looked at.
HandleDeregister ==
  /\ HandleCall("deregister")
  /\ LET l == messages[1].listener
     IN /\ listeners' = RemovedListener(listeners, l)
        /\ registered' = Elements(registered, {i \in DOMAIN registered : registered[i] # l})
        /\ keygrabs' = ReleasedGrabs(keygrabs, l)
  /\ draining' = (messages' # <<>>)
  /\ UNCHANGED <<clientVars, inbox, todo, asked, hungVars, events>>

\* spi_key_event_matches_listener
Matches(l, k, global) ==
  /\ l.mask = k.mask /\ l.global = global
  /\ l.keys = <<>> \/ k.key \in Range(l.keys)

\* spi_controller_notify_keylisteners clones the listeners, oldest first.
Clones(k, global) ==
  Reverse(Elements(listeners, {i \in DOMAIN listeners : Matches(listeners[i], k, global)}))

HandleNotify ==
  /\ HandleCall("notify")
  /\ todo' = Clones(messages[1].stroke, FALSE)
  /\ draining' = (todo' # <<>> \/ messages' # <<>>)
  /\ UNCHANGED <<clientVars, inbox, listenerVars, asked, hungVars, events>>

\* A key that is grabbed: X freezes the keyboard until the event is allowed.
GrabbedKey(k) ==
  /\ Idle /\ ~draining /\ MayStart /\ events < MaxEvents
  /\ keygrabs[<<k.mask, k.key>>] > 0 \/ keygrabs[<<k.mask, AnyKey>>] > 0
  /\ events' = events + 1
  /\ todo' = Clones(k, TRUE)
  /\ UNCHANGED <<clientVars, inbox, messages, draining, listenerVars, asked, hungVars>>

\* The loop goes on with the next clone, or ends.
\* (Fault: it stays where it is.)
GoOnHere(rest) == todo' = todo
GoOn(rest) == todo' = rest

Continue(rest) ==
  /\ asked' = None /\ GoOn(rest)
  /\ draining' = (draining /\ (rest # <<>> \/ messages # <<>>))

\* NotifyEvent: a client that is marked is told, but not waited for.
Ask ==
  /\ todo # <<>> /\ ~Waiting
  /\ IF todo[1].client \in hung THEN Continue(Tail(todo))
     ELSE asked' = todo[1] /\ UNCHANGED <<todo, draining>>
  /\ UNCHANGED <<clientVars, inbox, messages, listenerVars, hungVars, events>>

\* Its reply.  Only a preemptive listener consumes the event.
Answer(consumed) ==
  /\ Waiting /\ asked.client \in conn
  /\ Continue(IF consumed /\ asked.preemptive THEN <<>> ELSE Tail(todo))
  /\ UNCHANGED <<clientVars, inbox, messages, listenerVars, hung, late, events>>

\* The bus answers for a client that is gone.
ErrorAnswer ==
  /\ Waiting /\ asked.client \notin conn
  /\ Continue(Tail(todo))
  /\ UNCHANGED <<clientVars, inbox, messages, listenerVars, hungVars, events>>

\* Calls that stay open after the time is over: the call and a Ping.
OpenCalls == 2

\* 3 s without an answer: the client is marked.
Timeout ==
  /\ Waiting
  /\ hung' = hung \cup {asked.client}
  /\ late' = [late EXCEPT ![asked.client] = @ + OpenCalls]
  /\ Continue(Tail(todo))
  /\ UNCHANGED <<clientVars, inbox, messages, listenerVars, events>>

\* The answer and the end of the 3 s come together: the answer is dropped,
\* and only the Ping can unmark the client.
AnswerTooLate ==
  /\ Waiting /\ asked.client \in conn
  /\ hung' = hung \cup {asked.client}
  /\ late' = [late EXCEPT ![asked.client] = @ + 1]
  /\ Continue(Tail(todo))
  /\ UNCHANGED <<clientVars, inbox, messages, listenerVars, events>>

\* reset_hung_process, reset_hung_process_from_ping
\* (Fault: the last call does not unmark the client.)
UnmarkedByFirst(c) == IF late[c] = 1 THEN hung ELSE hung \ {c}
Unmarked(c) == hung \ {c}

Completed(c) == [late EXCEPT ![c] = @ - 1]

Complete(c) ==
  /\ MayDispatch /\ late[c] > 0
  /\ late' = Completed(c)
  /\ hung' = Unmarked(c)
  /\ UNCHANGED <<clientVars, inbox, messages, draining, listenerVars, todo, asked, events>>

LateAnswer(c) == c \in conn /\ Complete(c)

\* The bus answers for a client that is gone, or libdbus gives up on the call
\* after its default timeout of 25 s (-1 in send_with_reply).
OpenCallFails(c) == Complete(c)

-----------------------------------------------------------------------------
ControllerInit ==
  /\ conn \in Together /\ mine = {} /\ calls = [c \in Client |-> 0]
  /\ inbox = <<>> /\ messages = <<>> /\ draining = FALSE
  /\ listeners = <<>> /\ registered = <<>> /\ keygrabs = [g \in Grab |-> 0]
  /\ todo = <<>> /\ asked = None
  /\ hung = {} /\ late = [c \in Client |-> 0]
  /\ events = 0

RegistryStep ==
  \/ DispatchCall \/ DispatchGone
  \/ HandleRegister \/ HandleDeregister \/ HandleNotify
  \/ Ask

ControllerNext ==
  /\ AssertionHolds
  /\ \/ \E r \in Registration : CallRegister(r) \/ CallDeregister(r)
     \/ \E k \in Pressed : CallNotify(k) \/ GrabbedKey(k)
     \/ \E c \in Client : Disconnect(c) \/ LateAnswer(c) \/ OpenCallFails(c)
     \/ \E consumed \in BOOLEAN : Answer(consumed)
     \/ ErrorAnswer \/ Timeout \/ AnswerTooLate
     \/ RegistryStep

ControllerSpec == ControllerInit /\ [][ControllerNext]_controllerVars

\* The registry goes on with its work, and the timeouts of 3 s and 25 s pass.
\* No client is assumed to answer.
Fairness ==
  /\ WF_controllerVars(RegistryStep) /\ WF_controllerVars(Timeout)
  /\ \A c \in Client : WF_controllerVars(OpenCallFails(c))

FairSpec == ControllerSpec /\ Fairness

-----------------------------------------------------------------------------
(* Correctness *)

\* While a key event is shown, the clones it is shown to are of listeners that
\* are registered: calls wait until it is over.  Only a client that left the
\* bus can be asked for a listener the registry has forgotten.
AsksOnlyRegistered ==
  \A i \in DOMAIN todo :
    todo[i] \in Range(listeners) \/ todo[i].client \notin conn

\* How often the global ones of some registrations name a grab.
TimesWanted(ls, g) ==
  LET sum[n \in 0..Len(ls)] ==
        IF n = 0 THEN 0 ELSE sum[n - 1] + (IF ls[n].global THEN Wants(ls[n], g) ELSE 0)
  IN sum[Len(ls)]

\* As long as no listener is for toolkits' keys and no application leaves the bus
\* with calls on the way, a key is grabbed as often as the registrations name it that
\* were not taken back, also where a listener is registered for several masks
\* (atspi-registry.c:188-191).  The listener itself is forgotten, for all its masks,
\* with the first of them that is taken back.
GrabsMatchRegistrations ==
  (\A r \in Registration : calls[r.client] > 0 => r.global /\ r.client \notin Embedded) =>
  \A g \in Grab \ Refused : keygrabs[g] = TimesWanted(registered, g)

\* The keyboard, frozen by the grab, is released after each key event even if
\* no listener ever answers.
KeyboardThaws == todo # <<>> ~> todo = <<>>

\* A client that was marked is asked again some day.
HungIsForgotten == \A c \in Client : c \in hung ~> c \notin hung
=============================================================================

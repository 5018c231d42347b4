--------------------------- MODULE EventListener ---------------------------
(***************************************************************************)
(* The event listeners of a client of libatspi                             *)
(* (atspi/atspi-event-listener.c) and the dispatch of the messages it      *)
(* defers (atspi/atspi-misc.c).                                            *)
(*                                                                         *)
(* The client is one thread, but nearly every call of the library waits    *)
(* for a reply, and after the wait the messages deferred so far are        *)
(* processed: a callback may run inside a deregistration, and              *)
(* deregistrations inside callbacks.  The variable stack is the call stack *)
(* of the thread, the innermost call first; an empty stack is the client's *)
(* own code between calls.                                                 *)
(*                                                                         *)
(* event_listeners only grows at its head, so the ids of its entries,      *)
(* descending, are its order and the list is a set of records.  An entry   *)
(* whose id is not in the set has been freed.                              *)
(*                                                                         *)
(* Event types are sequences of their parts, the empty ones left off.      *)
(***************************************************************************)
EXTENDS Integers, Sequences, FiniteSets

CONSTANTS Callback,       \* callbacks with their user data
          EventType,      \* types that are listened to
          Event,          \* types of events that occur
          Defunct,        \* the event of an object that is disposed of
          MaxListeners,   \* bound: registrations ever made
          MaxWithdrawals, \* bound: calls to deregister
          MaxEvents,      \* bound: events ever
          Careful         \* TRUE: each listener is withdrawn once, as registered

ASSUME BoundAssumption == MaxListeners \in Nat /\ MaxEvents \in Nat
ASSUME ModeAssumption == Careful \in BOOLEAN
ASSUME EventAssumption == Defunct \in Event /\ EventType \cup Event \subseteq Seq(STRING)

VARIABLES
  listeners,    \* event_listeners
  pending,      \* ids in pending_removals
  matches,      \* match rules of this client on the message bus, with copies
  deferred,     \* deferred_messages: the events among them
  stack,        \* calls in progress
  wild,         \* a freed list entry was read; nothing is known thereafter
  nextId,       \* id of the next entry
  events,       \* events so far
  withdrawals,  \* calls to deregister so far
  withdrawn     \* history: entries whose withdrawal has returned

bounds == <<nextId, events, withdrawals>>
vars == <<listeners, pending, matches, deferred, stack, wild, bounds, withdrawn>>

Id == 1..MaxListeners
Entry == [id : Id, callback : Callback, type : EventType]
Frame ==
       [kind : {"process"}]
  \cup [kind : {"dispatch"}, event : Event, at : Id \cup {0},
        called : SUBSET Callback, begun : 1..(MaxListeners + 1)]
  \cup [kind : {"callback"}, id : Id, callback : Callback]
  \cup [kind : {"deregister"}, callback : Callback, type : EventType,
        next : Id \cup {0}, waiting : BOOLEAN, covers : SUBSET Id]

-----------------------------------------------------------------------------
(* The list and the stack *)

Ids == {e.id : e \in listeners}
Largest(S) == IF S = {} THEN 0 ELSE CHOOSE i \in S : \A j \in S : j <= i
After(id) == Largest({i \in Ids : i < id})
EntryOf(id) == CHOOSE e \in listeners : e.id = id

Running(kind) == ~wild /\ stack # <<>> /\ Head(stack).kind = kind
Push(frame) == stack' = <<frame>> \o stack
Pop == stack' = Tail(stack)

\* The client's own code runs: between calls, or in a callback.
MayCall == ~wild /\ (stack # <<>> => Head(stack).kind = "callback")
InSend == \E i \in DOMAIN stack : stack[i].kind = "dispatch"
InProcess == \E i \in DOMAIN stack : stack[i].kind = "process"

\* is_superset for category, name and detail.
IsSuperset(super, sub) ==
  Len(super) <= Len(sub) /\ \A i \in DOMAIN super : super[i] = sub[i]

\* The entry's category, name and detail, where it has them, are the event's.
Matches(event, type) ==
  Len(type) <= Len(event) /\ SubSeq(event, 1, Len(type)) = type

Matched(callback, type) ==
  {e \in listeners : e.callback = callback /\ IsSuperset(type, e.type)}

-----------------------------------------------------------------------------
(* Registering and deregistering *)

\* atspi_event_listener_register_from_callback and its relatives.
Register(callback, type) ==
  /\ MayCall
  /\ nextId <= MaxListeners
  /\ listeners' = listeners \cup {[id |-> nextId, callback |-> callback, type |-> type]}
  /\ matches' = [matches EXCEPT ![type] = @ + 1]
  /\ nextId' = nextId + 1
  /\ UNCHANGED <<pending, deferred, stack, wild, events, withdrawals, withdrawn>>

\* What a careful client calls: it names the type it registered, and no
\* withdrawal of the same callback has been made or is being made.
IsCareful(callback, type) ==
  /\ \A e \in Matched(callback, type) : e.type = type /\ e.id \notin pending
  /\ \A i \in DOMAIN stack :
       stack[i].kind = "deregister" => stack[i].callback # callback

\* atspi_event_listener_deregister_from_callback is entered: l is the head.
Deregister(callback, type) ==
  /\ MayCall
  /\ Careful => IsCareful(callback, type)
  /\ withdrawals < MaxWithdrawals
  /\ Push([kind |-> "deregister", callback |-> callback, type |-> type,
           next |-> Largest(Ids), waiting |-> FALSE,
           covers |-> {e.id : e \in Matched(callback, type)}])
  /\ withdrawals' = withdrawals + 1
  /\ UNCHANGED <<listeners, pending, matches, deferred, wild, nextId, events,
                 withdrawn>>

\* The walk reaches e: it is taken out of the list, or later if events are
\* being dispatched.  (Fault: at once.)
TakeOutNow(e) == listeners' = listeners \ {e} /\ UNCHANGED pending
TakeOut(e) ==
  IF InSend
  THEN pending' = pending \cup {e.id} /\ UNCHANGED listeners
  ELSE listeners' = listeners \ {e} /\ UNCHANGED pending

\* The rule of the type given to deregister is withdrawn from the bus once for
\* each entry, and nothing is said of a rule that is not there.
\* (Fault: all copies of it.)
RemoveMatchAll(type) == matches' = [matches EXCEPT ![type] = 0]
RemoveMatch(type) ==
  matches' = [matches EXCEPT ![type] = IF @ = 0 THEN 0 ELSE @ - 1]

\* The next entry that matches is removed and DeregisterEvent is called.
WalkRemoves ==
  /\ Running("deregister")
  /\ LET f == Head(stack)
         left == {e.id : e \in {d \in Matched(f.callback, f.type) : d.id <= f.next}}
         e == EntryOf(Largest(left))
     IN /\ ~f.waiting
        /\ f.next \in Ids
        /\ left # {}
        /\ TakeOut(e)
        /\ RemoveMatch(f.type)
        /\ stack' = [stack EXCEPT ![1].next = After(e.id), ![1].waiting = TRUE]
  /\ UNCHANGED <<deferred, wild, bounds, withdrawn>>

\* The walk goes on at an entry that has been freed while it waited.
WalkIsLost ==
  /\ Running("deregister")
  /\ ~Head(stack).waiting /\ Head(stack).next \notin Ids \cup {0}
  /\ wild' = TRUE
  /\ UNCHANGED <<listeners, pending, matches, deferred, stack, bounds, withdrawn>>

WalkEnds ==
  /\ Running("deregister")
  /\ LET f == Head(stack)
     IN /\ ~f.waiting
        /\ f.next \in Ids \cup {0}
        /\ \A e \in Matched(f.callback, f.type) : f.next < e.id
        /\ withdrawn' = withdrawn \cup f.covers
  /\ Pop
  /\ UNCHANGED <<listeners, pending, matches, deferred, wild, bounds>>

\* The reply to DeregisterEvent: _atspi_dbus_send_with_reply_and_block processes
\* the deferred messages, unless that is already being done.
ReplyArrives ==
  /\ Running("deregister")
  /\ Head(stack).waiting
  /\ LET resumed == [stack EXCEPT ![1].waiting = FALSE]
     IN stack' = IF InProcess \/ deferred = <<>> THEN resumed
                 ELSE <<[kind |-> "process"]>> \o resumed
  /\ UNCHANGED <<listeners, pending, matches, deferred, wild, bounds, withdrawn>>

-----------------------------------------------------------------------------
(* Events *)

\* defer_message, called whenever libdbus dispatches: in the main loop and in
\* calls that wait.  The event may come from a rule of any listener, of
\* atspi_init, or from one that is no longer there.
Arrive(event) ==
  /\ MayCall \/ (Running("deregister") /\ Head(stack).waiting)
  /\ events < MaxEvents
  /\ deferred' = Append(deferred, event)
  /\ events' = events + 1
  /\ UNCHANGED <<listeners, pending, matches, stack, wild, nextId, withdrawals,
                 withdrawn>>

\* process_deferred_messages from the idle source or at the end of a call.
BeginProcess ==
  /\ ~wild /\ stack = <<>> /\ deferred # <<>>
  /\ Push([kind |-> "process"])
  /\ UNCHANGED <<listeners, pending, matches, deferred, wild, bounds, withdrawn>>

\* _atspi_send_event is entered.
SendEvent(event) ==
  [kind |-> "dispatch", event |-> event, at |-> Largest(Ids), called |-> {},
   begun |-> nextId]

ProcessNext ==
  /\ Running("process") /\ deferred # <<>>
  /\ Push(SendEvent(Head(deferred)))
  /\ deferred' = Tail(deferred)
  /\ UNCHANGED <<listeners, pending, matches, wild, bounds, withdrawn>>

ProcessEnds ==
  /\ Running("process") /\ deferred = <<>>
  /\ Pop
  /\ UNCHANGED <<listeners, pending, matches, deferred, wild, bounds, withdrawn>>

\* atspi_accessible_dispose: the client drops the last reference to an object,
\* and the event about that is dispatched at once.
Dispose ==
  /\ MayCall
  /\ events < MaxEvents
  /\ Push(SendEvent(Defunct))
  /\ events' = events + 1
  /\ UNCHANGED <<listeners, pending, matches, deferred, wild, nextId, withdrawals,
                 withdrawn>>

\* The entries the loop will call next, from where it is.
\* (Faults: withdrawn ones too; the loop ends at a withdrawn one.)
CallableWithdrawn(f) ==
  {e \in listeners : e.id <= f.at /\ Matches(f.event, e.type) /\ e.callback \notin f.called}
CallableUntil(f) ==
  {e \in listeners : /\ e.id <= f.at /\ Matches(f.event, e.type)
                     /\ e.callback \notin f.called
                     /\ \A p \in pending : p <= f.at => p < e.id}
Callable(f) ==
  {e \in listeners : /\ e.id <= f.at /\ Matches(f.event, e.type)
                     /\ e.callback \notin f.called /\ e.id \notin pending}

CallCallback ==
  /\ Running("dispatch")
  /\ LET f == Head(stack)
         id == Largest({e.id : e \in Callable(f)})
     IN /\ Callable(f) # {}
        /\ stack' = <<[kind |-> "callback", id |-> id, callback |-> EntryOf(id).callback]>>
                      \o [stack EXCEPT ![1].at = id]
  /\ UNCHANGED <<listeners, pending, matches, deferred, wild, bounds, withdrawn>>

\* The callback is noted as called, and the loop follows l->next.
CallbackReturns ==
  /\ Running("callback")
  /\ stack' = [Tail(stack) EXCEPT ![1].at = After(Head(stack).id),
                                  ![1].called = @ \cup {Head(stack).callback}]
  /\ UNCHANGED <<listeners, pending, matches, deferred, wild, bounds, withdrawn>>

\* in_send is zero: the pending removals are done.
\* (Faults: at the end of an inner dispatch too; only when the client
\* is back in its own code.)
ResolvePendingInner == listeners' = {e \in listeners : e.id \notin pending} /\ pending' = {}
ResolvePendingLate ==
  IF Len(stack) > 1 THEN UNCHANGED <<listeners, pending>>
  ELSE listeners' = {e \in listeners : e.id \notin pending} /\ pending' = {}
ResolvePending ==
  IF \E i \in DOMAIN Tail(stack) : Tail(stack)[i].kind = "dispatch"
  THEN UNCHANGED <<listeners, pending>>
  ELSE listeners' = {e \in listeners : e.id \notin pending} /\ pending' = {}

DispatchEnds ==
  /\ Running("dispatch")
  /\ Callable(Head(stack)) = {}
  /\ Pop
  /\ ResolvePending
  /\ UNCHANGED <<matches, deferred, wild, bounds, withdrawn>>

-----------------------------------------------------------------------------
Init ==
  /\ listeners = {} /\ pending = {} /\ withdrawn = {}
  /\ matches = [t \in EventType |-> 0]
  /\ deferred = <<>> /\ stack = <<>>
  /\ wild = FALSE
  /\ nextId = 1 /\ events = 0 /\ withdrawals = 0

\* What the client does, and what reaches it.
Client ==
  \/ \E c \in Callback, t \in EventType : Register(c, t) \/ Deregister(c, t)
  \/ \E e \in Event : Arrive(e)
  \/ Dispose

\* What goes on by itself.
Library ==
  \/ WalkRemoves \/ WalkIsLost \/ WalkEnds \/ ReplyArrives
  \/ BeginProcess \/ ProcessNext \/ ProcessEnds
  \/ CallCallback \/ CallbackReturns \/ DispatchEnds

Next == Client \/ Library

\* Calls are answered or time out, callbacks return, the idle source runs.
Fairness == WF_vars(Library)

Spec == Init /\ [][Next]_vars
FairSpec == Spec /\ Fairness

-----------------------------------------------------------------------------
(* Properties *)

\* A step that calls a callback, and one that ends a dispatch.
Calls == Len(stack') > Len(stack) /\ Head(stack').kind = "callback"
Ends == stack # <<>> /\ Head(stack).kind = "dispatch" /\ stack' = Tail(stack)

\* Types; what is pending is still in the list, and ids are never reused.
TypeOK ==
  /\ listeners \subseteq Entry
  /\ pending \subseteq Ids
  /\ matches \in [EventType -> Nat]
  /\ deferred \in Seq(Event)
  /\ stack \in Seq(Frame)
  /\ wild \in BOOLEAN
  /\ nextId \in 1..(MaxListeners + 1) /\ events \in Nat /\ withdrawals \in Nat
  /\ withdrawn \subseteq Id
  /\ \A d, e \in listeners : d.id = e.id => d = e
  /\ \A e \in listeners : e.id < nextId

\* However callbacks register, deregister and dispatch, the entry a dispatch is
\* at, the entry of a callback that runs and the next entry of a deregistration
\* that a callback made are still in the list, so that following l->next and the
\* callback's user data are safe (atspi-event-listener.c:940-946, 1102-1135).
\* It is not so of a deregistration made outside callbacks, while in_send is 0: its
\* next entry may be freed while it waits for a reply, see WalkIsLost.
DispatchIsSafe ==
  \A i \in DOMAIN stack :
    /\ stack[i].kind = "dispatch" => stack[i].at \in Ids \cup {0}
    /\ stack[i].kind = "callback" => stack[i].id \in Ids
    /\ stack[i].kind = "deregister" /\ i < Len(stack) => stack[i].next \in Ids \cup {0}

\* After atspi_event_listener_deregister has returned, the callback is not
\* called for a registration that it withdrew, not even for an event that was
\* being dispatched (atspi-event-listener.c:1119-1126).
NotCalledOnceWithdrawn ==
  [][Calls => Head(stack').id \notin withdrawn]_vars

\* An event reaches every callback that had a matching registration when it
\* was dispatched and that is not withdrawn, whatever the callbacks before it
\* did (atspi-event-listener.c:1103-1133).
EventReachesAll ==
  [][Ends =>
       \A e \in listeners :
         (e.id < Head(stack).begun /\ IsSuperset(e.type, Head(stack).event)
            /\ e.id \notin pending) => e.callback \in Head(stack).called]_vars

\* The bus holds one match rule for each registration that is not withdrawn
\* (atspi-event-listener.c:805-820, 952-961), if clients withdraw what they
\* registered, once.
RulesMatchListeners ==
  \A t \in EventType :
    matches[t] = Cardinality({e \in listeners : e.type = t /\ e.id \notin pending})

\* What is withdrawn while events are dispatched is freed in the end
\* (atspi-event-listener.c:1141-1146).
WithdrawnIsFreed == \A id \in Id : id \in pending ~> id \notin pending
=============================================================================

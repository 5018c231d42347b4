----------------------------- MODULE BusLauncher -----------------------------
(***************************************************************************)
(* The launcher of the accessibility bus (bus/at-spi-bus-launcher.c): it   *)
(* starts dbus-broker or dbus-daemon on demand, hands out the address of   *)
(* the bus, ends when the bus ends and ends the bus when it ends itself,   *)
(* and tells the session whether accessibility is enabled, for which it    *)
(* follows the ATs that have event listeners in the registry.              *)
(*                                                                         *)
(* The session bus starts a launcher when there is none.  A launcher may   *)
(* be killed at any time, and so may the bus.  While it starts a bus it is *)
(* blocked; signals and messages wait.                                     *)
(***************************************************************************)
EXTENDS Integers, Sequences, FiniteSets, SequencesExt

CONSTANTS Client,      \* programs that ask for the address
          AT,          \* names on the accessibility bus
          Nobody,      \* no client, no address
          Empty,       \* the address when nothing could be read
          MaxLaunches, \* bound: launchers
          MaxSets,     \* bound: calls that set IsEnabled
          MaxSignals,  \* bound: signals in inbox when one is sent
          MaxBreaks    \* bound: processes that are killed or fail

\* WANT_DBUS_BROKER, the default of the build; both were found.
Order == <<"broker", "daemon">>

Launcher == 1..MaxLaunches
Bus == Launcher \X {"broker", "daemon"}
NoBus == <<0, "none">>      \* a11y_bus_pid is 0
ErrorBus == <<-1, "none">>  \* it is -1

ASSUME NamesAssumption == Nobody \notin Client /\ Empty # Nobody
ASSUME BoundAssumption == {MaxLaunches, MaxSets, MaxSignals, MaxBreaks} \subseteq Nat

VARIABLES
  me,       \* the launcher: how many there were
  phase,    \* of its main thread, see Phase
  term,     \* a signal that ends it waits in sigterm_pipefd
  immediate,\* launch_immediately
  systemd,  \* the launcher runs in a unit of systemd
  pid,      \* a11y_bus_pid
  address,  \* a11y_bus_address
  message,  \* a11y_launch_error_message is set
  left,     \* implementations that ensure_a11y_bus has not tried yet
  caller,   \* the client whose call it answers
  watched,  \* children with on_bus_exited
  child,    \* the processes of the buses, see Child
  pending,  \* clients with a call on its way
  here,     \* ATs with listeners on the accessibility bus
  gone,     \* ATs that have left it
  inbox,    \* EventListenerRegistered signals, by sender
  table,    \* event_listeners
  enabled,  \* a11y_enabled
  setting,  \* toolkit-accessibility
  byHand,   \* the value that was set since an AT came or went, if any
  sets, breaks

lifeVars == <<me, phase, term, immediate, systemd>>
busVars == <<pid, address, message, left, watched, child>>
callVars == <<caller, pending>>
statusVars == <<table, enabled, setting, byHand>>
listenVars == <<here, gone, inbox>>
vars == <<lifeVars, busVars, callVars, listenVars, statusVars, sets, breaks>>

Phase == {"down", "up", "launching", "spawning", "reading", "leaving"}

\* A child: what it does next, in the order of Setup; if it has asked for a signal
\* when its parent dies; if exec succeeded.
NoChild == [at |-> "none", armed |-> FALSE, started |-> FALSE]
Child == [at : {"none", "arm", "check", "exec", "starting", "serving", "dead", "deadServed"},
          armed : BOOLEAN, started : BOOLEAN]

Dead(b) == child[b].at \in {"dead", "deadServed"}
Alive(b) == child[b].at # "none" /\ ~Dead(b)
Owner(b) == b[1] = me /\ phase # "down"
Ended(c) == [c EXCEPT !.at = IF @ = "serving" THEN "deadServed" ELSE "dead"]

-----------------------------------------------------------------------------
(* The child process between fork and exec: setup_bus_child_daemon.  The    *)
(* broker's setup has nothing of this.  (Fault: the other way round.)       *)

SetupReversed(kind) == IF kind = "daemon" THEN <<"check", "arm", "exec">> ELSE <<"exec">>
Setup(kind) == IF kind = "daemon" THEN <<"arm", "check", "exec">> ELSE <<"exec">>

After(b) == Setup(b[2])[1 + CHOOSE i \in DOMAIN Setup(b[2]) : Setup(b[2])[i] = child[b].at]

ChildStep(b) ==
  /\ \/ /\ child[b].at = "arm"
        /\ child' = [child EXCEPT ![b].at = After(b), ![b].armed = TRUE]
     \/ /\ child[b].at = "check"
        /\ child' = [child EXCEPT ![b] = IF Owner(b) THEN [@ EXCEPT !.at = After(b)]
                                         ELSE Ended(@)]
     \/ /\ child[b].at = "exec"
        /\ child' = [child EXCEPT ![b].at = "starting", ![b].started = TRUE]
  /\ UNCHANGED <<lifeVars, pid, address, message, left, watched, callVars, listenVars,
                 statusVars, sets, breaks>>

\* The bus prints its address, or accepts connections.
Serve(b) ==
  /\ child[b].at = "starting"
  /\ child' = [child EXCEPT ![b].at = "serving"]
  /\ UNCHANGED <<lifeVars, pid, address, message, left, watched, callVars, listenVars,
                 statusVars, sets, breaks>>

Break == breaks < MaxBreaks /\ breaks' = breaks + 1

\* The ATs lose their connections when there is no bus.
Reachable(a) == IF \E b \in Bus : child'[b].at = "serving" THEN a ELSE {}

\* exec fails, or the bus fails or is killed.
BusDies(b) ==
  /\ Break /\ child[b].at \in {"exec", "starting", "serving"}
  /\ child' = [child EXCEPT ![b] = Ended(@)]
  /\ here' = Reachable(here) /\ gone' = gone \cup (here \ here')
  /\ UNCHANGED <<lifeVars, pid, address, message, left, watched, callVars, inbox,
                 statusVars, sets>>

-----------------------------------------------------------------------------
(* The start and the end of the launcher *)

\* It is activated by a call, or by the session (--launch-immediately).
Start(at_once) ==
  /\ phase = "down" /\ me < MaxLaunches /\ (at_once \/ pending # {})
  /\ me' = me + 1 /\ immediate' = at_once /\ term' = FALSE /\ systemd' \in BOOLEAN
  /\ phase' = IF at_once THEN "launching" ELSE "up"
  /\ left' = IF at_once THEN Order ELSE <<>>
  /\ pid' = NoBus /\ address' = Nobody /\ message' = FALSE
  /\ UNCHANGED <<callVars, watched, child, listenVars, statusVars, sets, breaks>>

\* What goes with the process.  Its callers get an error from the session bus;
\* the kernel tells the children that asked for it.
Gone(stopped) ==
  /\ phase' = "down" /\ pending' = {} /\ caller' = Nobody /\ left' = <<>>
  /\ child' = [b \in Bus |-> IF b[1] = me /\ Alive(b) /\ (child[b].armed \/ b \in stopped)
                             THEN Ended(child[b]) ELSE child[b]]
  /\ here' = Reachable(here) /\ gone' = gone \cup (here \ here')
  /\ watched' = {} /\ inbox' = <<>> /\ table' = {} /\ enabled' = FALSE /\ byHand' = {}
  /\ UNCHANGED <<me, term, immediate, systemd, pid, address, message, setting, sets>>

\* SIGKILL, or a crash.
Kill == Break /\ phase # "down" /\ Gone({})

\* main, after the loop.
Leave == phase = "leaving" /\ Gone({pid}) /\ UNCHANGED breaks

\* SIGTERM, SIGHUP or SIGINT; the session manager's Stop; or the name is lost.
Terminate ==
  /\ Break /\ phase \notin {"down", "leaving"} /\ ~term
  /\ term' = TRUE
  /\ UNCHANGED <<me, phase, immediate, systemd, busVars, callVars, listenVars, statusVars, sets>>

\* on_sigterm_pipe
Quit ==
  /\ phase = "up" /\ term
  /\ phase' = "leaving"
  /\ UNCHANGED <<me, term, immediate, systemd, busVars, callVars, listenVars, statusVars, sets, breaks>>

\* on_bus_exited, for whichever child it was.  (Fault: the launcher stays.)
AfterBusStay == "up"
AfterBus == "leaving"

BusExited ==
  /\ phase = "up"
  /\ \E b \in watched : Dead(b) /\ watched' = watched \ {b}
  /\ pid' = ErrorBus /\ message' = TRUE
  /\ phase' = AfterBus
  /\ UNCHANGED <<me, term, immediate, systemd, address, left, child, callVars, listenVars,
                 statusVars, sets, breaks>>

-----------------------------------------------------------------------------
(* ensure_a11y_bus *)

This == <<me, left[1]>>

\* ensure_a11y_bus_broker, ensure_a11y_bus_daemon up to the fork.
TryNext ==
  /\ phase = "launching" /\ left # <<>>
  /\ IF left[1] = "broker" /\ ~systemd
     THEN left' = Tail(left) /\ UNCHANGED <<phase, message, child>>
     ELSE /\ child' = [child EXCEPT ![This] = [NoChild EXCEPT !.at = Setup(left[1])[1]]]
          /\ message' = FALSE /\ phase' = "spawning"
          /\ UNCHANGED left
  /\ UNCHANGED <<me, term, immediate, systemd, pid, address, watched, callVars, listenVars,
                 statusVars, sets, breaks>>

\* g_spawn_async returns: exec failed.
SpawnFails ==
  /\ phase = "spawning" /\ child[This].at = "dead" /\ ~child[This].started
  /\ pid' = ErrorBus /\ message' = TRUE
  /\ phase' = "launching" /\ left' = Tail(left)
  /\ UNCHANGED <<me, term, immediate, systemd, address, watched, child, callVars, listenVars,
                 statusVars, sets, breaks>>

\* Or it succeeded.  The address of the broker is that of the socket.
Spawned ==
  /\ phase = "spawning" /\ child[This].started
  /\ pid' = This /\ watched' = watched \cup {This}
  /\ IF left[1] = "daemon" THEN phase' = "reading" /\ UNCHANGED <<address, left>>
     ELSE phase' = "launching" /\ address' = This /\ left' = <<>>
  /\ UNCHANGED <<me, term, immediate, systemd, message, child, callVars, listenVars, statusVars,
                 sets, breaks>>

\* unix_read_all_fd_to_string ends with the daemon's end of the pipe.
ReadAddress ==
  /\ phase = "reading" /\ child[This].at # "starting"
  /\ address' = IF child[This].at = "dead" THEN Empty ELSE This
  /\ phase' = "launching" /\ left' = <<>>
  /\ UNCHANGED <<me, term, immediate, systemd, pid, message, watched, child, callVars, listenVars,
                 statusVars, sets, breaks>>

\* Or read fails: the daemon is sent a signal.
ReadFails ==
  /\ Break /\ phase = "reading"
  /\ child' = [child EXCEPT ![This] = IF Alive(This) THEN Ended(@) ELSE @]
  /\ pid' = ErrorBus /\ message' = TRUE
  /\ phase' = "launching" /\ left' = Tail(left)
  /\ here' = Reachable(here) /\ gone' = gone \cup (here \ here')
  /\ UNCHANGED <<me, term, immediate, systemd, address, watched, callVars, inbox, statusVars, sets>>

\* The reply of handle_method_call; the caller has no answer if there is neither
\* an address nor a message.  (Fault: a failed launch is not answered.)
AnswerKnownBus(c) == IF pid[1] > 0 THEN pending \ {c} ELSE pending
Answer(c) == IF pid[1] > 0 \/ message THEN pending \ {c} ELSE pending

\* ensure_a11y_bus connects to the bus, or fails to, and returns to
\* handle_method_call or to on_name_acquired, which ends the loop when state is
\* A11Y_BUS_STATE_ERROR.
Launched ==
  /\ phase = "launching" /\ left = <<>>
  /\ pid[1] > 0 => child[pid].at # "starting"
  /\ pending' = Answer(caller) /\ caller' = Nobody
  /\ phase' = IF immediate /\ caller = Nobody /\ pid[1] <= 0 THEN "leaving" ELSE "up"
  /\ UNCHANGED <<me, term, immediate, systemd, busVars, listenVars, statusVars, sets, breaks>>

\* GetAddress
Call(c) ==
  /\ c \notin pending /\ (phase # "down" \/ me < MaxLaunches)
  /\ pending' = pending \cup {c}
  /\ UNCHANGED <<lifeVars, busVars, caller, listenVars, statusVars, sets, breaks>>

GetAddress(c) ==
  /\ phase = "up" /\ c \in pending
  /\ IF pid = NoBus
     THEN phase' = "launching" /\ left' = Order /\ caller' = c /\ UNCHANGED pending
     ELSE pending' = Answer(c) /\ UNCHANGED <<phase, left, caller>>
  /\ UNCHANGED <<me, term, immediate, systemd, pid, address, message, watched, child, listenVars,
                 statusVars, sets, breaks>>

-----------------------------------------------------------------------------
(* Whether accessibility is enabled *)

\* handle_a11y_enabled_change; PropertiesChanged is emitted with the change.
Change(to, notify) ==
  /\ enabled' = to
  /\ setting' = IF notify /\ to # enabled THEN to ELSE setting

\* handle_set_property
SetEnabled(to) ==
  /\ phase = "up" /\ sets < MaxSets /\ sets' = sets + 1
  /\ Change(to, TRUE) /\ byHand' = {to}
  /\ UNCHANGED <<lifeVars, busVars, callVars, listenVars, table, breaks>>

\* An AT on the bus adds a listener; the registry tells the launcher if it is
\* connected.
Listen(a) ==
  /\ a \notin gone /\ Len(inbox) < MaxSignals
  /\ \E b \in Bus : child[b].at = "serving"
  /\ here' = here \cup {a}
  /\ inbox' = IF pid[1] > 0 /\ child[pid].at = "serving" /\ phase = "up"
              THEN Append(inbox, a) ELSE inbox
  /\ UNCHANGED <<lifeVars, busVars, callVars, gone, statusVars, sets, breaks>>

\* An AT leaves the bus; its name is not used again.
Depart(a) ==
  /\ a \in here
  /\ here' = here \ {a} /\ gone' = gone \cup {a}
  /\ UNCHANGED <<lifeVars, busVars, callVars, inbox, statusVars, sets, breaks>>

\* on_event_listener_registered
HandleListener ==
  /\ phase = "up" /\ inbox # <<>>
  /\ inbox' = Tail(inbox)
  /\ IF inbox[1] \in table THEN UNCHANGED statusVars
     ELSE /\ table' = table \cup {inbox[1]}
          /\ Change(TRUE, TRUE) /\ byHand' = {}
  /\ UNCHANGED <<lifeVars, busVars, callVars, here, gone, sets, breaks>>

\* event_listener_vanished_callback, whose watch tells of names that had left when
\* it was made, too.  (Fault: any departure disables.)
AfterDepartureNone(rest) == Change(FALSE, FALSE)
AfterDeparture(rest) == Change(rest # {}, FALSE)

HandleDeparture(a) ==
  /\ phase = "up" /\ a \in table \ here
  /\ table' = table \ {a}
  /\ AfterDeparture(table') /\ byHand' = {}
  /\ UNCHANGED <<lifeVars, busVars, callVars, listenVars, sets, breaks>>

-----------------------------------------------------------------------------
Init ==
  /\ me = 0 /\ phase = "down" /\ term = FALSE /\ immediate = FALSE /\ systemd = FALSE
  /\ pid = NoBus /\ address = Nobody /\ message = FALSE /\ left = <<>> /\ watched = {}
  /\ child = [b \in Bus |-> NoChild]
  /\ caller = Nobody /\ pending = {}
  /\ here = {} /\ gone = {} /\ inbox = <<>>
  /\ table = {} /\ enabled = FALSE /\ setting = FALSE /\ byHand = {}
  /\ sets = 0 /\ breaks = 0

\* The main thread of the launcher.
Main ==
  \/ Quit \/ BusExited \/ Leave
  \/ TryNext \/ SpawnFails \/ Spawned \/ ReadAddress \/ Launched
  \/ HandleListener
  \/ \E c \in Client : GetAddress(c)
  \/ \E a \in AT : HandleDeparture(a)

Next ==
  \/ Main \/ Kill \/ Terminate \/ ReadFails
  \/ \E at_once \in BOOLEAN : Start(at_once)
  \/ \E b \in Bus : ChildStep(b) \/ Serve(b) \/ BusDies(b)
  \/ \E c \in Client : Call(c)
  \/ \E to \in BOOLEAN : SetEnabled(to)
  \/ \E a \in AT : Listen(a) \/ Depart(a)

Spec == Init /\ [][Next]_vars

\* The sources of the launcher's main loop are all served; processes go on with
\* what they start, and a bus that was started serves or dies.  The session bus
\* activates the launcher.
Fairness ==
  /\ WF_vars(Quit) /\ WF_vars(BusExited) /\ WF_vars(Leave)
  /\ WF_vars(TryNext \/ SpawnFails \/ Spawned \/ ReadAddress \/ Launched)
  /\ \A c \in Client : SF_vars(GetAddress(c))
  /\ \A b \in Bus : WF_vars(ChildStep(b) \/ Serve(b))
  /\ WF_vars(Start(FALSE))

FairSpec == Spec /\ Fairness

-----------------------------------------------------------------------------
(* Correctness *)

\* "if it is killed by a signal it does not handle, the bus would be left running
\* with no owner" (at-spi-bus-launcher.c:329-332): a daemon does not outlive its
\* launcher, at whatever point of its start that is killed.
NoOrphanBus ==
  \A b \in {x \in Bus : x[2] = "daemon"} : Alive(b) /\ ~Owner(b) ~> ~Alive(b)

\* A launcher does not stay with the address of a bus that is gone: it ends, and
\* the next call starts both anew (at-spi-bus-launcher.c:304-323).
EndsWithItsBus == \A b \in Bus : pid = b /\ Dead(b) /\ phase # "down" ~> phase = "down"

\* GetAddress is answered, with an address or an error, whatever fails on the way
\* (at-spi-bus-launcher.c:347-558, 618-757).
CallsAreAnswered == \A c \in Client : c \in pending ~> c \notin pending

\* "IsEnabled" is what was set by hand last, or tells if there are ATs with
\* listeners if that has changed since (at-spi-bus-launcher.c:560-616, 776-845).
EnabledTellsListeners == enabled = IF byHand = {} THEN table # {} ELSE TRUE \in byHand
=============================================================================

-------------------------- MODULE BusLauncherProofs --------------------------
(***************************************************************************)
(* Theorems about the launcher of the accessibility bus, for every number  *)
(* of launchers, clients and ATs.  The properties that BusLauncher states  *)
(* with ~> are liveness and are left to the model checker; what is proved  *)
(* here is the safety that they rest on.                                   *)
(***************************************************************************)
EXTENDS BusLauncher, TLAPS

-----------------------------------------------------------------------------
(* What the session is told *)

\* IsEnabled tells if ATs have listeners, or what was set by hand since one of them
\* came or went, in whatever order the signals, departures and calls arrive
\* (handle_a11y_enabled_change, on_event_listener_registered,
\* event_listener_vanished_callback).
THEOREM EnabledFollowsListeners == Spec => []EnabledTellsListeners
<1>1. Init => EnabledTellsListeners
  BY DEF Init, EnabledTellsListeners
<1>2. EnabledTellsListeners /\ [Next]_vars => EnabledTellsListeners'
  <2> SUFFICES ASSUME EnabledTellsListeners, [Next]_vars PROVE EnabledTellsListeners'
    OBVIOUS
  <2>1. CASE UNCHANGED statusVars
    BY <2>1 DEF EnabledTellsListeners, statusVars
  <2>2. ASSUME NEW stopped, Gone(stopped) PROVE EnabledTellsListeners'
    BY <2>2 DEF Gone, EnabledTellsListeners
  <2>3. ASSUME NEW to \in BOOLEAN, SetEnabled(to) PROVE EnabledTellsListeners'
    <3>1. enabled' = to /\ byHand' = {to} /\ byHand' # {}
      BY <2>3 DEF SetEnabled, Change
    <3>2. enabled' = (TRUE \in byHand')
      <4>1. CASE to = TRUE
        BY <3>1, <4>1, Zenon
      <4>2. CASE to = FALSE
        <5>1. enabled' = FALSE /\ TRUE \notin byHand'
          BY <3>1, <4>2
        <5>2. (TRUE \in byHand') \in BOOLEAN
          OBVIOUS
        <5> QED BY <5>1, <5>2
      <4> QED BY <4>1, <4>2
    <3> QED BY <3>1, <3>2 DEF EnabledTellsListeners
  <2>4. CASE HandleListener
    BY <2>1, <2>4 DEF HandleListener, Change, EnabledTellsListeners
  <2>5. ASSUME NEW a \in AT, HandleDeparture(a) PROVE EnabledTellsListeners'
    BY <2>5 DEF HandleDeparture, AfterDeparture, Change, EnabledTellsListeners
  <2>6. CASE \/ TryNext \/ SpawnFails \/ Spawned \/ ReadAddress \/ ReadFails \/ Launched
             \/ Quit \/ BusExited \/ Terminate
             \/ \E c \in Client : GetAddress(c) \/ Call(c)
             \/ \E at_once \in BOOLEAN : Start(at_once)
             \/ \E b \in Bus : ChildStep(b) \/ Serve(b) \/ BusDies(b)
             \/ \E a \in AT : Listen(a) \/ Depart(a)
             \/ UNCHANGED vars
    <3>1. UNCHANGED statusVars
      BY <2>6 DEF TryNext, SpawnFails, Spawned, ReadAddress, ReadFails, Launched, Quit,
         BusExited, Terminate, GetAddress, Call, Start, ChildStep, Serve, BusDies, Listen,
         Depart, vars, statusVars
    <3> QED BY <2>1, <3>1
  <2> QED BY <2>2, <2>3, <2>4, <2>5, <2>6 DEF Next, Main, Kill, Leave
<1> QED BY <1>1, <1>2, PTL DEF Spec

-----------------------------------------------------------------------------
(* The buses of a launcher *)

\* The bus of the launcher is known.
Known == pid[1] > 0

\* The values of the launcher's variables at the points of ensure_a11y_bus.
LaunchInv ==
  /\ me \in 0..MaxLaunches /\ phase \in Phase
  /\ phase # "down" => me > 0
  /\ left \in {Order, <<"daemon">>, <<>>}
  /\ phase = "spawning" => left # <<>>
  /\ phase = "reading" => left = <<"daemon">>
  /\ phase \notin {"launching", "spawning", "reading"} => left = <<>> /\ caller = Nobody
  /\ pid \in {NoBus, ErrorBus} \cup Bus
  /\ phase # "down" /\ Known => pid[1] = me
  /\ phase = "spawning" \/ (phase = "launching" /\ left # <<>>) => ~Known /\ watched = {}
  /\ phase = "reading" => pid = This
  /\ phase = "launching" /\ left = <<>> => pid # NoBus
  /\ phase # "down" /\ pid = ErrorBus /\ left = <<>> => message
  /\ phase # "down" /\ Known => watched = {pid}
  /\ phase = "down" \/ pid = NoBus => watched = {}

\* A child goes through its setup; a daemon has asked for the signal when it has
\* left the first point of that.
ChildInv ==
  /\ child \in [Bus -> Child]
  /\ \A b \in Bus : b[2] = "broker" => child[b].at \notin {"arm", "check"}
  /\ \A b \in Bus : b[2] = "daemon" /\ Alive(b) => child[b].at = "arm" \/ child[b].armed

\* A launcher has the bus it knows, or is about to know, and no other.
OwnInv ==
  /\ \A b \in Bus : b[1] > me => ~Alive(b)
  /\ \A b \in Bus : Owner(b) /\ Alive(b) => b = pid \/ (phase = "spawning" /\ b = This)

\* A daemon without its launcher has not been executed.
NoOrphanStarts ==
  \A b \in Bus : b[2] = "daemon" /\ Alive(b) /\ ~Owner(b) => child[b].at \in {"arm", "check"}

BusInv == LaunchInv /\ ChildInv /\ OwnInv /\ NoOrphanStarts

\* A bus is its launcher and its kind.
LEMMA BusIsPair ==
  /\ \A b \in Bus : b = <<b[1], b[2]>> /\ b[1] \in Launcher /\ b[2] \in {"broker", "daemon"}
  /\ \A n \in Launcher, k \in {"broker", "daemon"} :
       <<n, k>> \in Bus /\ <<n, k>>[1] = n /\ <<n, k>>[2] = k
  /\ \A b \in Bus : b # NoBus /\ b # ErrorBus /\ b[1] > 0
  /\ NoBus[1] = 0 /\ ErrorBus[1] = -1 /\ NoBus # ErrorBus
  BY BoundAssumption DEF Bus, Launcher, NoBus, ErrorBus

\* What ensure_a11y_bus tries is known, and so is its next step.
LEMMA LeftIsOrder ==
  /\ Order # <<>> /\ Order[1] = "broker" /\ Tail(Order) = <<"daemon">>
  /\ <<"daemon">> # <<>> /\ <<"daemon">>[1] = "daemon" /\ Tail(<<"daemon">>) = <<>>
  /\ Order # <<"daemon">>
  BY DEF Order

\* The bus that is being started is a bus of the launcher.
LEMMA ThisIsBus ==
  ASSUME LaunchInv, phase # "down", left # <<>>
  PROVE  This \in Bus /\ This[1] = me /\ This[2] = left[1] /\ Owner(This)
<1>1. me \in Launcher /\ left[1] \in {"broker", "daemon"}
  BY LeftIsOrder, BoundAssumption DEF LaunchInv, Launcher
<1> QED BY <1>1, BusIsPair DEF This, Owner

\* The steps of setup_bus_child_daemon follow each other.
LEMMA DaemonSetup ==
  ASSUME NEW b \in Bus, b[2] = "daemon", child[b].at \in {"arm", "check"}
  PROVE  After(b) = IF child[b].at = "arm" THEN "check" ELSE "exec"
<1> DEFINE s == <<"arm", "check", "exec">>
           i == CHOOSE j \in DOMAIN s : s[j] = child[b].at
<1>1. After(b) = s[1 + i]
  BY DEF After, Setup
<1>2. /\ DOMAIN s = {1, 2, 3} /\ s[1] = "arm" /\ s[2] = "check" /\ s[3] = "exec"
  OBVIOUS
<1> HIDE DEF s
<1>3. i \in DOMAIN s /\ s[i] = child[b].at
  BY <1>2
<1> HIDE DEF i
<1>4. CASE child[b].at = "arm"
  <2>1. i = 1
    BY <1>2, <1>3, <1>4
  <2> QED BY <1>1, <1>2, <1>4, <2>1
<1>5. CASE child[b].at = "check"
  <2>1. i = 2
    BY <1>2, <1>3, <1>5
  <2> QED BY <1>1, <1>2, <1>5, <2>1
<1> QED BY <1>4, <1>5

\* A child that has ended is not alive.
LEMMA EndedIsDead ==
  ASSUME NEW c \in Child
  PROVE  /\ Ended(c) \in Child /\ Ended(c).at \in {"dead", "deadServed"}
         /\ Ended(c).armed = c.armed
  BY DEF Ended, Child

\* Points of a child and its signal, one by one.
LEMMA ChildMoves ==
  ASSUME NEW c \in Child, NEW at \in {"check", "exec", "starting", "serving"}
  PROVE  /\ [c EXCEPT !.at = at] \in Child
         /\ [c EXCEPT !.at = at].at = at /\ [c EXCEPT !.at = at].armed = c.armed
         /\ [c EXCEPT !.at = at, !.armed = TRUE] \in Child
         /\ [c EXCEPT !.at = at, !.armed = TRUE].at = at
         /\ [c EXCEPT !.at = at, !.armed = TRUE].armed
         /\ [c EXCEPT !.at = at, !.started = TRUE] \in Child
         /\ [c EXCEPT !.at = at, !.started = TRUE].at = at
         /\ [c EXCEPT !.at = at, !.started = TRUE].armed = c.armed
<1>1. /\ [c EXCEPT !.at = at].at = at /\ [c EXCEPT !.at = at, !.armed = TRUE].at = at
      /\ [c EXCEPT !.at = at, !.started = TRUE].at = at
  BY DEF Child
<1>2. [c EXCEPT !.at = at, !.armed = TRUE].armed
  BY DEF Child
<1>3. /\ [c EXCEPT !.at = at].armed = c.armed
      /\ [c EXCEPT !.at = at, !.started = TRUE].armed = c.armed
  BY DEF Child
<1>4. /\ [c EXCEPT !.at = at] \in Child /\ [c EXCEPT !.at = at, !.armed = TRUE] \in Child
      /\ [c EXCEPT !.at = at, !.started = TRUE] \in Child
  BY DEF Child
<1> QED BY <1>1, <1>2, <1>3, <1>4

\* One child takes a step of its own.
LEMMA OneChildSteps ==
  ASSUME BusInv, NEW b \in Bus, NEW c \in Child, child' = [child EXCEPT ![b] = c],
         UNCHANGED <<me, phase, left, pid, watched, message, caller>>,
         child[b].at \notin {"none", "dead", "deadServed"},
         b[2] = "broker" => c.at \notin {"arm", "check"},
         b[2] = "daemon" /\ c.at \notin {"none", "dead", "deadServed"} => c.armed,
         ~Owner(b) /\ b[2] = "daemon" => c.at \in {"none", "check", "dead", "deadServed"}
  PROVE  BusInv'
<1>1. child' \in [Bus -> Child] /\ child'[b] = c /\ \A d \in Bus : d # b => child'[d] = child[d]
  BY DEF BusInv, ChildInv
<1>2. LaunchInv'
  BY DEF BusInv, LaunchInv, Known, This
<1>3. ChildInv'
  BY <1>1 DEF BusInv, ChildInv, Alive, Dead
<1>4. OwnInv'
  BY <1>1 DEF BusInv, OwnInv, Alive, Dead, Owner, This
<1>5. NoOrphanStarts'
  BY <1>1 DEF BusInv, NoOrphanStarts, Alive, Dead, Owner
<1> QED BY <1>2, <1>3, <1>4, <1>5 DEF BusInv

\* The launcher takes a step and leaves the children alone.
LEMMA ChildrenStay ==
  ASSUME BusInv, LaunchInv', child' = child, me' = me, (phase' = "down") = (phase = "down"),
         \A b \in Bus : Owner(b) /\ Alive(b) =>
           b = pid' \/ (phase' = "spawning" /\ b = This')
  PROVE  BusInv'
<1>1. ChildInv'
  BY DEF BusInv, ChildInv, Alive, Dead
<1>2. OwnInv'
  BY DEF BusInv, OwnInv, Alive, Dead, Owner
<1>3. NoOrphanStarts'
  BY DEF BusInv, NoOrphanStarts, Alive, Dead, Owner
<1> QED BY <1>1, <1>2, <1>3 DEF BusInv

\* Every step of the launcher, of its children and of their surroundings keeps it.
LEMMA BusInductive == BusInv /\ [Next]_vars => BusInv'
<1> SUFFICES ASSUME BusInv, [Next]_vars PROVE BusInv'
  OBVIOUS
<1> USE BusIsPair, LeftIsOrder
<1>1. LaunchInv /\ ChildInv /\ OwnInv /\ NoOrphanStarts
  BY DEF BusInv
<1>2. child \in [Bus -> Child] /\ \A b \in Bus : child[b] \in Child
  BY <1>1 DEF ChildInv
<1>3. CASE UNCHANGED <<me, phase, left, pid, watched, message, caller, child>>
  BY <1>3 DEF BusInv, LaunchInv, ChildInv, OwnInv, NoOrphanStarts, Known, This, Alive, Dead,
     Owner
<1>4. CASE \/ Terminate \/ HandleListener \/ UNCHANGED vars
           \/ \E c \in Client : Call(c)
           \/ \E to \in BOOLEAN : SetEnabled(to)
           \/ \E a \in AT : Listen(a) \/ Depart(a) \/ HandleDeparture(a)
  <2>1. UNCHANGED <<me, phase, left, pid, watched, message, caller, child>>
    BY <1>4 DEF Terminate, HandleListener, Call, SetEnabled, Listen, Depart, HandleDeparture,
       vars, lifeVars, busVars, callVars
  <2> QED BY <1>3, <2>1
<1>5. ASSUME NEW b \in Bus, ChildStep(b) PROVE BusInv'
  <2>1. UNCHANGED <<me, phase, left, pid, watched, message, caller>>
    BY <1>5 DEF ChildStep, lifeVars, callVars
  <2>2. CASE child[b].at = "arm"
    <3> PICK c : c = [child[b] EXCEPT !.at = After(b), !.armed = TRUE]
      OBVIOUS
    <3>1. child' = [child EXCEPT ![b] = c]
      BY <1>2, <1>5, <2>2 DEF ChildStep, Child
    <3>2. b[2] = "daemon" /\ After(b) = "check"
      BY <1>1, <2>2, DaemonSetup DEF ChildInv
    <3>3. c \in Child /\ c.at = "check" /\ c.armed
      <4>1. c = [child[b] EXCEPT !.at = "check", !.armed = TRUE]
        BY <3>2
      <4> QED BY ONLY <1>2, <4>1, ChildMoves, ZenonT(40)
    <3> QED BY <2>1, <2>2, <3>1, <3>2, <3>3, OneChildSteps
  <2>3. CASE child[b].at = "check"
    <3> PICK c : c = IF Owner(b) THEN [child[b] EXCEPT !.at = After(b)] ELSE Ended(child[b])
      OBVIOUS
    <3>1. child' = [child EXCEPT ![b] = c]
      BY <1>2, <1>5, <2>3 DEF ChildStep, Child
    <3>2. b[2] = "daemon" /\ After(b) = "exec" /\ child[b].armed
      BY <1>1, <2>3, DaemonSetup DEF ChildInv, Alive, Dead
    <3>3. c \in Child /\ c.at \in {"exec", "dead", "deadServed"} /\ c.armed
      BY <1>2, <3>2, EndedIsDead DEF Child
    <3>4. ~Owner(b) => c.at \in {"dead", "deadServed"}
      BY <1>2, EndedIsDead
    <3> QED BY <2>1, <2>3, <3>1, <3>2, <3>3, <3>4, OneChildSteps
  <2>4. CASE child[b].at = "exec"
    <3> PICK c : c = [child[b] EXCEPT !.at = "starting", !.started = TRUE]
      OBVIOUS
    <3>1. child' = [child EXCEPT ![b] = c]
      BY <1>2, <1>5, <2>4 DEF ChildStep, Child
    <3>2. c \in Child /\ c.at = "starting" /\ c.armed = child[b].armed
      BY <1>2, ChildMoves
    <3>3. b[2] = "daemon" => child[b].armed /\ Owner(b)
      BY <1>1, <2>4 DEF ChildInv, NoOrphanStarts, Alive, Dead
    <3> QED BY <2>1, <2>4, <3>1, <3>2, <3>3, OneChildSteps
  <2> QED BY <1>5, <2>2, <2>3, <2>4 DEF ChildStep
<1>6. ASSUME NEW b \in Bus, Serve(b) PROVE BusInv'
  <2>1. UNCHANGED <<me, phase, left, pid, watched, message, caller>>
    BY <1>6 DEF Serve, lifeVars, callVars
  <2> PICK c : c = [child[b] EXCEPT !.at = "serving"]
    OBVIOUS
  <2>2. child' = [child EXCEPT ![b] = c] /\ child[b].at = "starting"
    BY <1>2, <1>6 DEF Serve, Child
  <2>3. c \in Child /\ c.at = "serving" /\ c.armed = child[b].armed
    BY <1>2 DEF Child
  <2>4. b[2] = "daemon" => child[b].armed /\ Owner(b)
    BY <1>1, <2>2 DEF ChildInv, NoOrphanStarts, Alive, Dead
  <2> QED BY <2>1, <2>2, <2>3, <2>4, OneChildSteps
<1>7. ASSUME NEW b \in Bus, BusDies(b) PROVE BusInv'
  <2>1. UNCHANGED <<me, phase, left, pid, watched, message, caller>>
    BY <1>7 DEF BusDies, lifeVars, callVars
  <2> PICK c : c = Ended(child[b])
    OBVIOUS
  <2>2. child' = [child EXCEPT ![b] = c] /\ child[b].at \in {"exec", "starting", "serving"}
    BY <1>2, <1>7 DEF BusDies
  <2>3. c \in Child /\ c.at \in {"dead", "deadServed"}
    BY <1>2, EndedIsDead
  <2> QED BY <2>1, <2>2, <2>3, OneChildSteps
<1>8. ASSUME NEW at_once \in BOOLEAN, Start(at_once) PROVE BusInv'
  <2>1. /\ phase = "down" /\ me < MaxLaunches /\ me' = me + 1 /\ pid' = NoBus
        /\ watched' = watched /\ child' = child /\ caller' = caller
        /\ phase' = (IF at_once THEN "launching" ELSE "up")
        /\ left' = (IF at_once THEN Order ELSE <<>>)
    BY <1>8 DEF Start, callVars
  <2>2. LaunchInv'
    BY <1>1, <2>1, BoundAssumption DEF LaunchInv, Known, Phase
  <2>3. ChildInv'
    BY <1>1, <2>1 DEF ChildInv, Alive, Dead
  <2>4. \A b \in Bus : b[1] = me + 1 \/ b[1] > me + 1 => b[1] > me /\ ~Alive(b)
    BY <1>1, BoundAssumption DEF OwnInv, LaunchInv, Launcher
  <2>5. OwnInv'
    BY <1>1, <2>1, <2>4 DEF OwnInv, Alive, Dead, Owner
  <2>6. NoOrphanStarts'
    BY <1>1, <2>1 DEF NoOrphanStarts, Alive, Dead, Owner
  <2> QED BY <2>2, <2>3, <2>5, <2>6 DEF BusInv
<1>9. ASSUME NEW stopped, Gone(stopped), phase # "down" PROVE BusInv'
  <2>1. /\ phase' = "down" /\ caller' = Nobody /\ left' = <<>> /\ watched' = {}
        /\ UNCHANGED <<me, pid, message>>
        /\ child' = [b \in Bus |-> IF b[1] = me /\ Alive(b) /\ (child[b].armed \/ b \in stopped)
                                   THEN Ended(child[b]) ELSE child[b]]
    BY <1>9 DEF Gone
  <2>2. LaunchInv'
    BY <1>1, <2>1 DEF LaunchInv, Known, Phase
  <2>3. ASSUME NEW b \in Bus
        PROVE  \/ child'[b] = child[b] /\ ~(b[1] = me /\ Alive(b) /\ child[b].armed)
               \/ child'[b] \in Child /\ child'[b].at \in {"dead", "deadServed"}
    BY <1>2, <2>1, EndedIsDead
  <2>4. child' \in [Bus -> Child]
    BY <1>2, <2>1, EndedIsDead
  <2>5. ChildInv'
    BY <1>1, <2>3, <2>4 DEF ChildInv, Alive, Dead
  <2>6. OwnInv'
    BY <1>1, <2>1, <2>3 DEF OwnInv, Alive, Dead, Owner
  <2>7. NoOrphanStarts'
    <3> SUFFICES ASSUME NEW b \in Bus, b[2] = "daemon", Alive(b)'
                 PROVE  child'[b].at \in {"arm", "check"}
      BY DEF NoOrphanStarts
    <3>1. child'[b] = child[b] /\ Alive(b) /\ ~(b[1] = me /\ child[b].armed)
      BY <2>3 DEF Alive, Dead
    <3> QED BY <1>1, <1>9, <3>1 DEF ChildInv, NoOrphanStarts, Owner
  <2> QED BY <2>2, <2>5, <2>6, <2>7 DEF BusInv
<1>10. CASE Quit
  <2>1. LaunchInv'
    BY <1>1, <1>10 DEF Quit, LaunchInv, Known, Phase, busVars, callVars
  <2>2. \A b \in Bus : Owner(b) /\ Alive(b) => b = pid'
    BY <1>1, <1>10 DEF Quit, OwnInv, busVars
  <2> QED BY <1>10, <2>1, <2>2, ChildrenStay DEF Quit, busVars
<1>11. CASE BusExited
  <2>1. PICK b \in watched : Dead(b) /\ watched' = watched \ {b}
    BY <1>11 DEF BusExited
  <2>2. /\ phase = "up" /\ phase' = "leaving" /\ pid' = ErrorBus /\ message'
        /\ UNCHANGED <<me, left, caller, child>>
    BY <1>11 DEF BusExited, AfterBus, callVars
  <2>3. LaunchInv'
    BY <1>1, <2>2 DEF LaunchInv, Known, Phase
  <2>4. \A d \in Bus : ~(Owner(d) /\ Alive(d))
    BY <1>1, <2>1, <2>2 DEF OwnInv, LaunchInv, Known, Alive, Owner
  <2> QED BY <2>2, <2>3, <2>4, ChildrenStay
<1>12. CASE TryNext
  <2>1. phase = "launching" /\ left # <<>> /\ UNCHANGED <<me, pid, watched, caller>>
    BY <1>12 DEF TryNext, callVars
  <2>2. CASE left[1] = "broker" /\ ~systemd
    <3>1. left' = Tail(left) /\ UNCHANGED <<phase, message, child>>
      BY <1>12, <2>2 DEF TryNext
    <3>2. left = Order
      BY <1>1, <2>1, <2>2 DEF LaunchInv
    <3>3. LaunchInv'
      BY <1>1, <2>1, <3>1, <3>2 DEF LaunchInv, Known, This
    <3>4. \A b \in Bus : Owner(b) /\ Alive(b) => b = pid'
      BY <1>1, <2>1 DEF OwnInv
    <3> QED BY <2>1, <3>1, <3>3, <3>4, ChildrenStay
  <2>3. CASE ~(left[1] = "broker" /\ ~systemd)
    <3> PICK c : c = [NoChild EXCEPT !.at = Setup(left[1])[1]]
      OBVIOUS
    <3>1. /\ child' = [child EXCEPT ![This] = c] /\ phase' = "spawning" /\ left' = left
      BY <1>12, <2>3 DEF TryNext
    <3>2. /\ This \in Bus /\ This[1] = me /\ This[2] = left[1] /\ Owner(This)
          /\ This[2] \in {"broker", "daemon"}
      BY <1>1, <2>1, ThisIsBus
    <3>3. c \in Child /\ c.at = IF left[1] = "daemon" THEN "arm" ELSE "exec"
      BY <3>2 DEF Child, NoChild, Setup
    <3>4. LaunchInv'
      BY <1>1, <2>1, <3>1 DEF LaunchInv, Known, This, Phase
    <3>5. /\ child' \in [Bus -> Child] /\ child'[This] = c /\ This' = This
          /\ \A b \in Bus : b # This => child'[b] = child[b]
      BY <1>2, <2>1, <3>1, <3>2, <3>3 DEF This
    <3>6. \A b \in Bus : ~(Owner(b) /\ Alive(b))
      BY <1>1, <2>1 DEF OwnInv, LaunchInv, Known, Owner
    <3>7. ChildInv'
      <4>1. This[2] = "broker" => c.at \notin {"arm", "check"}
        BY <3>2, <3>3
      <4>2. This[2] = "daemon" => c.at = "arm"
        BY <3>2, <3>3
      <4>3. ASSUME NEW b \in Bus, b[2] = "broker" PROVE child'[b].at \notin {"arm", "check"}
        BY <1>1, <3>5, <4>1, <4>3, ZenonT(60) DEF ChildInv
      <4>4. ASSUME NEW b \in Bus, b[2] = "daemon", Alive(b)'
            PROVE  child'[b].at = "arm" \/ child'[b].armed
        <5>1. CASE b = This
          BY <3>5, <4>2, <4>4, <5>1
        <5>2. CASE b # This
          BY <1>1, <3>5, <4>4, <5>2 DEF ChildInv, Alive, Dead
        <5> QED BY <5>1, <5>2
      <4> QED BY <3>5, <4>3, <4>4 DEF ChildInv
    <3>8. OwnInv'
      BY <1>1, <2>1, <3>1, <3>2, <3>5, <3>6 DEF OwnInv, Alive, Dead, Owner, LaunchInv
    <3>9. NoOrphanStarts'
      BY <1>1, <2>1, <3>1, <3>2, <3>5 DEF NoOrphanStarts, Alive, Dead, Owner
    <3> QED BY <3>4, <3>7, <3>8, <3>9 DEF BusInv
  <2> QED BY <2>2, <2>3
<1>13. CASE SpawnFails
  <2>1. /\ phase = "spawning" /\ Dead(This) /\ pid' = ErrorBus /\ message'
        /\ phase' = "launching" /\ left' = Tail(left)
        /\ UNCHANGED <<me, watched, caller, child>>
    BY <1>13 DEF SpawnFails, callVars, Dead
  <2>2. LaunchInv'
    <3>1. CASE left = Order
      BY <1>1, <2>1, <3>1 DEF LaunchInv, Known, Phase
    <3>2. CASE left = <<"daemon">>
      BY <1>1, <2>1, <3>2 DEF LaunchInv, Known, Phase
    <3> QED BY <1>1, <2>1, <3>1, <3>2 DEF LaunchInv
  <2>3. \A b \in Bus : ~(Owner(b) /\ Alive(b))
    BY <1>1, <2>1 DEF OwnInv, LaunchInv, Known, Alive, Owner
  <2> QED BY <2>1, <2>2, <2>3, ChildrenStay
<1>14. CASE Spawned
  <2>1. /\ phase = "spawning" /\ pid' = This /\ watched' = watched \cup {This}
        /\ UNCHANGED <<me, caller, child, message>>
        /\ IF left[1] = "daemon" THEN phase' = "reading" /\ left' = left
           ELSE phase' = "launching" /\ left' = <<>>
    BY <1>14 DEF Spawned, callVars
  <2>2. This \in Bus /\ This[1] = me /\ watched' = {This} /\ me > 0
    BY <1>1, <2>1, ThisIsBus DEF LaunchInv
  <2>3. LaunchInv'
    <3>1. CASE left[1] = "daemon"
      <4>1. left = <<"daemon">> /\ This' = This
        BY <1>1, <2>1, <3>1 DEF LaunchInv, This
      <4> QED BY <1>1, <2>1, <2>2, <3>1, <4>1 DEF LaunchInv, Known, Phase
    <3>2. CASE left[1] # "daemon"
      BY <1>1, <2>1, <2>2, <3>2 DEF LaunchInv, Known, Phase
    <3> QED BY <3>1, <3>2
  <2>4. \A b \in Bus : Owner(b) /\ Alive(b) => b = pid'
    BY <1>1, <2>1 DEF OwnInv, LaunchInv, Known, Owner
  <2>5. phase' # "down"
    BY <2>1
  <2> QED BY <2>1, <2>3, <2>4, <2>5, ChildrenStay
<1>15. CASE ReadAddress
  <2>1. /\ phase = "reading" /\ phase' = "launching" /\ left' = <<>>
        /\ UNCHANGED <<me, pid, message, watched, child, caller>>
    BY <1>15 DEF ReadAddress, callVars
  <2>2. This \in Bus
    BY <1>1, <2>1, ThisIsBus DEF LaunchInv
  <2>3. LaunchInv'
    BY <1>1, <2>1, <2>2 DEF LaunchInv, Known, Phase
  <2>4. \A b \in Bus : Owner(b) /\ Alive(b) => b = pid'
    BY <1>1, <2>1 DEF OwnInv
  <2> QED BY <2>1, <2>3, <2>4, ChildrenStay
<1>16. CASE ReadFails
  <2> PICK c : c = IF Alive(This) THEN Ended(child[This]) ELSE child[This]
    OBVIOUS
  <2>1. /\ phase = "reading" /\ pid' = ErrorBus /\ message'
        /\ child' = [child EXCEPT ![This] = c]
        /\ phase' = "launching" /\ left' = Tail(left)
        /\ UNCHANGED <<me, watched, caller>>
    BY <1>2, <1>16 DEF ReadFails, callVars
  <2>2. This \in Bus /\ pid = This /\ left' = <<>>
    BY <1>1, <2>1, ThisIsBus DEF LaunchInv
  <2>3. c \in Child /\ c.at \in {"none", "dead", "deadServed"}
    BY <1>2, <2>2, EndedIsDead DEF Alive, Dead
  <2>4. LaunchInv'
    BY <1>1, <2>1, <2>2 DEF LaunchInv, Known, Phase
  <2>5. /\ child' \in [Bus -> Child] /\ child'[This] = c
        /\ \A b \in Bus : b # This => child'[b] = child[b]
    BY <1>2, <2>1, <2>2, <2>3
  <2>6. ChildInv'
    BY <1>1, <2>3, <2>5 DEF ChildInv, Alive, Dead
  <2>7. OwnInv'
    BY <1>1, <2>1, <2>2, <2>3, <2>5 DEF OwnInv, Alive, Dead, Owner
  <2>8. NoOrphanStarts'
    BY <1>1, <2>1, <2>3, <2>5 DEF NoOrphanStarts, Alive, Dead, Owner
  <2> QED BY <2>4, <2>6, <2>7, <2>8 DEF BusInv
<1>17. CASE Launched
  <2>1. /\ phase = "launching" /\ left = <<>> /\ caller' = Nobody
        /\ phase' \in {"leaving", "up"} /\ UNCHANGED <<me, left, pid, message, watched, child>>
    BY <1>17 DEF Launched, busVars
  <2>2. LaunchInv'
    BY <1>1, <2>1 DEF LaunchInv, Known, Phase
  <2>3. \A b \in Bus : Owner(b) /\ Alive(b) => b = pid'
    BY <1>1, <2>1 DEF OwnInv
  <2> QED BY <2>1, <2>2, <2>3, ChildrenStay
<1>18. ASSUME NEW c \in Client, GetAddress(c) PROVE BusInv'
  <2>1. /\ phase = "up" /\ UNCHANGED <<me, pid, message, watched, child>>
        /\ \/ pid = NoBus /\ phase' = "launching" /\ left' = Order
           \/ UNCHANGED <<phase, left, caller>>
    BY <1>18 DEF GetAddress
  <2>2. LaunchInv'
    BY <1>1, <2>1 DEF LaunchInv, Known, Phase
  <2>3. \A b \in Bus : Owner(b) /\ Alive(b) => b = pid'
    BY <1>1, <2>1 DEF OwnInv
  <2> QED BY <2>1, <2>2, <2>3, ChildrenStay
<1> QED
  BY <1>4, <1>5, <1>6, <1>7, <1>8, <1>9, <1>10, <1>11, <1>12, <1>13, <1>14, <1>15, <1>16,
     <1>17, <1>18
  DEF Next, Main, Kill, Leave

LEMMA BusInvariant == Spec => []BusInv
<1>1. Init => BusInv
  <2> USE BusIsPair, LeftIsOrder, BoundAssumption
  <2>1. Init => LaunchInv
    BY DEF Init, LaunchInv, Known, Phase
  <2>2. Init => ChildInv /\ OwnInv /\ NoOrphanStarts
    BY DEF Init, ChildInv, OwnInv, NoOrphanStarts, Alive, Dead, Owner, NoChild, Child
  <2> QED BY <2>1, <2>2 DEF BusInv
<1> QED BY <1>1, BusInductive, PTL DEF Spec

-----------------------------------------------------------------------------
(* Theorems *)

\* A daemon whose launcher is gone is still in setup_bus_child_daemon: wherever the
\* launcher was killed, one that was executed has been killed with it.  What is left
\* goes on to its check and ends there, which is NoOrphanBus.
THEOREM OrphansHaveNotStarted == Spec => []NoOrphanStarts
<1> QED BY BusInvariant, PTL DEF BusInv

\* A launcher that leaves its loop leaves no bus behind, neither the broker nor the
\* daemon, whatever had failed before (main; ensure_a11y_bus).
LeavesNoBus == [][Leave => \A b \in Bus : b[1] = me => ~Alive(b)']_vars

\* Leaving stops the bus of the launcher, in whatever state its processes are.
THEOREM LeavingStopsTheBus == Spec => LeavesNoBus
<1>1. BusInv /\ [Next]_vars => [Leave => \A b \in Bus : b[1] = me => ~Alive(b)']_vars
  <2> SUFFICES ASSUME BusInv, Leave, NEW b \in Bus, b[1] = me PROVE ~Alive(b)'
    OBVIOUS
  <2>1. /\ phase = "leaving" /\ child[b] \in Child
        /\ child'[b] = IF Alive(b) /\ (child[b].armed \/ b = pid) THEN Ended(child[b])
                       ELSE child[b]
    BY DEF Leave, Gone, BusInv, ChildInv
  <2>2. Alive(b) => b = pid
    BY <2>1 DEF BusInv, OwnInv, Owner
  <2>3. CASE Alive(b)
    BY <2>1, <2>2, <2>3, EndedIsDead DEF Alive, Dead
  <2>4. CASE ~Alive(b)
    BY <2>1, <2>4 DEF Alive, Dead
  <2> QED BY <2>3, <2>4
<1> QED BY <1>1, BusInvariant, PTL DEF Spec, LeavesNoBus

\* While the launcher knows its bus it watches this bus, and no other process: an
\* end of the bus always ends the launcher, on which EndsWithItsBus rests
\* (ensure_a11y_bus_daemon, ensure_a11y_bus_broker, on_bus_exited).
WatchesItsBus == phase # "down" /\ pid[1] > 0 => watched = {pid}

\* The launcher never has a bus, broker or daemon, that it does not watch.
THEOREM LauncherWatchesItsBus == Spec => []WatchesItsBus
<1>1. BusInv => WatchesItsBus
  BY DEF BusInv, LaunchInv, Known, WatchesItsBus
<1> QED BY <1>1, BusInvariant, PTL

\* A client that the launcher is done with has its answer, an address or an error,
\* whichever of the implementations failed and how: a launch never ends with
\* neither, and no second call takes the place of one that is being answered
\* (handle_method_call, ensure_a11y_bus).  CallsAreAnswered rests on this.
DoneMeansAnswered ==
  [][/\ caller # Nobody /\ caller' # caller => caller \notin pending'
     /\ \A c \in Client : GetAddress(c) => c \notin pending' \/ caller' = c]_vars

\* Every way out of a launch, and every call in between, answers its client.
THEOREM LaunchAnswersItsCaller == Spec => DoneMeansAnswered
<1> DEFINE Done == /\ caller # Nobody /\ caller' # caller => caller \notin pending'
                   /\ \A c \in Client : GetAddress(c) => c \notin pending' \/ caller' = c
<1>1. BusInv /\ [Next]_vars => [Done]_vars
  <2> SUFFICES ASSUME BusInv, Next PROVE Done
    BY DEF vars, callVars
  <2> USE BusIsPair
  <2>1. ASSUME NEW c \in Client, GetAddress(c)
        PROVE  /\ caller = Nobody
               /\ c \notin pending' \/ caller' = c
    <3>1. phase = "up" /\ left = <<>> /\ caller = Nobody
      BY <2>1 DEF GetAddress, BusInv, LaunchInv
    <3>2. pid # NoBus => pid[1] > 0 \/ message
      BY <3>1 DEF BusInv, LaunchInv
    <3> QED BY <2>1, <3>1, <3>2 DEF GetAddress, Answer
  <2>2. ASSUME caller # Nobody, caller' # caller PROVE caller \notin pending'
    <3>1. CASE Launched
      <4>1. pid[1] > 0 \/ message
        BY <3>1 DEF Launched, BusInv, LaunchInv
      <4> QED BY <3>1, <4>1 DEF Launched, Answer
    <3>2. ASSUME NEW stopped, Gone(stopped) PROVE caller \notin pending'
      BY <3>2 DEF Gone
    <3>3. CASE \/ Quit \/ BusExited \/ TryNext \/ SpawnFails \/ Spawned \/ ReadAddress
               \/ HandleListener \/ Terminate \/ ReadFails
               \/ \E at_once \in BOOLEAN : Start(at_once)
               \/ \E b \in Bus : ChildStep(b) \/ Serve(b) \/ BusDies(b)
               \/ \E c \in Client : Call(c)
               \/ \E to \in BOOLEAN : SetEnabled(to)
               \/ \E a \in AT : Listen(a) \/ Depart(a) \/ HandleDeparture(a)
      <4>1. caller' = caller
        BY <3>3 DEF Quit, BusExited, TryNext, SpawnFails, Spawned, ReadAddress, HandleListener,
           Terminate, ReadFails, Start, ChildStep, Serve, BusDies, Call, SetEnabled, Listen,
           Depart, HandleDeparture, callVars
      <4> QED BY <2>2, <4>1
    <3> QED BY <2>1, <2>2, <3>1, <3>2, <3>3 DEF Next, Main, Kill, Leave
  <2> QED BY <2>1, <2>2
<1> QED BY <1>1, BusInvariant, PTL DEF Spec, DoneMeansAnswered
=============================================================================

--------------------------- MODULE RegistryProofs ---------------------------
(***************************************************************************)
(* What the registry promises for any number of applications, assistive    *)
(* technologies and messages in flight, and to a client that follows its   *)
(* signals.                                                                *)
(***************************************************************************)
EXTENDS DesktopView, FiniteSetTheorems, WellFoundedInduction, TLAPS

-----------------------------------------------------------------------------
(* Queues of messages *)

\* The messages of a queue after one more was put at its end.
LEMMA AppendElements ==
  ASSUME NEW S, NEW s \in Seq(S), NEW m \in S
  PROVE  /\ Append(s, m) \in Seq(S)
         /\ Len(Append(s, m)) = Len(s) + 1
         /\ \A i \in 1..Len(s) : Append(s, m)[i] = s[i]
         /\ Append(s, m)[Len(s) + 1] = m
  OBVIOUS

\* The messages of a queue after its first was taken.
LEMMA TailElements ==
  ASSUME NEW S, NEW s \in Seq(S), s # <<>>
  PROVE  /\ Head(s) \in S /\ Head(s) = s[1]
         /\ Tail(s) \in Seq(S)
         /\ Len(Tail(s)) = Len(s) - 1
         /\ Len(s) \in Nat \ {0}
         /\ \A i \in 1..Len(Tail(s)) : Tail(s)[i] = s[i + 1]
  OBVIOUS

\* What a message of each kind carries.
LEMMA MessageFields ==
  ASSUME NEW m \in Message
  PROVE  /\ m.kind \in {"Embed", "Unembed"} => m.sender \in App /\ m.path \in Path
         /\ m.kind = "NameOwnerChanged" => m.sender \in Client
         /\ m.kind \in {"RegisterEvent", "DeregisterEvent"} =>
              m.sender \in AT /\ m.type \in EventType /\ m.app \in App \cup {Empty}
         /\ m.kind = "RegisterKeystrokeListener" => m.sender \in Client
         /\ m.kind = "PidReply" => m.app \in Nat /\ m.name \in App /\ m.ok \in BOOLEAN
         /\ m.kind = "PingReply" =>
              m.app \in Nat /\ m.round \in {0, 1} /\ m.ok \in BOOLEAN
  BY DEF Message

\* An answered ping changes only the ping state of the application it is for.
LEMMA AppPingKeeps ==
  ASSUME TypeOK, NEW id, NEW r, NEW ok \in BOOLEAN, AppPing(id, r, ok)
  PROVE  /\ apps' \subseteq Application
         /\ \A a \in apps' : \E b \in apps :
              a.id = b.id /\ a.name = b.name /\ a.pid = b.pid
         /\ \A b \in apps : \E a \in apps' :
              a.id = b.id /\ a.name = b.name /\ a.path = b.path
<1> DEFINE hit == {a \in apps : a.id = id /\ a.pending = r}
           resolved(a) == [a EXCEPT !.pending = NoRound, !.disabled = ~ok]
<1>1. apps' = (apps \ hit) \cup {resolved(a) : a \in hit}
  BY DEF AppPing, Resolved
<1>2. apps \subseteq Application
  BY DEF TypeOK
<1>3. \A a \in Application :
        /\ resolved(a) \in Application
        /\ resolved(a).id = a.id /\ resolved(a).name = a.name
        /\ resolved(a).path = a.path /\ resolved(a).pid = a.pid
  BY DEF Application, NoRound
<1> HIDE DEF resolved
<1>4. \A b \in apps : b \in apps' \/ resolved(b) \in apps'
  BY <1>1
<1>5. \A a \in apps' : a \in apps \/ \E b \in apps : a = resolved(b)
  BY <1>1
<1> QED
  BY <1>2, <1>3, <1>4, <1>5
-----------------------------------------------------------------------------
(* Types *)

\* One more message from a client leaves the queue a queue of messages.
LEMMA SendType ==
  ASSUME TypeOK, NEW m \in Message, Send(m)
  PROVE  inbox' \in Seq(Message)
  BY AppendElements DEF Send, TypeOK

\* The registry takes a message off the queue.
LEMMA ConsumeType ==
  ASSUME TypeOK, NEW k, Receive(k)
  PROVE  /\ Head(inbox) \in Message /\ Head(inbox).kind = k
         /\ Tail(inbox) \in Seq(Message)
  BY TailElements DEF Receive, TypeOK

\* remove_events leaves registrations, and only registrations.
LEMMA RemoveEventsType ==
  ASSUME TypeOK, NEW b, NEW t, NEW a, RemoveEvents(b, t, a)
  PROVE  events' \subseteq Registration /\ wantMouse' \in BOOLEAN /\ pollers' \in Nat
  BY DEF TypeOK, RemoveEvents, Removed

\* Every handler of registry.c and every call of a client keeps the types.
LEMMA TypeInductive == TypeOK /\ [Next]_vars => TypeOK'
<1> SUFFICES ASSUME TypeOK, [Next]_vars PROVE TypeOK'
  OBVIOUS
<1>1. CASE HandleEmbed
  <2> DEFINE m == Head(inbox)
             new == [id |-> nextId, name |-> m.sender, path |-> m.path,
                     disabled |-> FALSE, pending |-> NoRound, pid |-> Null]
             reply == [kind |-> "PidReply", app |-> nextId, name |-> m.sender,
                       ok |-> conn[m.sender] = "on"]
  <2>1. m \in Message /\ m.kind = "Embed" /\ Tail(inbox) \in Seq(Message)
    BY <1>1, ConsumeType DEF HandleEmbed
  <2>2. m.sender \in App /\ m.path \in Path
    BY <2>1, MessageFields
  <2>3. new \in Application /\ reply \in Message
    BY <2>2 DEF Application, NoRound, Message, TypeOK
  <2>4. apps' = apps \cup {new} /\ inbox' = Append(Tail(inbox), reply)
    BY <1>1 DEF HandleEmbed
  <2>5. inbox' \in Seq(Message)
    BY <2>1, <2>3, <2>4, AppendElements
  <2>6. apps' \subseteq Application
    BY <2>3, <2>4 DEF TypeOK
  <2>7. /\ nextId' \in Nat
        /\ waiting' \in [Client -> SUBSET Path]
    BY <1>1, <2>2 DEF HandleEmbed, TypeOK, Client
  <2>8. UNCHANGED <<events, wantMouse, pollers, deviceClients, deviceCalls,
                    round, pings, wildWrite, conn, roots, hung>>
    BY <1>1 DEF HandleEmbed
  <2> QED
    BY <2>5, <2>6, <2>7, <2>8 DEF TypeOK
<1>2. CASE HandleUnembed
  <2>1. Tail(inbox) \in Seq(Message)
    BY <1>2, ConsumeType DEF HandleUnembed
  <2>2. /\ apps' \subseteq apps /\ deviceClients' \subseteq deviceClients
        /\ deviceCalls' = deviceCalls
    BY <1>2 DEF HandleUnembed, RemoveApplications
  <2> QED
    BY <1>2, <2>1, <2>2 DEF HandleUnembed, Consume, TypeOK, clientVars
<1>3. CASE HandleNameOwnerChanged
  <2>1. Tail(inbox) \in Seq(Message)
    BY <1>3, ConsumeType DEF HandleNameOwnerChanged
  <2>2. /\ apps' \subseteq apps /\ deviceClients' \subseteq deviceClients
        /\ deviceCalls' = deviceCalls
    BY <1>3 DEF HandleNameOwnerChanged, RemoveApplications, ApplicationsOf
  <2>3. events' \subseteq Registration /\ wantMouse' \in BOOLEAN /\ pollers' \in Nat
    BY <1>3, RemoveEventsType DEF HandleNameOwnerChanged
  <2> QED
    BY <1>3, <2>1, <2>2, <2>3 DEF HandleNameOwnerChanged, Consume, TypeOK, clientVars
<1>4. CASE HandleRegisterEvent
  <2> DEFINE m == Head(inbox)
             new == [listener |-> m.sender, type |-> m.type,
                     app |-> IF m.app = Empty THEN Null ELSE m.app]
  <2>1. m \in Message /\ m.kind = "RegisterEvent" /\ Tail(inbox) \in Seq(Message)
    BY <1>4, ConsumeType DEF HandleRegisterEvent
  <2>2. new \in Registration
    BY <2>1, MessageFields DEF Registration
  <2>3. events' = events \cup {new}
    BY <1>4 DEF HandleRegisterEvent
  <2>4. wantMouse' \in BOOLEAN /\ pollers' \in Nat
    <3>1. StartPollMouse \/ UNCHANGED <<wantMouse, pollers>>
      BY <1>4 DEF HandleRegisterEvent
    <3>2. CASE StartPollMouse
      BY <3>2 DEF StartPollMouse, TypeOK
    <3>3. CASE UNCHANGED <<wantMouse, pollers>>
      BY <3>3 DEF TypeOK
    <3> QED
      BY <3>1, <3>2, <3>3
  <2> QED
    BY <1>4, <2>1, <2>2, <2>3, <2>4 DEF HandleRegisterEvent, Consume, TypeOK, clientVars
<1>5. CASE HandleDeregisterEvent
  <2>1. Tail(inbox) \in Seq(Message)
    BY <1>5, ConsumeType DEF HandleDeregisterEvent
  <2>2. events' \subseteq Registration /\ wantMouse' \in BOOLEAN /\ pollers' \in Nat
    BY <1>5, RemoveEventsType DEF HandleDeregisterEvent
  <2> QED
    BY <1>5, <2>1, <2>2 DEF HandleDeregisterEvent, Consume, TypeOK, clientVars
<1>6. CASE HandleRegisterKeystrokeListener
  <2>1. /\ Head(inbox) \in Message /\ Head(inbox).kind = "RegisterKeystrokeListener"
        /\ Tail(inbox) \in Seq(Message)
    BY <1>6, ConsumeType DEF HandleRegisterKeystrokeListener
  <2>2. Head(inbox).sender \in Client
    BY <2>1, MessageFields
  <2> QED
    BY <1>6, <2>1, <2>2 DEF HandleRegisterKeystrokeListener, Consume, TypeOK, clientVars
<1>7. CASE HandlePidReply
  <2> DEFINE m == Head(inbox)
             target == {a \in apps : a.id = m.app}
  <2>1. m \in Message /\ m.kind = "PidReply" /\ Tail(inbox) \in Seq(Message)
    BY <1>7, ConsumeType DEF HandlePidReply
  <2>2. m.name \in App
    BY <2>1, MessageFields
  <2>3. \A a \in Application : [a EXCEPT !.pid = m.name] \in Application
    BY <2>2 DEF Application
  <2>4. CASE m.ok
    <3>1. /\ apps' = (apps \ target) \cup {[a EXCEPT !.pid = m.name] : a \in target}
          /\ wildWrite' = (wildWrite \/ target = {})
      BY <1>7, <2>4 DEF HandlePidReply, HasPid, PidTarget
    <3>2. apps' \subseteq Application
      BY <2>3, <3>1 DEF TypeOK
    <3> QED
      BY <1>7, <2>1, <3>1, <3>2 DEF HandlePidReply, Consume, TypeOK, clientVars
  <2>5. CASE ~m.ok
    BY <1>7, <2>1, <2>5 DEF HandlePidReply, HasPid, Consume, TypeOK, clientVars
  <2> QED
    BY <2>4, <2>5
<1>8. CASE HandlePingReply
  <2>1. /\ Head(inbox) \in Message /\ Head(inbox).kind = "PingReply"
        /\ Tail(inbox) \in Seq(Message)
    BY <1>8, ConsumeType DEF HandlePingReply
  <2>2. Head(inbox).ok \in BOOLEAN
    BY <2>1, MessageFields
  <2>3. apps' \subseteq Application
    BY <1>8, <2>2, AppPingKeeps DEF HandlePingReply
  <2> QED
    BY <1>8, <2>1, <2>3 DEF HandlePingReply, Consume, TypeOK, clientVars
<1>9. CASE PingTimeout
  <2>1. apps' \subseteq Application
    BY <1>9, AppPingKeeps DEF PingTimeout
  <2>2. pings' \subseteq pings
    BY <1>9 DEF PingTimeout
  <2> QED
    BY <1>9, <2>1, <2>2 DEF PingTimeout, TypeOK, clientVars
<1>10. CASE PingApplications
  <2>1. 1 - round \in {0, 1}
    BY DEF TypeOK
  <2>2. apps' = {[a EXCEPT !.pending = 1 - round] : a \in apps}
    BY <1>10 DEF PingApplications
  <2>3. apps' \subseteq Application
    BY <2>1, <2>2 DEF TypeOK, Application
  <2>4. pings' = pings \cup
          {[app |-> a.id, name |-> a.name, round |-> 1 - round] : a \in apps}
    BY <1>10 DEF PingApplications
  <2>5. pings' \subseteq [app : Nat, name : App, round : {0, 1}]
    BY <2>1, <2>4 DEF TypeOK, Application
  <2> QED
    BY <1>10, <2>1, <2>3, <2>5 DEF PingApplications, TypeOK, clientVars
<1>11. CASE PollMouse \/ DispatchDeviceCall
  BY <1>11 DEF PollMouse, DispatchDeviceCall, TypeOK, clientVars
<1>12. ASSUME NEW c \in Client, Disconnect(c) PROVE TypeOK'
  <2>1. Gone(c) \in Message
    BY DEF Gone, Message
  <2>2. inbox' \in Seq(Message)
    BY <1>12, <2>1, SendType DEF Disconnect
  <2> QED
    BY <1>12, <2>2 DEF Disconnect, TypeOK, registryVars
<1>13. ASSUME NEW c \in KeyClient, CallRegisterKeystrokeListener(c) PROVE TypeOK'
  <2>1. [kind |-> "RegisterKeystrokeListener", sender |-> c] \in Message
    BY ClientAssumption DEF Message
  <2>2. inbox' \in Seq(Message)
    BY <1>13, <2>1, SendType DEF CallRegisterKeystrokeListener
  <2> QED
    BY <1>13, <2>2 DEF CallRegisterKeystrokeListener, TypeOK, registryVars, clientVars
<1>14. ASSUME NEW c \in App, Hang(c) \/ Recover(c) PROVE TypeOK'
  BY <1>14 DEF Hang, Recover, TypeOK, registryVars
<1>15. ASSUME NEW c \in App, NEW p \in Path, CallEmbed(c, p) PROVE TypeOK'
  <2>1. [kind |-> "Embed", sender |-> c, path |-> p] \in Message
    BY DEF Message
  <2>2. inbox' \in Seq(Message)
    BY <1>15, <2>1, SendType DEF CallEmbed
  <2>3. roots' \in [Client -> SUBSET Path] /\ waiting' \in [Client -> SUBSET Path]
    BY <1>15 DEF CallEmbed, TypeOK, Client
  <2> QED
    BY <1>15, <2>2, <2>3 DEF CallEmbed, TypeOK, registryVars
<1>16. ASSUME NEW c \in App, NEW p \in Path, CallUnembed(c, p) PROVE TypeOK'
  <2>1. [kind |-> "Unembed", sender |-> c, path |-> p] \in Message
    BY DEF Message
  <2>2. inbox' \in Seq(Message)
    BY <1>16, <2>1, SendType DEF CallUnembed
  <2>3. roots' \in [Client -> SUBSET Path]
    BY <1>16 DEF CallUnembed, TypeOK, Client
  <2> QED
    BY <1>16, <2>2, <2>3 DEF CallUnembed, TypeOK, registryVars
<1>17. ASSUME NEW c \in AT, NEW t \in EventType, NEW a \in App \cup {Empty},
              CallRegisterEvent(c, t, a) \/ CallDeregisterEvent(c, t, a)
       PROVE TypeOK'
  <2>1. \A k \in {"RegisterEvent", "DeregisterEvent"} :
          [kind |-> k, sender |-> c, type |-> t, app |-> a] \in Message
    BY DEF Message
  <2>2. inbox' \in Seq(Message)
    BY <1>17, <2>1, SendType DEF CallRegisterEvent, CallDeregisterEvent
  <2> QED
    BY <1>17, <2>2 DEF CallRegisterEvent, CallDeregisterEvent, TypeOK, registryVars,
                       clientVars
<1>18. CASE AnswerPing
  <2>1. PICK p \in pings :
          /\ pings' = pings \ {p}
          /\ Send([kind |-> "PingReply", app |-> p.app, round |-> p.round,
                   ok |-> conn[p.name] = "on"])
    BY <1>18 DEF AnswerPing
  <2>2. [kind |-> "PingReply", app |-> p.app, round |-> p.round,
         ok |-> conn[p.name] = "on"] \in Message
    BY DEF Message, TypeOK
  <2>3. inbox' \in Seq(Message)
    BY <2>1, <2>2, SendType
  <2> QED
    BY <1>18, <2>1, <2>3 DEF AnswerPing, TypeOK, clientVars
<1>19. CASE Deliver
  BY <1>19 DEF Deliver, TypeOK, registryVars, clientVars
<1>20. CASE UNCHANGED vars
  BY <1>20 DEF vars, TypeOK, registryVars, clientVars
<1> QED
  BY <1>1, <1>2, <1>3, <1>4, <1>5, <1>6, <1>7, <1>8, <1>9, <1>10, <1>11, <1>12,
     <1>13, <1>14, <1>15, <1>16, <1>17, <1>18, <1>19, <1>20
  DEF Next, RegistryStep, ClientStep

\* Type correctness: every handler of registry.c and every call of a client
\* leaves the daemon's data well formed.
THEOREM TypeCorrect == Spec => []TypeOK
<1>1. Init => TypeOK
  <2> SUFFICES ASSUME Init PROVE TypeOK
    OBVIOUS
  <2>1. inbox \in Seq(Message)
    BY DEF Init
  <2> QED
    BY <2>1 DEF Init, TypeOK
<1> QED
  BY <1>1, TypeInductive, PTL DEF Spec
-----------------------------------------------------------------------------
(* The inductive invariants.  They are stated of a queue q of messages, which *)
(* is the inbox: each says what the messages still in flight promise.          *)

\* A call in flight of a caller that is gone is followed by the news of it.
FollowedUp(q) ==
  \A i \in 1..Len(q) :
    q[i].kind \in {"Embed", "RegisterEvent"} /\ conn[q[i].sender] = "gone" =>
      \E j \in (i + 1)..Len(q) : q[j] = Gone(q[i].sender)

Announced(q, c) == \E i \in 1..Len(q) : q[i] = Gone(c)

GhostInv == FollowedUp(inbox) /\ NoGhostApplication /\ NoGhostRegistration

\* The root object a call is about, and the messages that remove application a.
Root(m) == <<m.sender, m.path>>
Removes(m, a) ==
  \/ m.kind = "Unembed" /\ Root(m) = Ref(a)
  \/ m.kind = "NameOwnerChanged" /\ m.sender = a.name

\* The bus announces only what has happened.
GoneIsTrue(q) ==
  \A i \in 1..Len(q) : q[i].kind = "NameOwnerChanged" => conn[q[i].sender] = "gone"

\* Behind a call to Embed there is no other call about the same root.
EmbedIsLast(q) ==
  \A i \in 1..Len(q) : q[i].kind = "Embed" =>
    /\ q[i].path \in waiting[q[i].sender]
    /\ \A j \in (i + 1)..Len(q) :
         q[j].kind \in {"Embed", "Unembed"} => Root(q[j]) # Root(q[i])

\* The application a process id is on its way for is there, and nothing in
\* front of the reply removes it.
PidAwaited(q) ==
  \A i \in 1..Len(q) : q[i].kind = "PidReply" /\ q[i].ok =>
    \E a \in apps :
      /\ a.id = q[i].app /\ a.name = q[i].name
      /\ \A j \in 1..(i - 1) : ~Removes(q[j], a)

\* No other application has the id the reply is for, now or later.
PidMatches(q) ==
  /\ \A i \in 1..Len(q) : q[i].kind = "PidReply" =>
       q[i].app < nextId /\ \A a \in apps : a.id = q[i].app => a.name = q[i].name
  /\ \A a \in apps : a.id < nextId

PidQueue(q) == GoneIsTrue(q) /\ EmbedIsLast(q) /\ PidAwaited(q) /\ PidMatches(q)

PidInv == PidQueue(inbox) /\ NoWildWrite /\ PidIsOwn
-----------------------------------------------------------------------------
(* No application and no registration outlives its connection *)

LEMMA InQueue ==
  ASSUME NEW q \in Seq(Message), NEW c
  PROVE  Gone(c) \in ToSet(q) <=> Announced(q, c)
  BY DEF Announced, ToSet

\* Taking a message: its own caller is still announced, and so is every client
\* whose loss was not the message itself.
LEMMA FollowedUpTail ==
  ASSUME NEW q \in Seq(Message), q # <<>>, FollowedUp(q)
  PROVE  /\ FollowedUp(Tail(q))
         /\ Head(q).kind \in {"Embed", "RegisterEvent"} /\ conn[Head(q).sender] = "gone"
              => Announced(Tail(q), Head(q).sender)
         /\ \A c : Announced(q, c) /\ Head(q) # Gone(c) => Announced(Tail(q), c)
<1>1. /\ Head(q) = q[1] /\ Len(Tail(q)) = Len(q) - 1 /\ Len(q) \in Nat \ {0}
      /\ \A i \in 1..Len(Tail(q)) : Tail(q)[i] = q[i + 1]
  BY TailElements
<1>2. \A j \in 2..Len(q) : j - 1 \in 1..Len(Tail(q)) /\ Tail(q)[j - 1] = q[j]
  BY <1>1
<1>3. FollowedUp(Tail(q))
  <2> SUFFICES ASSUME NEW i \in 1..Len(Tail(q)),
                      Tail(q)[i].kind \in {"Embed", "RegisterEvent"},
                      conn[Tail(q)[i].sender] = "gone"
               PROVE  \E j \in (i + 1)..Len(Tail(q)) : Tail(q)[j] = Gone(Tail(q)[i].sender)
    BY DEF FollowedUp
  <2>1. i + 1 \in 1..Len(q) /\ Tail(q)[i] = q[i + 1]
    BY <1>1
  <2>2. PICK j \in (i + 1 + 1)..Len(q) : q[j] = Gone(q[i + 1].sender)
    BY <2>1 DEF FollowedUp
  <2>3. j - 1 \in (i + 1)..Len(Tail(q)) /\ Tail(q)[j - 1] = q[j]
    BY <1>1, <1>2, <2>2
  <2> QED
    BY <2>1, <2>2, <2>3
<1>4. ASSUME Head(q).kind \in {"Embed", "RegisterEvent"}, conn[Head(q).sender] = "gone"
      PROVE  Announced(Tail(q), Head(q).sender)
  <2>1. PICK j \in 2..Len(q) : q[j] = Gone(q[1].sender)
    BY <1>1, <1>4 DEF FollowedUp
  <2> QED
    BY <1>1, <1>2, <2>1 DEF Announced
<1>5. ASSUME NEW c, Announced(q, c), Head(q) # Gone(c)
      PROVE  Announced(Tail(q), c)
  <2>1. PICK j \in 1..Len(q) : q[j] = Gone(c)
    BY <1>5 DEF Announced
  <2>2. j \in 2..Len(q)
    BY <1>1, <1>5, <2>1
  <2> QED
    BY <1>2, <2>1, <2>2 DEF Announced
<1> QED
  BY <1>3, <1>4, <1>5

\* Putting a message of a connected client, or of the bus, behind the others.
LEMMA FollowedUpAppend ==
  ASSUME NEW q \in Seq(Message), NEW m \in Message, FollowedUp(q),
         m.kind \in {"Embed", "RegisterEvent"} => conn[m.sender] # "gone"
  PROVE  /\ FollowedUp(Append(q, m))
         /\ \A c : Announced(q, c) => Announced(Append(q, m), c)
<1>1. /\ Len(Append(q, m)) = Len(q) + 1 /\ Len(q) \in Nat
      /\ \A i \in 1..Len(q) : Append(q, m)[i] = q[i]
      /\ Append(q, m)[Len(q) + 1] = m
  BY AppendElements
<1>2. ASSUME NEW i \in 1..Len(Append(q, m)),
             Append(q, m)[i].kind \in {"Embed", "RegisterEvent"},
             conn[Append(q, m)[i].sender] = "gone"
      PROVE  \E j \in (i + 1)..Len(Append(q, m)) :
               Append(q, m)[j] = Gone(Append(q, m)[i].sender)
  <2>1. i \in 1..Len(q) /\ Append(q, m)[i] = q[i]
    BY <1>1, <1>2
  <2>2. PICK j \in (i + 1)..Len(q) : q[j] = Gone(q[i].sender)
    BY <1>2, <2>1 DEF FollowedUp
  <2>3. j \in (i + 1)..Len(Append(q, m)) /\ Append(q, m)[j] = q[j]
    BY <1>1, <2>2
  <2> QED
    BY <2>1, <2>2, <2>3
<1>3. \A c : Announced(q, c) => Announced(Append(q, m), c)
  BY <1>1 DEF Announced
<1> QED
  BY <1>2, <1>3 DEF FollowedUp
\* A step that adds no application and no registration, and loses no news of a
\* disconnection, keeps the invariant.
LEMMA GhostKept ==
  ASSUME TypeOK, GhostInv, inbox' \in Seq(Message), conn' = conn, FollowedUp(inbox'),
         \A a \in apps' : \E b \in apps : a.name = b.name,
         events' \subseteq events,
         \A c : Announced(inbox, c) => Announced(inbox', c)
  PROVE  GhostInv'
<1>1. \A c : Known(c) => Known(c)'
  BY InQueue DEF Known, TypeOK
<1>2. FollowedUp(inbox)'
  BY DEF FollowedUp
<1> QED
  BY <1>1, <1>2 DEF GhostInv, NoGhostApplication, NoGhostRegistration

\* The message the registry takes is of a caller it still knows.
LEMMA CallerKnown ==
  ASSUME TypeOK, GhostInv, inbox # <<>>, Head(inbox).kind \in {"Embed", "RegisterEvent"},
         NEW s, s = Head(inbox).sender,
         inbox' \in Seq(Message), conn' = conn,
         \A c : Announced(Tail(inbox), c) => Announced(inbox', c)
  PROVE  s \in Client /\ Known(s)'
<1>1. s \in Client
  BY TailElements, MessageFields DEF TypeOK, Client
<1>2. CASE conn[s] = "gone"
  <2>1. Announced(Tail(inbox), s)
    BY <1>2, FollowedUpTail DEF TypeOK, GhostInv
  <2>2. Gone(s) \in ToSet(inbox')
    BY <2>1, InQueue
  <2> QED
    BY <1>1, <2>2 DEF Known
<1>3. CASE conn[s] # "gone"
  BY <1>1, <1>3 DEF Known, TypeOK
<1> QED
  BY <1>1, <1>2, <1>3

\* Handlers that only take a message other than NameOwnerChanged.
LEMMA ConsumeKeepsQueue ==
  ASSUME TypeOK, GhostInv, inbox # <<>>, Head(inbox).kind # "NameOwnerChanged"
  PROVE  /\ FollowedUp(Tail(inbox)) /\ Tail(inbox) \in Seq(Message)
         /\ \A c : Announced(inbox, c) => Announced(Tail(inbox), c)
<1>1. \A c : Head(inbox) # Gone(c)
  BY DEF Gone
<1> QED
  BY <1>1, FollowedUpTail, TailElements DEF TypeOK, GhostInv

LEMMA GhostInductive == TypeOK /\ GhostInv /\ [Next]_vars => GhostInv'
<1> SUFFICES ASSUME TypeOK, GhostInv, [Next]_vars PROVE GhostInv'
  OBVIOUS
<1>1. CASE HandleEmbed
  <2> DEFINE m == Head(inbox)
             reply == [kind |-> "PidReply", app |-> nextId, name |-> m.sender,
                       ok |-> conn[m.sender] = "on"]
  <2>1. inbox # <<>> /\ m \in Message /\ m.kind = "Embed" /\ Tail(inbox) \in Seq(Message)
    BY <1>1, ConsumeType DEF HandleEmbed, Receive
  <2>2. reply \in Message /\ reply.kind = "PidReply"
    BY <2>1, MessageFields DEF Message, TypeOK
  <2>3. inbox' = Append(Tail(inbox), reply) /\ conn' = conn /\ events' = events
    BY <1>1 DEF HandleEmbed
  <2>4. /\ inbox' \in Seq(Message) /\ FollowedUp(inbox')
        /\ \A c : Announced(Tail(inbox), c) => Announced(inbox', c)
    BY <2>1, <2>2, <2>3, FollowedUpAppend, AppendElements, ConsumeKeepsQueue
  <2> PICK s : s = m.sender
    OBVIOUS
  <2>5. Known(s)'
    BY <2>1, <2>3, <2>4, CallerKnown
  <2>6. \A c : Known(c) => Known(c)'
    BY <2>1, <2>3, <2>4, ConsumeKeepsQueue, InQueue DEF Known, TypeOK
  <2>7. \A a \in apps' : a \in apps \/ a.name = s
    BY <1>1 DEF HandleEmbed
  <2>8. FollowedUp(inbox)'
    BY <2>3, <2>4 DEF FollowedUp
  <2> QED
    BY <2>3, <2>5, <2>6, <2>7, <2>8 DEF GhostInv, NoGhostApplication, NoGhostRegistration
<1>2. CASE HandleRegisterEvent
  <2> DEFINE m == Head(inbox)
  <2>1. inbox # <<>> /\ m.kind = "RegisterEvent" /\ Tail(inbox) \in Seq(Message)
    BY <1>2, ConsumeType DEF HandleRegisterEvent, Receive
  <2>2. inbox' = Tail(inbox) /\ conn' = conn /\ apps' = apps
    BY <1>2 DEF HandleRegisterEvent, Consume, clientVars
  <2> PICK s : s = m.sender
    OBVIOUS
  <2>3. Known(s)'
    BY <2>1, <2>2, CallerKnown
  <2>4. FollowedUp(inbox') /\ \A c : Known(c) => Known(c)'
    BY <2>1, <2>2, ConsumeKeepsQueue, InQueue DEF Known, TypeOK
  <2>5. \A e \in events' : e \in events \/ e.listener = s
    BY <1>2 DEF HandleRegisterEvent
  <2>6. FollowedUp(inbox)'
    BY <2>2, <2>4 DEF FollowedUp
  <2> QED
    BY <2>2, <2>3, <2>4, <2>5, <2>6 DEF GhostInv, NoGhostApplication, NoGhostRegistration
<1>3. CASE HandleNameOwnerChanged
  <2> PICK c : c = Head(inbox).sender
    OBVIOUS
  <2>1. inbox # <<>> /\ Head(inbox) \in Message /\ Tail(inbox) \in Seq(Message)
    BY <1>3, ConsumeType DEF HandleNameOwnerChanged, Receive
  <2>2. Head(inbox) = Gone(c)
    BY <1>3, <2>1 DEF HandleNameOwnerChanged, Receive, Message, Gone
  <2>3. inbox' = Tail(inbox) /\ conn' = conn
    BY <1>3 DEF HandleNameOwnerChanged, Consume, clientVars
  <2>4. FollowedUp(Tail(inbox))
    BY <2>1, FollowedUpTail DEF GhostInv, TypeOK
  <2>5. ASSUME NEW d, d # c, Known(d) PROVE Known(d)'
    <3>1. Head(inbox) # Gone(d)
      BY <2>2, <2>5 DEF Gone
    <3>2. Announced(inbox, d) => Announced(Tail(inbox), d)
      BY <2>1, <3>1, FollowedUpTail DEF GhostInv, TypeOK
    <3> QED
      BY <2>1, <2>3, <2>5, <3>2, InQueue DEF Known, TypeOK
  <2>6. \A a \in apps' : a \in apps /\ a.name # c
    BY <1>3 DEF HandleNameOwnerChanged, RemoveApplications, ApplicationsOf
  <2>7. \A e \in events' : e \in events /\ e.listener # c
    <3>1. events' = events \ Removed(c, <<>>, Empty)
      BY <1>3 DEF HandleNameOwnerChanged, RemoveEvents
    <3>2. \A e \in events : IsSubtype(e.type, <<>>)
      <4>1. DOMAIN <<>> = {}
        OBVIOUS
      <4> QED
        BY <4>1 DEF IsSubtype
    <3> QED
      BY <3>1, <3>2 DEF Removed
  <2>8. FollowedUp(inbox)'
    BY <2>3, <2>4 DEF FollowedUp
  <2> QED
    BY <2>5, <2>6, <2>7, <2>8 DEF GhostInv, NoGhostApplication, NoGhostRegistration
<1>4. CASE \/ HandleUnembed \/ HandleDeregisterEvent \/ HandleRegisterKeystrokeListener
           \/ HandlePidReply \/ HandlePingReply
  <2>1. /\ inbox # <<>> /\ Head(inbox).kind # "NameOwnerChanged"
        /\ inbox' = Tail(inbox) /\ conn' = conn
    BY <1>4 DEF HandleUnembed, HandleDeregisterEvent, HandleRegisterKeystrokeListener,
                HandlePidReply, HandlePingReply, Receive, Consume, clientVars
  <2>2. events' \subseteq events
    BY <1>4 DEF HandleUnembed, HandleDeregisterEvent, HandleRegisterKeystrokeListener,
                HandlePidReply, HandlePingReply, RemoveEvents
  <2>3. \A a \in apps' : \E b \in apps : a.name = b.name
    <3>1. CASE HandleUnembed
      BY <3>1 DEF HandleUnembed, RemoveApplications
    <3>2. CASE HandleDeregisterEvent \/ HandleRegisterKeystrokeListener
      BY <3>2 DEF HandleDeregisterEvent, HandleRegisterKeystrokeListener
    <3>3. CASE HandlePidReply
      BY <3>3 DEF HandlePidReply, PidTarget, TypeOK, Application
    <3>4. CASE HandlePingReply
      <4>1. Head(inbox).ok \in BOOLEAN
        BY <3>4, ConsumeType, MessageFields DEF HandlePingReply
      <4> QED
        BY <3>4, <4>1, AppPingKeeps DEF HandlePingReply
    <3> QED
      BY <1>4, <3>1, <3>2, <3>3, <3>4
  <2> QED
    BY <2>1, <2>2, <2>3, ConsumeKeepsQueue, GhostKept
<1>5. CASE \/ PingTimeout \/ PingApplications \/ PollMouse \/ DispatchDeviceCall
           \/ Deliver \/ UNCHANGED vars
           \/ \E c \in App : Hang(c) \/ Recover(c)
  <2>1. inbox' = inbox /\ conn' = conn /\ events' = events
    BY <1>5 DEF PingTimeout, PingApplications, PollMouse, DispatchDeviceCall, Deliver, vars,
                Hang, Recover, registryVars, clientVars
  <2>2. \A a \in apps' : \E b \in apps : a.name = b.name
    <3>1. CASE PingTimeout
      BY <3>1, AppPingKeeps DEF PingTimeout
    <3>2. CASE PingApplications
      BY <3>2 DEF PingApplications, TypeOK, Application
    <3>3. CASE \/ PollMouse \/ DispatchDeviceCall \/ Deliver \/ UNCHANGED vars
               \/ \E c \in App : Hang(c) \/ Recover(c)
      BY <3>3 DEF PollMouse, DispatchDeviceCall, Deliver, vars,
                          Hang, Recover, registryVars
    <3> QED
      BY <1>5, <3>1, <3>2, <3>3
  <2> QED
    BY <2>1, <2>2, GhostKept DEF GhostInv, TypeOK
<1>6. ASSUME NEW c \in Client, Disconnect(c) PROVE GhostInv'
  <2>1. /\ inbox' = Append(inbox, Gone(c)) /\ conn' = [conn EXCEPT ![c] = "gone"]
        /\ apps' = apps /\ events' = events
    BY <1>6 DEF Disconnect, Send, registryVars
  <2>2. Gone(c) \in Message /\ Gone(c).kind = "NameOwnerChanged"
    BY DEF Gone, Message
  <2>3. /\ FollowedUp(inbox') /\ inbox' \in Seq(Message)
        /\ \A d : Announced(inbox, d) => Announced(inbox', d)
    BY <2>1, <2>2, FollowedUpAppend, AppendElements DEF GhostInv, TypeOK
  <2>4. /\ Len(inbox') = Len(inbox) + 1 /\ Len(inbox) \in Nat
        /\ inbox'[Len(inbox) + 1] = Gone(c)
        /\ \A i \in 1..Len(inbox) : inbox'[i] = inbox[i] /\ inbox[i] \in Message
    BY <2>1, <2>2, AppendElements DEF TypeOK
  <2>5. Announced(inbox', c)
    BY <2>4 DEF Announced
  <2>6. \A d \in Client : Known(d) => Known(d)'
    BY <2>1, <2>3, <2>5, InQueue DEF Known, TypeOK
  <2>7. /\ \A a \in apps : a.name \in Client
        /\ \A e \in events : e.listener \in Client
    BY DEF TypeOK, Application, Registration, Client
  <2>8. ASSUME NEW i \in 1..Len(inbox'), inbox'[i].kind \in {"Embed", "RegisterEvent"},
               conn'[inbox'[i].sender] = "gone"
        PROVE  \E j \in (i + 1)..Len(inbox') : inbox'[j] = Gone(inbox'[i].sender)
    <3>1. i \in 1..Len(inbox)
      BY <2>2, <2>4, <2>8
    <3>2. CASE inbox'[i].sender = c
      BY <2>4, <3>1, <3>2
    <3>3. CASE inbox'[i].sender # c
      <4>1. inbox'[i].sender \in Client
        BY <2>4, <2>8, <3>1, MessageFields DEF Client
      <4>2. conn[inbox'[i].sender] = "gone"
        BY <2>1, <2>8, <3>3, <4>1 DEF TypeOK
      <4> QED
        BY <2>3, <2>8, <4>2 DEF FollowedUp
    <3> QED
      BY <3>2, <3>3
  <2>9. FollowedUp(inbox)'
    BY <2>8 DEF FollowedUp
  <2> QED
    BY <2>1, <2>6, <2>7, <2>9 DEF GhostInv, NoGhostApplication, NoGhostRegistration
<1>7. ASSUME NEW m \in Message, Send(m), conn' = conn, apps' = apps, events' = events,
             m.kind \in {"Embed", "RegisterEvent"} => conn[m.sender] # "gone"
      PROVE  GhostInv'
  <2>1. /\ FollowedUp(inbox') /\ inbox' \in Seq(Message)
        /\ \A d : Announced(inbox, d) => Announced(inbox', d)
    BY <1>7, FollowedUpAppend, AppendElements DEF GhostInv, TypeOK, Send
  <2> QED
    BY <1>7, <2>1, GhostKept
<1>8. ASSUME NEW c \in KeyClient, CallRegisterKeystrokeListener(c) PROVE GhostInv'
  <2>1. [kind |-> "RegisterKeystrokeListener", sender |-> c] \in Message
    BY ClientAssumption DEF Message
  <2> QED
    BY <1>7, <1>8, <2>1 DEF CallRegisterKeystrokeListener, registryVars, clientVars
<1>9. ASSUME NEW c \in App, NEW p \in Path, CallEmbed(c, p) \/ CallUnembed(c, p)
      PROVE  GhostInv'
  <2>1. \A k \in {"Embed", "Unembed"} : [kind |-> k, sender |-> c, path |-> p] \in Message
    BY DEF Message
  <2>2. conn[c] # "gone" /\ conn' = conn /\ apps' = apps /\ events' = events
    BY <1>9 DEF CallEmbed, CallUnembed, MaySend, registryVars
  <2> QED
    BY <1>7, <1>9, <2>1, <2>2 DEF CallEmbed, CallUnembed
<1>10. ASSUME NEW c \in AT, NEW t \in EventType, NEW a \in App \cup {Empty},
              CallRegisterEvent(c, t, a) \/ CallDeregisterEvent(c, t, a)
       PROVE  GhostInv'
  <2>1. \A k \in {"RegisterEvent", "DeregisterEvent"} :
          [kind |-> k, sender |-> c, type |-> t, app |-> a] \in Message
    BY DEF Message
  <2>2. conn[c] # "gone" /\ conn' = conn /\ apps' = apps /\ events' = events
    BY <1>10 DEF CallRegisterEvent, CallDeregisterEvent, MaySend, registryVars, clientVars
  <2> QED
    BY <1>7, <1>10, <2>1, <2>2 DEF CallRegisterEvent, CallDeregisterEvent
<1>11. CASE AnswerPing
  <2>1. PICK p \in pings :
          Send([kind |-> "PingReply", app |-> p.app, round |-> p.round,
                ok |-> conn[p.name] = "on"])
    BY <1>11 DEF AnswerPing
  <2>2. [kind |-> "PingReply", app |-> p.app, round |-> p.round,
         ok |-> conn[p.name] = "on"] \in Message
    BY DEF Message, TypeOK
  <2> QED
    BY <1>7, <1>11, <2>1, <2>2 DEF AnswerPing, clientVars
<1> QED
  BY <1>1, <1>2, <1>3, <1>4, <1>5, <1>6, <1>8, <1>9, <1>10, <1>11
  DEF Next, RegistryStep, ClientStep

\* Nothing of a client outlives its connection: whatever calls of it were in
\* flight when it died, its applications and registrations are gone once the
\* registry has heard of the loss (handle_disconnection).
THEOREM NoGhosts == Spec => [](NoGhostApplication /\ NoGhostRegistration)
<1>1. Init => GhostInv
  BY DEF Init, GhostInv, FollowedUp, NoGhostApplication, NoGhostRegistration
<1>2. GhostInv => NoGhostApplication /\ NoGhostRegistration
  BY DEF GhostInv
<1> QED
  BY <1>1, <1>2, TypeCorrect, GhostInductive, PTL DEF Spec
-----------------------------------------------------------------------------
(* A process id reaches the application it was asked for *)

\* Taking the first message keeps what the others promise.
LEMMA PidTail ==
  ASSUME NEW q \in Seq(Message), q # <<>>, PidQueue(q)
  PROVE  PidQueue(Tail(q))
<1>1. /\ Len(Tail(q)) = Len(q) - 1 /\ Len(q) \in Nat \ {0}
      /\ \A i \in 1..Len(Tail(q)) : Tail(q)[i] = q[i + 1]
  BY TailElements
<1>2. \A i \in 1..Len(Tail(q)) : i + 1 \in 1..Len(q)
  BY <1>1
<1>3. GoneIsTrue(Tail(q))
  BY <1>1, <1>2 DEF PidQueue, GoneIsTrue
<1>4. EmbedIsLast(Tail(q))
  <2> SUFFICES ASSUME NEW i \in 1..Len(Tail(q)), Tail(q)[i].kind = "Embed"
               PROVE  /\ Tail(q)[i].path \in waiting[Tail(q)[i].sender]
                      /\ \A j \in (i + 1)..Len(Tail(q)) :
                           Tail(q)[j].kind \in {"Embed", "Unembed"} =>
                             Root(Tail(q)[j]) # Root(Tail(q)[i])
    BY DEF EmbedIsLast
  <2>1. /\ q[i + 1].path \in waiting[q[i + 1].sender]
        /\ \A j \in (i + 2)..Len(q) :
             q[j].kind \in {"Embed", "Unembed"} => Root(q[j]) # Root(q[i + 1])
    BY <1>1, <1>2 DEF PidQueue, EmbedIsLast
  <2>2. \A j \in (i + 1)..Len(Tail(q)) : j + 1 \in (i + 2)..Len(q) /\ Tail(q)[j] = q[j + 1]
    BY <1>1
  <2> QED
    BY <1>1, <2>1, <2>2
<1>5. PidAwaited(Tail(q))
  <2> SUFFICES ASSUME NEW i \in 1..Len(Tail(q)), Tail(q)[i].kind = "PidReply", Tail(q)[i].ok
               PROVE  \E a \in apps :
                        /\ a.id = Tail(q)[i].app /\ a.name = Tail(q)[i].name
                        /\ \A j \in 1..(i - 1) : ~Removes(Tail(q)[j], a)
    BY DEF PidAwaited
  <2>1. PICK a \in apps :
          /\ a.id = q[i + 1].app /\ a.name = q[i + 1].name
          /\ \A j \in 1..i : ~Removes(q[j], a)
    BY <1>1, <1>2 DEF PidQueue, PidAwaited
  <2>2. \A j \in 1..(i - 1) : j + 1 \in 1..i /\ Tail(q)[j] = q[j + 1]
    BY <1>1
  <2> QED
    BY <1>1, <2>1, <2>2
<1>6. PidMatches(Tail(q))
  BY <1>1, <1>2 DEF PidQueue, PidMatches
<1> QED
  BY <1>3, <1>4, <1>5, <1>6 DEF PidQueue

\* An application that is still there, whatever else changed of it.
Same(a, b) == a.id = b.id /\ a.name = b.name /\ a.path = b.path

LEMMA AwaitedKept ==
  ASSUME NEW q \in Seq(Message), PidAwaited(q), \A b \in apps : \E a \in apps' : Same(a, b)
  PROVE  PidAwaited(q)'
<1> SUFFICES ASSUME NEW i \in 1..Len(q), q[i].kind = "PidReply", q[i].ok
             PROVE  \E a \in apps' : /\ a.id = q[i].app /\ a.name = q[i].name
                                    /\ \A j \in 1..(i - 1) : ~Removes(q[j], a)
  BY DEF PidAwaited
<1>1. PICK b \in apps : /\ b.id = q[i].app /\ b.name = q[i].name
                       /\ \A j \in 1..(i - 1) : ~Removes(q[j], b)
  BY DEF PidAwaited
<1>2. PICK a \in apps' : Same(a, b)
  OBVIOUS
<1>3. \A j \in 1..(i - 1) : Removes(q[j], a) => Removes(q[j], b)
  BY <1>2 DEF Same, Removes, Ref
<1> QED
  BY <1>1, <1>2, <1>3 DEF Same

\* The promises survive a change of the registry or of the clients that closes
\* connections, keeps the callers waiting, and removes no application a process
\* id is on its way for.
LEMMA PidStateKept ==
  ASSUME NEW q \in Seq(Message), PidQueue(q), TypeOK, nextId' \in Nat, nextId <= nextId',
         \A c \in Client : conn[c] = "gone" => conn'[c] = "gone",
         \A i \in 1..Len(q) : q[i].kind = "Embed" => q[i].path \in waiting'[q[i].sender],
         \A a \in apps' :
           /\ a.id < nextId'
           /\ a.id < nextId => \E b \in apps : a.id = b.id /\ a.name = b.name,
         PidAwaited(q)'
  PROVE  PidQueue(q)'
<1>1. \A i \in 1..Len(q) : q[i] \in Message
  OBVIOUS
<1>2. GoneIsTrue(q)'
  <2>1. \A i \in 1..Len(q) : q[i].kind = "NameOwnerChanged" => q[i].sender \in Client
    BY <1>1, MessageFields
  <2> QED
    BY <2>1 DEF PidQueue, GoneIsTrue
<1>3. EmbedIsLast(q)'
  BY DEF PidQueue, EmbedIsLast
<1>4. PidMatches(q)'
  <2>1. \A i \in 1..Len(q) : q[i].kind = "PidReply" => q[i].app \in Nat
    BY <1>1, MessageFields
  <2>2. \A i \in 1..Len(q) : q[i].kind = "PidReply" => q[i].app < nextId'
    BY <2>1 DEF PidQueue, PidMatches, TypeOK
  <2>3. ASSUME NEW i \in 1..Len(q), q[i].kind = "PidReply", NEW a \in apps', a.id = q[i].app
        PROVE  a.name = q[i].name
    BY <2>3 DEF PidQueue, PidMatches
  <2> QED
    BY <2>2, <2>3 DEF PidMatches
<1> QED
  BY <1>2, <1>3, <1>4 DEF PidQueue
\* A message behind the others makes promises of its own.
LEMMA PidAppend ==
  ASSUME NEW q \in Seq(Message), NEW m \in Message, PidQueue(q)',
         m.kind = "NameOwnerChanged" => conn'[m.sender] = "gone",
         m.kind = "Embed" => m.path \in waiting'[m.sender],
         m.kind \in {"Embed", "Unembed"} =>
           \A i \in 1..Len(q) : q[i].kind = "Embed" => Root(q[i]) # Root(m),
         m.kind = "PidReply" =>
           /\ m.app < nextId'
           /\ \A a \in apps' : a.id = m.app => a.name = m.name
           /\ m.ok => \E a \in apps' : /\ a.id = m.app /\ a.name = m.name
                                       /\ \A j \in 1..Len(q) : ~Removes(q[j], a),
         inbox' = Append(q, m)
  PROVE  PidQueue(inbox)'
<1>1. /\ Len(inbox') = Len(q) + 1 /\ Len(q) \in Nat
      /\ \A i \in 1..Len(q) : inbox'[i] = q[i]
      /\ inbox'[Len(q) + 1] = m
  BY AppendElements
<1>2. \A i \in 1..Len(inbox') : i \in 1..Len(q) \/ i = Len(q) + 1
  BY <1>1
<1>3. GoneIsTrue(inbox)'
  BY <1>1, <1>2 DEF PidQueue, GoneIsTrue
<1>4. EmbedIsLast(inbox)'
  <2>1. ASSUME NEW i \in 1..Len(inbox'), inbox'[i].kind = "Embed"
        PROVE  inbox'[i].path \in waiting'[inbox'[i].sender]
    BY <1>1, <1>2, <2>1 DEF PidQueue, EmbedIsLast
  <2>2. ASSUME NEW i \in 1..Len(inbox'), inbox'[i].kind = "Embed",
               NEW j \in (i + 1)..Len(inbox'), inbox'[j].kind \in {"Embed", "Unembed"}
        PROVE  Root(inbox'[j]) # Root(inbox'[i])
    <3>1. i \in 1..Len(q) /\ inbox'[i] = q[i]
      BY <1>1
    <3>2. CASE j \in 1..Len(q)
      <4>1. j \in (i + 1)..Len(q) /\ inbox'[j] = q[j]
        BY <1>1, <3>2
      <4> QED
        BY <2>2, <3>1, <4>1 DEF PidQueue, EmbedIsLast
    <3>3. CASE j = Len(q) + 1
      BY <1>1, <2>2, <3>1, <3>3
    <3> QED
      BY <1>1, <3>2, <3>3
  <2> QED
    BY <2>1, <2>2 DEF EmbedIsLast
<1>5. PidAwaited(inbox)'
  <2> SUFFICES ASSUME NEW i \in 1..Len(inbox'), inbox'[i].kind = "PidReply", inbox'[i].ok
               PROVE  \E a \in apps' :
                        /\ a.id = inbox'[i].app /\ a.name = inbox'[i].name
                        /\ \A j \in 1..(i - 1) : ~Removes(inbox'[j], a)
    BY DEF PidAwaited
  <2>1. \A j \in 1..(i - 1) : j \in 1..Len(q) /\ inbox'[j] = q[j]
    BY <1>1
  <2>2. CASE i \in 1..Len(q)
    BY <1>1, <2>1, <2>2 DEF PidQueue, PidAwaited
  <2>3. CASE i = Len(q) + 1
    BY <1>1, <2>1, <2>3
  <2> QED
    BY <1>2, <2>2, <2>3
<1>6. PidMatches(inbox)'
  BY <1>1, <1>2 DEF PidQueue, PidMatches
<1> QED
  BY <1>3, <1>4, <1>5, <1>6 DEF PidQueue

\* A step that sends nothing.
LEMMA PidUnsent ==
  ASSUME NEW q, PidQueue(q)', inbox' = q
  PROVE  PidQueue(inbox)'
  BY DEF PidQueue, GoneIsTrue, EmbedIsLast, PidAwaited, PidMatches

\* The identities of the applications and their process ids are untouched.
SameApplications ==
  /\ \A a \in apps' : \E b \in apps : a.id = b.id /\ a.name = b.name /\ a.pid = b.pid
  /\ \A b \in apps : \E a \in apps' : Same(a, b)

LEMMA PidSame ==
  ASSUME NEW q \in Seq(Message), PidQueue(q), TypeOK, nextId' = nextId, SameApplications,
         \A c \in Client : conn[c] = "gone" => conn'[c] = "gone",
         \A i \in 1..Len(q) : q[i].kind = "Embed" => q[i].path \in waiting'[q[i].sender],
         PidIsOwn
  PROVE  PidQueue(q)' /\ PidIsOwn'
<1>1. \A a \in apps' : \E b \in apps : a.id = b.id /\ a.name = b.name
  BY DEF SameApplications
<1>2. \A a \in apps' : a.id < nextId'
  BY <1>1 DEF PidQueue, PidMatches
<1>3. PidAwaited(q)'
  BY AwaitedKept DEF SameApplications, PidQueue
<1>4. nextId' \in Nat /\ nextId <= nextId'
  BY DEF TypeOK
<1>5. PidQueue(q)'
  BY <1>1, <1>2, <1>3, <1>4, PidStateKept
<1>6. PidIsOwn'
  BY DEF PidIsOwn, SameApplications
<1> QED
  BY <1>5, <1>6
LEMMA PidInductive == TypeOK /\ PidInv /\ [Next]_vars => PidInv'
<1> SUFFICES ASSUME TypeOK, PidInv, [Next]_vars PROVE PidInv'
  OBVIOUS
<1>1. \A i \in 1..Len(inbox) : inbox[i].kind = "Embed" =>
        inbox[i].path \in waiting[inbox[i].sender] /\ inbox[i].sender \in Client
  BY MessageFields DEF PidInv, PidQueue, EmbedIsLast, TypeOK, Client
\* Taking a message that changes no application's identity.
<1>2. ASSUME inbox # <<>>, inbox' = Tail(inbox), nextId' = nextId, SameApplications,
             conn' = conn, waiting' = waiting
      PROVE  PidQueue(inbox)' /\ PidIsOwn'
  <2> PICK q : q = Tail(inbox)
    OBVIOUS
  <2>1. PidQueue(q) /\ q \in Seq(Message)
    BY <1>2, PidTail, TailElements DEF PidInv, TypeOK
  <2>2. \A i \in 1..Len(q) : q[i].kind = "Embed" => q[i].path \in waiting'[q[i].sender]
    BY <1>2, <2>1 DEF PidQueue, EmbedIsLast
  <2>3. PidQueue(q)' /\ PidIsOwn'
    BY <1>2, <2>1, <2>2, PidSame DEF PidInv
  <2> QED
    BY <1>2, <2>3, PidUnsent
\* Sending a message other than Embed, NameOwnerChanged and PidReply, or nothing.
<1>3. ASSUME nextId' = nextId, SameApplications, conn' = conn, waiting' = waiting,
             \/ inbox' = inbox
             \/ \E m \in Message :
                  /\ inbox' = Append(inbox, m)
                  /\ m.kind \notin {"Embed", "NameOwnerChanged", "PidReply"}
                  /\ m.kind = "Unembed" => m.path \notin waiting[m.sender]
      PROVE  PidQueue(inbox)' /\ PidIsOwn'
  <2> PICK q : q = inbox
    OBVIOUS
  <2>1. PidQueue(q) /\ q \in Seq(Message)
    BY DEF PidInv, TypeOK
  <2>2. PidQueue(q)' /\ PidIsOwn'
    BY <1>1, <1>3, <2>1, PidSame DEF PidInv
  <2>3. CASE inbox' = inbox
    BY <2>2, <2>3, PidUnsent
  <2>4. CASE \E m \in Message :
               /\ inbox' = Append(inbox, m)
               /\ m.kind \notin {"Embed", "NameOwnerChanged", "PidReply"}
               /\ m.kind = "Unembed" => m.path \notin waiting[m.sender]
    BY <1>1, <2>1, <2>2, <2>4, PidAppend DEF Root
  <2> QED
    BY <1>3, <2>3, <2>4
<1>4. apps' = apps => SameApplications
  BY DEF SameApplications, Same
<1>5. CASE HandleEmbed
  <2> PICK q, m, reply :
        /\ q = Tail(inbox) /\ m = Head(inbox)
        /\ reply = [kind |-> "PidReply", app |-> nextId, name |-> m.sender,
                    ok |-> conn[m.sender] = "on"]
    OBVIOUS
  <2> DEFINE new == [id |-> nextId, name |-> m.sender, path |-> m.path,
                     disabled |-> FALSE, pending |-> NoRound, pid |-> Null]
  <2>1. /\ inbox # <<>> /\ m \in Message /\ m.kind = "Embed" /\ q \in Seq(Message)
        /\ m.sender \in App
    BY <1>5, ConsumeType, MessageFields DEF HandleEmbed, Receive
  <2>2. /\ apps' = apps \cup {new} /\ nextId' = nextId + 1 /\ conn' = conn
        /\ waiting' = [waiting EXCEPT ![m.sender] = @ \ {m.path}]
        /\ inbox' = Append(q, reply) /\ wildWrite' = wildWrite
    BY <1>5 DEF HandleEmbed
  <2>3. PidQueue(q)
    BY <2>1, PidTail DEF PidInv, TypeOK
  <2>4. \A i \in 1..Len(q) : q[i] = inbox[i + 1] /\ i + 1 \in 2..Len(inbox)
    BY <2>1, TailElements DEF TypeOK
  <2>5. inbox[1] = m /\ 1 \in 1..Len(inbox)
    BY <2>1, TailElements DEF TypeOK
  <2>6. \A i \in 1..Len(q) : q[i].kind \in {"Embed", "Unembed"} => Root(q[i]) # Root(m)
    BY <2>1, <2>4, <2>5 DEF PidInv, PidQueue, EmbedIsLast
  <2>7. \A i \in 1..Len(q) : q[i].kind = "Embed" => q[i].path \in waiting'[q[i].sender]
    <3>1. \A i \in 1..Len(q) : q[i].kind = "Embed" =>
            /\ q[i].path \in waiting[q[i].sender] /\ q[i].sender \in Client
            /\ Root(q[i]) # Root(m)
      BY <2>1, <2>3, <2>6, MessageFields DEF PidQueue, EmbedIsLast, Client
    <3> QED
      BY <2>2, <3>1 DEF TypeOK, Root
  <2>8. \A a \in apps : a.id < nextId /\ a.id \in Nat
    BY <2>3 DEF PidQueue, PidMatches, TypeOK, Application
  <2>9. PidQueue(q)'
    <3>1. nextId' \in Nat /\ nextId <= nextId'
      BY <2>2 DEF TypeOK
    <3>2. \A a \in apps' : /\ a.id < nextId'
                           /\ a.id < nextId => \E b \in apps : a.id = b.id /\ a.name = b.name
      BY <2>2, <2>8 DEF TypeOK
    <3>3. PidAwaited(q)'
      BY <2>1, <2>2, <2>3, AwaitedKept DEF Same, PidQueue
    <3> QED
      BY <2>1, <2>2, <2>3, <2>7, <3>1, <3>2, <3>3, PidStateKept
  <2>10. /\ reply \in Message /\ reply.kind = "PidReply" /\ reply.app = nextId
         /\ reply.name = m.sender
    BY <2>1 DEF Message, TypeOK
  <2>11. \A a \in apps' : a.id = reply.app => a.name = reply.name
    BY <2>2, <2>8 DEF TypeOK
  <2>12. ASSUME reply.ok
         PROVE  \E a \in apps' : /\ a.id = reply.app /\ a.name = reply.name
                                /\ \A j \in 1..Len(q) : ~Removes(q[j], a)
    <3>1. conn[m.sender] # "gone"
      BY <2>12
    <3>2. new \in apps' /\ new.id = reply.app /\ new.name = reply.name
      BY <2>2, <2>10
    <3>3. \A j \in 1..Len(q) : ~Removes(q[j], new)
      BY <2>3, <2>6, <3>1 DEF PidQueue, GoneIsTrue, Removes, Root, Ref
    <3> QED
      BY <2>10, <3>2, <3>3
  <2>13. PidQueue(inbox)'
    <3>1. reply.app < nextId'
      BY <2>2, <2>10 DEF TypeOK
    <3> QED
      BY <2>1, <2>2, <2>9, <2>10, <2>11, <2>12, <3>1, PidAppend
  <2>14. PidIsOwn'
    BY <2>2 DEF PidInv, PidIsOwn
  <2> QED
    BY <2>2, <2>13, <2>14 DEF PidInv, NoWildWrite
<1>6. CASE HandleUnembed \/ HandleNameOwnerChanged
  <2> PICK q, m : q = Tail(inbox) /\ m = Head(inbox)
    OBVIOUS
  <2>1. /\ inbox # <<>> /\ m \in Message /\ q \in Seq(Message)
        /\ m.kind \in {"Unembed", "NameOwnerChanged"}
    BY <1>6, ConsumeType DEF HandleUnembed, HandleNameOwnerChanged, Receive
  <2>2. /\ inbox' = q /\ nextId' = nextId /\ conn' = conn /\ waiting' = waiting
        /\ wildWrite' = wildWrite
    BY <1>6 DEF HandleUnembed, HandleNameOwnerChanged, Consume, clientVars
  <2>3. apps' \subseteq apps /\ \A b \in apps : ~Removes(m, b) => b \in apps'
    <3>1. CASE HandleUnembed
      <4>1. \A b \in apps : b \in apps' \/ Ref(b) = <<m.sender, m.path>>
        BY <3>1 DEF HandleUnembed, RemoveApplications
      <4>2. m.kind = "Unembed"
        BY <3>1 DEF HandleUnembed, Receive
      <4> QED
        BY <3>1, <4>1, <4>2 DEF Removes, Root, HandleUnembed, RemoveApplications
    <3>2. CASE HandleNameOwnerChanged
      BY <3>2 DEF HandleNameOwnerChanged, RemoveApplications, ApplicationsOf, Receive, Removes
    <3> QED
      BY <1>6, <3>1, <3>2
  <2>4. PidQueue(q)
    BY <2>1, PidTail DEF PidInv, TypeOK
  <2>5. \A i \in 1..Len(q) : q[i] = inbox[i + 1] /\ i + 1 \in 2..Len(inbox)
    BY <2>1, TailElements DEF TypeOK
  <2>6. inbox[1] = m /\ Len(q) = Len(inbox) - 1 /\ Len(inbox) \in Nat
    BY <2>1, TailElements DEF TypeOK
  <2>7. PidAwaited(q)'
    <3> SUFFICES ASSUME NEW i \in 1..Len(q), q[i].kind = "PidReply", q[i].ok
                 PROVE  \E a \in apps' : /\ a.id = q[i].app /\ a.name = q[i].name
                                        /\ \A j \in 1..(i - 1) : ~Removes(q[j], a)
      BY DEF PidAwaited
    <3>1. PICK a \in apps : /\ a.id = q[i].app /\ a.name = q[i].name
                           /\ \A j \in 1..i : ~Removes(inbox[j], a)
      <4>1. q[i] = inbox[i + 1] /\ i + 1 \in 1..Len(inbox) /\ (i + 1) - 1 = i
        BY <2>5, <2>6
      <4> QED
        BY <4>1 DEF PidInv, PidQueue, PidAwaited
    <3>2. a \in apps'
      BY <2>3, <2>6, <3>1
    <3>3. \A j \in 1..(i - 1) : j + 1 \in 1..i /\ q[j] = inbox[j + 1]
      BY <2>5, <2>6
    <3> QED
      BY <3>1, <3>2, <3>3
  <2>8. PidQueue(q)'
    <3>1. \A a \in apps' : a.id < nextId' /\ \E b \in apps : a.id = b.id /\ a.name = b.name
      BY <2>2, <2>3, <2>4 DEF PidQueue, PidMatches
    <3>2. \A i \in 1..Len(q) : q[i].kind = "Embed" => q[i].path \in waiting'[q[i].sender]
      BY <2>2, <2>4 DEF PidQueue, EmbedIsLast
    <3>3. nextId' \in Nat /\ nextId <= nextId'
      BY <2>2 DEF TypeOK
    <3> QED
      BY <2>1, <2>2, <2>4, <2>7, <3>1, <3>2, <3>3, PidStateKept
  <2>9. PidIsOwn'
    BY <2>3 DEF PidInv, PidIsOwn
  <2> QED
    BY <2>2, <2>8, <2>9, PidUnsent DEF PidInv, NoWildWrite
<1>7. CASE \/ HandleRegisterEvent \/ HandleDeregisterEvent
           \/ HandleRegisterKeystrokeListener \/ HandlePingReply
  <2>1. /\ inbox # <<>> /\ inbox' = Tail(inbox) /\ nextId' = nextId
        /\ conn' = conn /\ waiting' = waiting /\ wildWrite' = wildWrite
    BY <1>7 DEF HandleRegisterEvent, HandleDeregisterEvent, HandleRegisterKeystrokeListener,
                HandlePingReply, Receive, Consume, clientVars
  <2>2. SameApplications
    <3>1. CASE HandlePingReply
      <4>1. Head(inbox).ok \in BOOLEAN
        BY <3>1, ConsumeType, MessageFields DEF HandlePingReply
      <4> QED
        BY <3>1, <4>1, AppPingKeeps DEF HandlePingReply, SameApplications, Same
    <3>2. CASE ~HandlePingReply
      BY <1>4, <1>7, <3>2 DEF HandleRegisterEvent, HandleDeregisterEvent,
                              HandleRegisterKeystrokeListener
    <3> QED
      BY <3>1, <3>2
  <2> QED
    BY <1>2, <2>1, <2>2 DEF PidInv, NoWildWrite
<1>8. CASE HandlePidReply
  <2> PICK q, m : q = Tail(inbox) /\ m = Head(inbox)
    OBVIOUS
  <2> DEFINE target == {a \in apps : a.id = m.app}
  <2>1. /\ inbox # <<>> /\ m \in Message /\ q \in Seq(Message) /\ m.kind = "PidReply"
    BY <1>8, ConsumeType DEF HandlePidReply, Receive
  <2>2. /\ inbox' = q /\ nextId' = nextId /\ conn' = conn /\ waiting' = waiting
    BY <1>8 DEF HandlePidReply, Consume, clientVars
  <2>3. inbox[1] = m /\ 1 \in 1..Len(inbox)
    BY <2>1, TailElements DEF TypeOK
  <2>4. CASE ~m.ok
    <3>1. apps' = apps /\ wildWrite' = wildWrite
      BY <1>8, <2>4 DEF HandlePidReply, HasPid, PidTarget
    <3> QED
      BY <1>2, <1>4, <2>1, <2>2, <3>1 DEF PidInv, NoWildWrite
  <2>5. CASE m.ok
    <3>1. /\ apps' = (apps \ target) \cup {[a EXCEPT !.pid = m.name] : a \in target}
          /\ wildWrite' = (wildWrite \/ target = {})
      BY <1>8, <2>5 DEF HandlePidReply, HasPid, PidTarget
    <3>2. target # {} /\ \A a \in target : a.name = m.name
      BY <2>1, <2>3, <2>5 DEF PidInv, PidQueue, PidAwaited, PidMatches
    <3>3. \A a \in target :
            /\ [a EXCEPT !.pid = m.name].id = a.id
            /\ [a EXCEPT !.pid = m.name].name = a.name
            /\ [a EXCEPT !.pid = m.name].path = a.path
            /\ [a EXCEPT !.pid = m.name].pid = m.name
      BY DEF TypeOK, Application
    <3>4. /\ \A a \in apps' : \/ a \in apps
                             \/ \E b \in target : /\ a.id = b.id /\ a.name = b.name
                                                 /\ a.pid = m.name
          /\ \A b \in apps : \E a \in apps' : Same(a, b)
      BY <3>1, <3>3 DEF Same
    <3>5. PidIsOwn'
      BY <3>2, <3>4 DEF PidInv, PidIsOwn
    <3>6. PidQueue(q)
      BY <2>1, PidTail DEF PidInv, TypeOK
    <3>7. \A a \in apps' : a.id < nextId' /\ \E b \in apps : a.id = b.id /\ a.name = b.name
      BY <2>2, <3>4, <3>6 DEF PidQueue, PidMatches
    <3>8. \A i \in 1..Len(q) : q[i].kind = "Embed" => q[i].path \in waiting'[q[i].sender]
      BY <2>2, <3>6 DEF PidQueue, EmbedIsLast
    <3>9. nextId' \in Nat /\ nextId <= nextId'
      BY <2>2 DEF TypeOK
    <3>10. PidAwaited(q)'
      BY <2>1, <3>4, <3>6, AwaitedKept DEF PidQueue
    <3>11. PidQueue(q)'
      BY <2>1, <2>2, <3>6, <3>7, <3>8, <3>9, <3>10, PidStateKept
    <3> QED
      BY <2>2, <3>1, <3>2, <3>5, <3>11, PidUnsent DEF PidInv, NoWildWrite
  <2> QED
    BY <2>4, <2>5
<1>9. CASE \/ PingTimeout \/ PingApplications \/ PollMouse \/ DispatchDeviceCall
           \/ Deliver \/ UNCHANGED vars
           \/ \E c \in App : Hang(c) \/ Recover(c)
  <2>1. /\ inbox' = inbox /\ conn' = conn /\ waiting' = waiting /\ nextId' = nextId
        /\ wildWrite' = wildWrite
    BY <1>9 DEF PingTimeout, PingApplications, PollMouse, DispatchDeviceCall, Deliver, vars,
                Hang, Recover, registryVars, clientVars
  <2>2. SameApplications
    <3>1. CASE PingTimeout
      BY <3>1, AppPingKeeps DEF PingTimeout, SameApplications, Same
    <3>2. CASE PingApplications
      <4> DEFINE asked(a) == [a EXCEPT !.pending = 1 - round]
      <4>1. apps' = {asked(a) : a \in apps}
        BY <3>2 DEF PingApplications
      <4>2. \A a \in apps :
              Same(asked(a), a) /\ asked(a).pid = a.pid
        BY DEF TypeOK, Application, Same
      <4> QED
        BY <4>1, <4>2, ZenonT(40) DEF SameApplications, Same
    <3>3. CASE \/ PollMouse \/ DispatchDeviceCall \/ Deliver \/ UNCHANGED vars
               \/ \E c \in App : Hang(c) \/ Recover(c)
      BY <1>4, <3>3 DEF PollMouse, DispatchDeviceCall, Deliver, vars,
                          Hang, Recover, registryVars
    <3> QED
      BY <1>9, <3>1, <3>2, <3>3
  <2> QED
    BY <1>3, <2>1, <2>2 DEF PidInv, NoWildWrite
<1>10. ASSUME NEW c \in Client, Disconnect(c) PROVE PidInv'
  <2> PICK q, m : q = inbox /\ m = Gone(c)
    OBVIOUS
  <2>1. /\ inbox' = Append(q, m) /\ conn' = [conn EXCEPT ![c] = "gone"]
        /\ apps' = apps /\ nextId' = nextId /\ waiting' = waiting /\ wildWrite' = wildWrite
    BY <1>10 DEF Disconnect, Send, registryVars
  <2>2. m \in Message /\ m.kind = "NameOwnerChanged" /\ m.sender = c
    BY DEF Gone, Message
  <2>3. PidQueue(q) /\ q \in Seq(Message)
    BY DEF PidInv, TypeOK
  <2>4. \A d \in Client : conn[d] = "gone" => conn'[d] = "gone"
    BY <2>1 DEF TypeOK
  <2>5. conn'[m.sender] = "gone"
    BY <2>1, <2>2 DEF TypeOK
  <2>6. \A i \in 1..Len(q) : q[i].kind = "Embed" => q[i].path \in waiting'[q[i].sender]
    BY <1>1, <2>1
  <2>7. PidQueue(q)' /\ PidIsOwn'
    BY <1>4, <2>1, <2>3, <2>4, <2>6, PidSame DEF PidInv
  <2>8. PidQueue(inbox)'
    BY <2>1, <2>2, <2>3, <2>5, <2>7, PidAppend
  <2> QED
    BY <2>1, <2>7, <2>8 DEF PidInv, NoWildWrite
<1>11. ASSUME NEW c \in KeyClient, CallRegisterKeystrokeListener(c) PROVE PidInv'
  <2>1. [kind |-> "RegisterKeystrokeListener", sender |-> c] \in Message
    BY ClientAssumption DEF Message
  <2> QED
    BY <1>3, <1>4, <1>11, <2>1
    DEF CallRegisterKeystrokeListener, Send, registryVars, clientVars, PidInv, NoWildWrite
<1>12. ASSUME NEW c \in App, NEW p \in Path, CallUnembed(c, p) PROVE PidInv'
  <2>1. [kind |-> "Unembed", sender |-> c, path |-> p] \in Message /\ p \notin waiting[c]
    BY <1>12 DEF Message, CallUnembed, MaySend
  <2> QED
    BY <1>3, <1>4, <1>12, <2>1 DEF CallUnembed, Send, registryVars, PidInv, NoWildWrite
<1>13. ASSUME NEW c \in App, NEW p \in Path, CallEmbed(c, p) PROVE PidInv'
  <2> PICK q, m : q = inbox /\ m = [kind |-> "Embed", sender |-> c, path |-> p]
    OBVIOUS
  <2>1. /\ inbox' = Append(q, m) /\ conn' = conn /\ p \notin waiting[c]
        /\ apps' = apps /\ nextId' = nextId /\ waiting' = [waiting EXCEPT ![c] = @ \cup {p}]
        /\ wildWrite' = wildWrite
    BY <1>13 DEF CallEmbed, MaySend, Send, registryVars
  <2>2. m \in Message /\ m.kind = "Embed" /\ m.sender = c /\ m.path = p /\ c \in Client
    BY DEF Message, Client
  <2>3. PidQueue(q) /\ q \in Seq(Message)
    BY DEF PidInv, TypeOK
  <2>4. \A d \in Client : waiting[d] \subseteq waiting'[d]
    BY <2>1 DEF TypeOK
  <2>5. \A i \in 1..Len(q) : q[i].kind = "Embed" =>
          q[i].path \in waiting'[q[i].sender] /\ Root(q[i]) # Root(m)
    BY <1>1, <2>1, <2>2, <2>4 DEF Root
  <2>6. PidQueue(q)' /\ PidIsOwn'
    BY <1>4, <2>1, <2>3, <2>5, PidSame DEF PidInv
  <2>7. m.path \in waiting'[m.sender]
    BY <2>1, <2>2 DEF TypeOK
  <2>8. PidQueue(inbox)'
    BY <2>1, <2>2, <2>3, <2>5, <2>6, <2>7, PidAppend
  <2> QED
    BY <2>1, <2>6, <2>8 DEF PidInv, NoWildWrite
<1>14. ASSUME NEW c \in AT, NEW t \in EventType, NEW a \in App \cup {Empty},
              CallRegisterEvent(c, t, a) \/ CallDeregisterEvent(c, t, a)
       PROVE  PidInv'
  <2>1. \A k \in {"RegisterEvent", "DeregisterEvent"} :
          [kind |-> k, sender |-> c, type |-> t, app |-> a] \in Message
    BY DEF Message
  <2>2. /\ conn' = conn /\ waiting' = waiting /\ apps' = apps /\ nextId' = nextId
        /\ wildWrite' = wildWrite
    BY <1>14 DEF CallRegisterEvent, CallDeregisterEvent, registryVars, clientVars
  <2>3. PICK k \in {"RegisterEvent", "DeregisterEvent"} :
          inbox' = Append(inbox, [kind |-> k, sender |-> c, type |-> t, app |-> a])
    BY <1>14 DEF CallRegisterEvent, CallDeregisterEvent, Send
  <2> QED
    BY <1>3, <1>4, <2>1, <2>2, <2>3 DEF PidInv, NoWildWrite
<1>15. CASE AnswerPing
  <2>1. PICK p \in pings :
          inbox' = Append(inbox, [kind |-> "PingReply", app |-> p.app, round |-> p.round,
                                  ok |-> conn[p.name] = "on"])
    BY <1>15 DEF AnswerPing, Send
  <2>2. [kind |-> "PingReply", app |-> p.app, round |-> p.round,
         ok |-> conn[p.name] = "on"] \in Message
    BY DEF Message, TypeOK
  <2>3. /\ conn' = conn /\ waiting' = waiting /\ apps' = apps /\ nextId' = nextId
        /\ wildWrite' = wildWrite
    BY <1>15 DEF AnswerPing, clientVars
  <2> QED
    BY <1>3, <1>4, <2>1, <2>2, <2>3 DEF PidInv, NoWildWrite
<1> QED
  BY <1>5, <1>6, <1>7, <1>8, <1>9, <1>10, <1>11, <1>12, <1>13, <1>14, <1>15
  DEF Next, RegistryStep, ClientStep

\* set_app_pid never writes to an application that was freed, and the process
\* id it stores is that of the application's own connection: a client blocked
\* in Embed cannot have its application removed before the bus has answered.
THEOREM PidReachesItsApplication == Spec => [](NoWildWrite /\ PidIsOwn)
<1>1. Init => PidInv
  BY DEF Init, PidInv, PidQueue, GoneIsTrue, EmbedIsLast, PidAwaited, PidMatches,
         NoWildWrite, PidIsOwn
<1>2. PidInv => NoWildWrite /\ PidIsOwn
  BY DEF PidInv
<1> QED
  BY <1>1, <1>2, TypeCorrect, PidInductive, PTL DEF Spec
-----------------------------------------------------------------------------
(* Polling of the mouse *)

\* remove_events recomputes the need from the registrations it leaves.
LEMMA MouseAfterRemoval ==
  ASSUME TypeOK, MousePollMatchesEvents, NEW b, NEW t, NEW a, RemoveEvents(b, t, a)
  PROVE  MousePollMatchesEvents'
<1>1. /\ events' \subseteq events /\ pollers' = pollers
      /\ wantMouse' = (wantMouse /\ \E e \in events' : NeedsMousePoll(e.type))
  BY DEF RemoveEvents
<1>2. wantMouse' <=> \E e \in events' : NeedsMousePoll(e.type)
  BY <1>1 DEF MousePollMatchesEvents, TypeOK
<1>3. wantMouse' => pollers' > 0
  BY <1>1 DEF MousePollMatchesEvents, TypeOK
<1> QED
  BY <1>2, <1>3 DEF MousePollMatchesEvents

\* The mouse is polled exactly while a registration needs it, however the
\* registrations, their withdrawals and the losses of their owners interleave.
THEOREM MousePolling == Spec => []MousePollMatchesEvents
<1>1. Init => MousePollMatchesEvents
  BY DEF Init, MousePollMatchesEvents
<1>2. TypeOK /\ MousePollMatchesEvents /\ [Next]_vars => MousePollMatchesEvents'
  <2> SUFFICES ASSUME TypeOK, MousePollMatchesEvents, [Next]_vars
               PROVE  MousePollMatchesEvents'
    OBVIOUS
  <2>1. CASE UNCHANGED <<events, wantMouse, pollers>>
    BY <2>1 DEF MousePollMatchesEvents
  <2>2. CASE HandleNameOwnerChanged
    BY <2>2, MouseAfterRemoval DEF HandleNameOwnerChanged
  <2>3. CASE HandleDeregisterEvent
    BY <2>3, MouseAfterRemoval DEF HandleDeregisterEvent
  <2>4. CASE HandleRegisterEvent
    <3> PICK t : t = Head(inbox).type
      OBVIOUS
    <3>1. \E e \in events' : e.type = t /\ events' = events \cup {e}
      BY <2>4 DEF HandleRegisterEvent
    <3>2. CASE NeedsMousePoll(t)
      <4>1. wantMouse' = TRUE /\ pollers' = IF wantMouse THEN pollers ELSE pollers + 1
        BY <2>4, <3>2 DEF HandleRegisterEvent, StartPollMouse
      <4>2. pollers' > 0
        BY <4>1 DEF MousePollMatchesEvents, TypeOK
      <4>3. \E e \in events' : NeedsMousePoll(e.type)
        BY <3>1, <3>2
      <4> QED
        BY <4>1, <4>2, <4>3 DEF MousePollMatchesEvents
    <3>3. CASE ~NeedsMousePoll(t)
      <4>1. wantMouse' = wantMouse /\ pollers' = pollers
        BY <2>4, <3>3 DEF HandleRegisterEvent
      <4> QED
        BY <3>1, <3>3, <4>1 DEF MousePollMatchesEvents
    <3> QED
      BY <3>2, <3>3
  <2>5. CASE PollMouse
    BY <2>5, SMTT(40) DEF PollMouse, MousePollMatchesEvents
  <2>6. \/ UNCHANGED <<events, wantMouse, pollers>>
        \/ HandleNameOwnerChanged \/ HandleDeregisterEvent \/ HandleRegisterEvent
        \/ PollMouse
    BY DEF Next, RegistryStep, ClientStep, HandleEmbed, HandleUnembed, DispatchDeviceCall,
           HandleRegisterKeystrokeListener, HandlePidReply, HandlePingReply, PingTimeout,
           PingApplications, Disconnect, CallRegisterKeystrokeListener, Hang, Recover,
           CallEmbed, CallUnembed, CallRegisterEvent, CallDeregisterEvent, AnswerPing,
           Deliver, vars, registryVars, clientVars
  <2> QED
    BY <2>1, <2>2, <2>3, <2>4, <2>5, <2>6
<1> QED
  BY <1>1, <1>2, TypeCorrect, PTL DEF Spec
-----------------------------------------------------------------------------
(* A ping is resolved once *)

\* Message m answers the call of round r to the application with this id.
Answers(m, id, r) == m.kind = "PingReply" /\ m.app = id /\ m.round = r

\* With calls open, answers on their way in the queue q and the applications as:
\* there is no call twice, no answer twice and no answer to an open call, and what
\* an application waits for is open or on its way.
PingQueue(q, calls, as) ==
  /\ \A a, b \in as : a.id = b.id => a = b
  /\ \A p, o \in calls : p.app = o.app /\ p.round = o.round => p = o
  /\ \A i, j \in 1..Len(q) :
       q[j].kind = "PingReply" /\ Answers(q[i], q[j].app, q[j].round) => i = j
  /\ \A p \in calls, i \in 1..Len(q) : ~Answers(q[i], p.app, p.round)
  /\ \A a \in as : a.pending # NoRound =>
       \/ \E p \in calls : p.app = a.id /\ p.round = a.pending
       \/ \E i \in 1..Len(q) : Answers(q[i], a.id, a.pending)

PingInv == PingQueue(inbox, pings, apps)

\* No application of less waits for what none of as waits for.
WaitsLess(less, as) ==
  /\ \A a, b \in less : a.id = b.id => a = b
  /\ \A a \in less : a.pending = NoRound \/ \E b \in as : b.id = a.id /\ b.pending = a.pending

\* Fewer applications wait, for an answer other than the one that is taken.
LEMMA PingTail ==
  ASSUME NEW q \in Seq(Message), q # <<>>, NEW calls, NEW as, PingQueue(q, calls, as),
         NEW less, WaitsLess(less, as),
         \A a \in less : ~Answers(Head(q), a.id, a.pending)
  PROVE  PingQueue(Tail(q), calls, less)
<1>1. /\ Head(q) = q[1] /\ Len(Tail(q)) = Len(q) - 1 /\ Len(q) \in Nat \ {0}
      /\ \A i \in 1..Len(Tail(q)) : Tail(q)[i] = q[i + 1]
  BY TailElements
<1>2. \A i \in 1..Len(Tail(q)) : i + 1 \in 1..Len(q)
  BY <1>1
<1>3. \A i \in 2..Len(q) : i - 1 \in 1..Len(Tail(q)) /\ Tail(q)[i - 1] = q[i]
  BY <1>1
<1>4. ASSUME NEW i \in 1..Len(Tail(q)), NEW j \in 1..Len(Tail(q)),
             Answers(Tail(q)[i], Tail(q)[j].app, Tail(q)[j].round), Tail(q)[j].kind = "PingReply"
      PROVE  i = j
  <2>1. i + 1 = j + 1
    BY <1>1, <1>2, <1>4 DEF PingQueue
  <2> QED BY <2>1
<1>5. \A p \in calls, i \in 1..Len(Tail(q)) : ~Answers(Tail(q)[i], p.app, p.round)
  BY <1>1, <1>2 DEF PingQueue
<1>6. ASSUME NEW a \in less, a.pending # NoRound,
             ~ \E p \in calls : p.app = a.id /\ p.round = a.pending
      PROVE  \E i \in 1..Len(Tail(q)) : Answers(Tail(q)[i], a.id, a.pending)
  <2> PICK b \in as : b.id = a.id /\ b.pending = a.pending
    BY <1>6 DEF WaitsLess
  <2>1. PICK i \in 1..Len(q) : Answers(q[i], a.id, a.pending)
    BY <1>6 DEF PingQueue
  <2>2. i # 1
    BY <1>1, <2>1
  <2>3. i \in 2..Len(q)
    BY <1>1, <2>2
  <2> QED BY <1>3, <2>1, <2>3
<1> QED BY <1>4, <1>5, <1>6 DEF PingQueue, WaitsLess

\* Another message comes.
LEMMA PingAppend ==
  ASSUME NEW q \in Seq(Message), NEW m \in Message, m.kind # "PingReply",
         NEW calls, NEW as, PingQueue(q, calls, as)
  PROVE  PingQueue(Append(q, m), calls, as)
<1>1. /\ Len(Append(q, m)) = Len(q) + 1 /\ Len(q) \in Nat
      /\ \A i \in 1..Len(q) : Append(q, m)[i] = q[i]
      /\ Append(q, m)[Len(q) + 1] = m
  BY AppendElements
<1>2. \A i \in 1..Len(Append(q, m)) :
        Append(q, m)[i].kind = "PingReply" => i \in 1..Len(q) /\ Append(q, m)[i] = q[i]
  BY <1>1
<1>3. \A i \in 1..Len(q) : i \in 1..Len(Append(q, m))
  BY <1>1
<1>4. ASSUME NEW i \in 1..Len(Append(q, m)), NEW j \in 1..Len(Append(q, m)),
             Answers(Append(q, m)[i], Append(q, m)[j].app, Append(q, m)[j].round),
             Append(q, m)[j].kind = "PingReply"
      PROVE  i = j
  <2>1. /\ i \in 1..Len(q) /\ Append(q, m)[i] = q[i]
        /\ j \in 1..Len(q) /\ Append(q, m)[j] = q[j]
    BY <1>2, <1>4 DEF Answers
  <2> QED BY <1>4, <2>1 DEF PingQueue
<1>5. ASSUME NEW p \in calls, NEW i \in 1..Len(Append(q, m)),
             Answers(Append(q, m)[i], p.app, p.round)
      PROVE  FALSE
  <2>1. i \in 1..Len(q) /\ Append(q, m)[i] = q[i]
    BY <1>2, <1>5 DEF Answers
  <2> QED BY <1>5, <2>1 DEF PingQueue
<1>6. ASSUME NEW a \in as, NEW i \in 1..Len(q), Answers(q[i], a.id, a.pending)
      PROVE  \E j \in 1..Len(Append(q, m)) : Answers(Append(q, m)[j], a.id, a.pending)
  BY <1>1, <1>3, <1>6
<1> QED BY <1>4, <1>5, <1>6 DEF PingQueue

\* A call is completed by its answer, which is the only one.
LEMMA PingAnswered ==
  ASSUME NEW q \in Seq(Message), NEW m \in Message, m.kind = "PingReply",
         NEW calls, NEW as, PingQueue(q, calls, as),
         NEW p \in calls, m.app = p.app, m.round = p.round
  PROVE  PingQueue(Append(q, m), calls \ {p}, as)
<1>1. /\ Len(Append(q, m)) = Len(q) + 1 /\ Len(q) \in Nat
      /\ \A i \in 1..Len(q) : Append(q, m)[i] = q[i]
      /\ Append(q, m)[Len(q) + 1] = m
  BY AppendElements
<1>2. \A i \in 1..Len(Append(q, m)) :
        (i \in 1..Len(q) /\ Append(q, m)[i] = q[i]) \/ i = Len(q) + 1
  BY <1>1
<1>3. \A i \in 1..Len(q) : i \in 1..Len(Append(q, m))
  BY <1>1
<1>4. Len(q) + 1 \in 1..Len(Append(q, m))
  BY <1>1
<1>5. \A i \in 1..Len(q) : ~Answers(q[i], m.app, m.round)
  BY DEF PingQueue
<1>6. ASSUME NEW i \in 1..Len(Append(q, m)), NEW j \in 1..Len(Append(q, m)),
             Answers(Append(q, m)[i], Append(q, m)[j].app, Append(q, m)[j].round),
             Append(q, m)[j].kind = "PingReply"
      PROVE  i = j
  <2>1. CASE i \in 1..Len(q) /\ j \in 1..Len(q)
    BY <1>1, <1>6, <2>1 DEF PingQueue
  <2>2. CASE i \in 1..Len(q) /\ j = Len(q) + 1
    BY <1>1, <1>5, <1>6, <2>2
  <2>3. CASE i = Len(q) + 1 /\ j \in 1..Len(q)
    <3>1. Answers(q[j], m.app, m.round)
      BY <1>1, <1>6, <2>3 DEF Answers
    <3> QED BY <1>5, <2>3, <3>1
  <2> QED BY <1>2, <2>1, <2>2, <2>3
<1>7. ASSUME NEW o \in calls \ {p}, NEW i \in 1..Len(Append(q, m))
      PROVE  ~Answers(Append(q, m)[i], o.app, o.round)
  <2>1. ~(m.app = o.app /\ m.round = o.round)
    BY DEF PingQueue
  <2>2. i \in 1..Len(q) => ~Answers(q[i], o.app, o.round)
    BY DEF PingQueue
  <2> QED BY <1>1, <1>2, <2>1, <2>2 DEF Answers
<1>8. ASSUME NEW a \in as, a.pending # NoRound
      PROVE  \/ \E o \in calls \ {p} : o.app = a.id /\ o.round = a.pending
             \/ \E i \in 1..Len(Append(q, m)) : Answers(Append(q, m)[i], a.id, a.pending)
  <2>1. CASE p.app = a.id /\ p.round = a.pending
    BY <1>1, <1>4, <2>1 DEF Answers
  <2>2. CASE ~(p.app = a.id /\ p.round = a.pending)
    BY <1>1, <1>3, <1>8, <2>2 DEF PingQueue
  <2> QED BY <2>1, <2>2
<1>9. /\ \A a, b \in as : a.id = b.id => a = b
      /\ \A c, o \in calls \ {p} : c.app = o.app /\ c.round = o.round => c = o
  BY DEF PingQueue
<1> QED BY <1>6, <1>7, <1>8, <1>9 DEF PingQueue

\* A call is completed by its timeout.
LEMMA PingTimedOut ==
  ASSUME NEW q, NEW calls, NEW as, PingQueue(q, calls, as), NEW less, WaitsLess(less, as),
         NEW p \in calls, \A a \in less : ~(a.id = p.app /\ a.pending = p.round)
  PROVE  PingQueue(q, calls \ {p}, less)
<1>1. ASSUME NEW a \in less, a.pending # NoRound
      PROVE  \/ \E o \in calls \ {p} : o.app = a.id /\ o.round = a.pending
             \/ \E i \in 1..Len(q) : Answers(q[i], a.id, a.pending)
  <2> PICK b \in as : b.id = a.id /\ b.pending = a.pending
    BY <1>1 DEF WaitsLess
  <2> QED BY <1>1 DEF PingQueue
<1>2. /\ \A a, b \in less : a.id = b.id => a = b
      /\ \A c, o \in calls \ {p} : c.app = o.app /\ c.round = o.round => c = o
      /\ \A o \in calls \ {p}, i \in 1..Len(q) : ~Answers(q[i], o.app, o.round)
  BY DEF PingQueue, WaitsLess
<1>3. \A i, j \in 1..Len(q) :
        q[j].kind = "PingReply" /\ Answers(q[i], q[j].app, q[j].round) => i = j
  BY DEF PingQueue
<1> QED BY <1>1, <1>2, <1>3 DEF PingQueue

\* A new round, of which no call is open and no answer on its way.
LEMMA PingAsked ==
  ASSUME NEW q, NEW calls, NEW as \in SUBSET Application, PingQueue(q, calls, as),
         NEW r \in {0, 1}, \A p \in calls : p.round # r,
         \A i \in 1..Len(q) : q[i].kind = "PingReply" => q[i].round # r,
         NEW asked, asked = {[app |-> a.id, name |-> a.name, round |-> r] : a \in as},
         NEW after, after = {[a EXCEPT !.pending = r] : a \in as}
  PROVE  PingQueue(q, calls \cup asked, after)
<1>0. \A a, b \in as : a.id = b.id => a = b
  BY DEF PingQueue
<1>1. ASSUME NEW b \in after
      PROVE  \E a \in as : b = [a EXCEPT !.pending = r] /\ b.id = a.id /\ b.pending = r
  <2>1. PICK a \in as : b = [a EXCEPT !.pending = r]
    OBVIOUS
  <2>2. a \in Application
    OBVIOUS
  <2> QED BY <2>1, <2>2 DEF Application
<1>2. ASSUME NEW a \in after, NEW b \in after, a.id = b.id PROVE a = b
  <2>1. PICK c \in as : a = [c EXCEPT !.pending = r] /\ a.id = c.id
    BY <1>1
  <2>2. PICK d \in as : b = [d EXCEPT !.pending = r] /\ b.id = d.id
    BY <1>1
  <2>3. c = d
    BY <1>0, <1>2, <2>1, <2>2
  <2> QED BY <2>1, <2>2, <2>3
<1>3. ASSUME NEW p \in asked
      PROVE  \E a \in as : /\ p = [app |-> a.id, name |-> a.name, round |-> r]
                           /\ p.app = a.id /\ p.round = r
  <2>1. PICK a \in as : p = [app |-> a.id, name |-> a.name, round |-> r]
    OBVIOUS
  <2> QED BY <2>1
<1>4. ASSUME NEW a \in as
      PROVE  \E p \in asked : p.app = a.id /\ p.round = r
  <2> PICK p \in asked : p = [app |-> a.id, name |-> a.name, round |-> r]
    OBVIOUS
  <2> QED OBVIOUS
<1>5. ASSUME NEW p \in calls \cup asked, NEW o \in calls \cup asked,
             p.app = o.app, p.round = o.round
      PROVE  p = o
  <2>1. CASE p \in calls /\ o \in calls
    BY <1>5, <2>1 DEF PingQueue
  <2>2. CASE p \in asked /\ o \in asked
    <3>1. PICK a \in as : p = [app |-> a.id, name |-> a.name, round |-> r] /\ p.app = a.id
      BY <1>3, <2>2
    <3>2. PICK b \in as : o = [app |-> b.id, name |-> b.name, round |-> r] /\ o.app = b.id
      BY <1>3, <2>2
    <3>3. a = b
      BY <1>0, <1>5, <3>1, <3>2
    <3> QED BY <3>1, <3>2, <3>3
  <2>3. CASE p \in calls /\ o \in asked
    BY <1>3, <1>5, <2>3
  <2>4. CASE p \in asked /\ o \in calls
    BY <1>3, <1>5, <2>4
  <2> QED BY <2>1, <2>2, <2>3, <2>4
<1>6. ASSUME NEW p \in calls \cup asked, NEW i \in 1..Len(q)
      PROVE  ~Answers(q[i], p.app, p.round)
  <2>1. CASE p \in calls
    BY <2>1 DEF PingQueue
  <2>2. CASE p \in asked
    BY <1>3, <2>2 DEF Answers
  <2> QED BY <2>1, <2>2
<1>7. ASSUME NEW a \in after
      PROVE  \E p \in calls \cup asked : p.app = a.id /\ p.round = a.pending
  <2>1. PICK b \in as : a.id = b.id /\ a.pending = r
    BY <1>1
  <2>2. PICK p \in asked : p.app = b.id /\ p.round = r
    BY <1>4
  <2> QED BY <2>1, <2>2
<1>8. \A i, j \in 1..Len(q) :
        q[j].kind = "PingReply" /\ Answers(q[i], q[j].app, q[j].round) => i = j
  BY DEF PingQueue
<1> QED BY <1>2, <1>5, <1>6, <1>7, <1>8 DEF PingQueue

\* An answered ping: the application that waits for it waits no more, and no other
\* one is changed.
LEMMA AppPingWaits ==
  ASSUME TypeOK, PingInv, NEW id, NEW r \in {0, 1}, NEW ok \in BOOLEAN, AppPing(id, r, ok)
  PROVE  /\ WaitsLess(apps', apps)
         /\ \A a \in apps' : ~(a.id = id /\ a.pending = r)
<1> DEFINE hit == {a \in apps : a.id = id /\ a.pending = r}
<1>1. apps' = (apps \ hit) \cup {Resolved(a, ok) : a \in hit}
  BY DEF AppPing
<1>2. \A a \in apps : /\ a \in Application /\ Resolved(a, ok).id = a.id
                      /\ Resolved(a, ok).pending = NoRound
  BY DEF TypeOK, Resolved, Application
<1>3. \A a, b \in apps : a.id = b.id => a = b
  BY DEF PingInv, PingQueue
<1>4. NoRound \notin {0, 1}
  BY DEF NoRound
<1>5. \A a \in apps' : \/ a \in apps /\ a \notin hit
                       \/ \E b \in hit : a = Resolved(b, ok) /\ a.id = b.id /\ a.pending = NoRound
  BY <1>1, <1>2
<1> HIDE DEF hit
<1>6. hit \subseteq apps
  BY DEF hit
<1>7. \A a, b \in apps' : a.id = b.id => a = b
  BY <1>3, <1>5, <1>6
<1>8. \A a \in apps' : ~(a.id = id /\ a.pending = r)
  BY <1>4, <1>5 DEF hit
<1>9. WaitsLess(apps', apps)
  BY <1>5, <1>7 DEF WaitsLess
<1> QED BY <1>8, <1>9

LEMMA PingInductive == TypeOK /\ PidInv /\ PingInv /\ [Next]_vars => PingInv'
<1> SUFFICES ASSUME TypeOK, PidInv, PingInv, [Next]_vars PROVE PingInv'
  OBVIOUS
<1>1. /\ PingQueue(inbox, pings, apps) /\ inbox \in Seq(Message)
      /\ apps \subseteq Application /\ NoRound \notin {0, 1}
  BY DEF PingInv, TypeOK, NoRound
<1>2. \A a, b \in apps : a.id = b.id => a = b
  BY <1>1 DEF PingQueue
<1>3. \A less \in SUBSET apps : WaitsLess(less, apps)
  BY <1>2 DEF WaitsLess
\* Taking a message other than an answer to a ping.
<1>4. ASSUME inbox # <<>>, Head(inbox).kind # "PingReply", inbox' = Tail(inbox),
             pings' = pings, WaitsLess(apps', apps)
      PROVE  PingInv'
  <2>1. \A a \in apps' : ~Answers(Head(inbox), a.id, a.pending)
    BY <1>4 DEF Answers
  <2>2. PingQueue(Tail(inbox), pings, apps')
    BY <1>1, <1>4, <2>1, PingTail
  <2> QED BY <1>4, <2>2 DEF PingInv, PingQueue
\* Sending another message than that, or none.
<1>5. ASSUME \/ inbox' = inbox
             \/ \E m \in Message : m.kind # "PingReply" /\ inbox' = Append(inbox, m),
             pings' = pings, apps' = apps
      PROVE  PingInv'
  <2>1. CASE inbox' = inbox
    BY <1>5, <2>1 DEF PingInv, PingQueue
  <2>2. ASSUME NEW m \in Message, m.kind # "PingReply", inbox' = Append(inbox, m)
        PROVE  PingInv'
    <3>1. PingQueue(Append(inbox, m), pings, apps)
      BY <1>1, <2>2, PingAppend
    <3> QED BY <1>5, <2>2, <3>1 DEF PingInv, PingQueue
  <2> QED BY <1>5, <2>1, <2>2
<1>6. CASE HandleEmbed
  <2> PICK m, reply, new :
        /\ m = Head(inbox)
        /\ reply = [kind |-> "PidReply", app |-> nextId, name |-> m.sender,
                    ok |-> conn[m.sender] = "on"]
        /\ new = [id |-> nextId, name |-> m.sender, path |-> m.path,
                  disabled |-> FALSE, pending |-> NoRound, pid |-> Null]
    OBVIOUS
  <2>1. /\ inbox # <<>> /\ m.kind = "Embed" /\ m \in Message /\ m.sender \in App
        /\ Tail(inbox) \in Seq(Message)
    BY <1>6, ConsumeType, MessageFields DEF HandleEmbed, Receive
  <2>2. /\ apps' = apps \cup {new} /\ inbox' = Append(Tail(inbox), reply) /\ pings' = pings
    BY <1>6 DEF HandleEmbed
  <2>3. reply \in Message /\ reply.kind = "PidReply"
    BY <2>1 DEF Message, TypeOK
  <2>4. new.id = nextId /\ new.pending = NoRound
    OBVIOUS
  <2>5. \A a \in apps : a.id < nextId /\ a.id \in Nat
    BY <1>1 DEF PidInv, PidQueue, PidMatches, Application
  <2>6. WaitsLess(apps', apps)
    <3>1. \A a \in apps : a.id # new.id
      BY <2>4, <2>5 DEF TypeOK
    <3>2. ASSUME NEW a \in apps', NEW b \in apps', a.id = b.id PROVE a = b
      <4>1. CASE a \in apps /\ b \in apps
        BY <1>2, <3>2, <4>1
      <4>2. CASE a = new \/ b = new
        BY <2>2, <3>1, <3>2, <4>2
      <4> QED BY <2>2, <4>1, <4>2
    <3> QED BY <2>2, <2>4, <3>2 DEF WaitsLess
  <2>7. \A a \in apps' : ~Answers(Head(inbox), a.id, a.pending)
    BY <2>1 DEF Answers
  <2>8. PingQueue(Tail(inbox), pings, apps')
    BY <1>1, <2>1, <2>6, <2>7, PingTail
  <2>9. PingQueue(Append(Tail(inbox), reply), pings, apps')
    BY <2>1, <2>3, <2>8, PingAppend
  <2> QED BY <2>2, <2>9 DEF PingInv, PingQueue
<1>7. CASE HandleUnembed \/ HandleNameOwnerChanged
  <2>1. /\ inbox # <<>> /\ Head(inbox).kind # "PingReply" /\ inbox' = Tail(inbox)
        /\ pings' = pings /\ apps' \in SUBSET apps
    BY <1>7 DEF HandleUnembed, HandleNameOwnerChanged, Receive, Consume, RemoveApplications
  <2> QED BY <1>3, <1>4, <2>1
<1>8. CASE HandleRegisterEvent \/ HandleDeregisterEvent \/ HandleRegisterKeystrokeListener
  <2>1. /\ inbox # <<>> /\ Head(inbox).kind # "PingReply" /\ inbox' = Tail(inbox)
        /\ pings' = pings /\ apps' = apps
    BY <1>8 DEF HandleRegisterEvent, HandleDeregisterEvent, HandleRegisterKeystrokeListener,
                Receive, Consume
  <2> QED BY <1>3, <1>4, <2>1
<1>9. CASE HandlePidReply
  <2> DEFINE m == Head(inbox)
             target == PidTarget(m)
  <2>1. /\ inbox # <<>> /\ m.kind # "PingReply" /\ inbox' = Tail(inbox) /\ pings' = pings
        /\ \/ apps' = apps
           \/ apps' = (apps \ target) \cup {[a EXCEPT !.pid = m.name] : a \in target}
    BY <1>9 DEF HandlePidReply, Receive, Consume
  <2>2. target \subseteq apps
    BY DEF PidTarget
  <2> HIDE DEF m, target
  <2>3. ASSUME apps' = (apps \ target) \cup {[a EXCEPT !.pid = m.name] : a \in target}
        PROVE  WaitsLess(apps', apps)
    <3>1. \A a \in apps' : \/ a \in apps \ target
                           \/ \E b \in target : /\ a = [b EXCEPT !.pid = m.name]
                                                /\ a.id = b.id /\ a.pending = b.pending
      BY <1>1, <2>2, <2>3 DEF Application
    <3>2. \A a, b \in apps' : a.id = b.id => a = b
      BY <1>2, <2>2, <3>1
    <3> QED BY <2>2, <3>1, <3>2 DEF WaitsLess
  <2>4. WaitsLess(apps', apps)
    BY <1>3, <2>1, <2>3
  <2> QED BY <1>4, <2>1, <2>4 DEF m
<1>10. CASE HandlePingReply
  <2> DEFINE m == Head(inbox)
  <2>1. /\ inbox # <<>> /\ m.kind = "PingReply" /\ inbox' = Tail(inbox) /\ pings' = pings
        /\ AppPing(m.app, m.round, m.ok) /\ m \in Message
    BY <1>1, <1>10, TailElements DEF HandlePingReply, Receive, Consume
  <2>2. m.round \in {0, 1} /\ m.ok \in BOOLEAN
    BY <2>1, MessageFields
  <2> HIDE DEF m
  <2>3. WaitsLess(apps', apps) /\ \A a \in apps' : ~Answers(m, a.id, a.pending)
    BY <2>1, <2>2, AppPingWaits DEF Answers
  <2>4. PingQueue(Tail(inbox), pings, apps')
    BY <1>1, <2>1, <2>3, PingTail DEF m
  <2> QED BY <2>1, <2>4 DEF PingInv, PingQueue
<1>11. CASE PingTimeout
  <2>1. PICK p \in pings : pings' = pings \ {p} /\ AppPing(p.app, p.round, FALSE)
    BY <1>11 DEF PingTimeout
  <2>2. p.round \in {0, 1} /\ inbox' = inbox
    BY <1>11 DEF TypeOK, PingTimeout
  <2>3. WaitsLess(apps', apps) /\ \A a \in apps' : ~(a.id = p.app /\ a.pending = p.round)
    BY <2>1, <2>2, AppPingWaits
  <2>4. PingQueue(inbox, pings \ {p}, apps')
    BY <1>1, <2>3, PingTimedOut
  <2> QED BY <2>1, <2>2, <2>4 DEF PingInv, PingQueue
<1>12. CASE PingApplications
  <2> DEFINE r == 1 - round
  <2> PICK asked, after :
        /\ asked = {[app |-> a.id, name |-> a.name, round |-> r] : a \in apps}
        /\ after = {[a EXCEPT !.pending = r] : a \in apps}
    OBVIOUS
  <2>1. /\ \A p \in pings : p.round # r
        /\ \A i \in DOMAIN inbox : inbox[i].kind = "PingReply" => inbox[i].round # r
        /\ pings' = pings \cup asked /\ apps' = after /\ inbox' = inbox
    BY <1>12 DEF PingApplications
  <2>2. r \in {0, 1} /\ DOMAIN inbox = 1..Len(inbox)
    BY <1>1 DEF TypeOK
  <2> HIDE DEF r
  <2>3. apps \in SUBSET Application
    BY <1>1
  <2>4. PingQueue(inbox, pings \cup asked, after)
    BY <1>1, <2>1, <2>2, <2>3, PingAsked
  <2>5. PingQueue(inbox', pings', apps')
    BY <2>1, <2>4
  <2> QED BY <2>5 DEF PingInv, PingQueue
<1>13. CASE AnswerPing
  <2> DEFINE Reply(p) == [kind |-> "PingReply", app |-> p.app, round |-> p.round,
                          ok |-> conn[p.name] = "on"]
  <2>0. PICK p \in pings :
          inbox' = Append(inbox, Reply(p)) /\ pings' = pings \ {p} /\ apps' = apps
    BY <1>13 DEF AnswerPing, Send
  <2>1. PICK m : m = Reply(p) /\ inbox' = Append(inbox, m)
    BY <2>0
  <2>2. m \in Message /\ m.kind = "PingReply" /\ m.app = p.app /\ m.round = p.round
    BY <2>1 DEF Message, TypeOK
  <2>3. PingQueue(Append(inbox, m), pings \ {p}, apps)
    BY <1>1, <2>2, PingAnswered
  <2> HIDE DEF Reply
  <2> QED BY <2>0, <2>1, <2>3 DEF PingInv, PingQueue
<1>14. CASE \/ DispatchDeviceCall \/ PollMouse \/ Deliver \/ UNCHANGED vars
            \/ \E c \in App : Hang(c) \/ Recover(c)
  <2>1. inbox' = inbox /\ pings' = pings /\ apps' = apps
    BY <1>14 DEF DispatchDeviceCall, PollMouse, Deliver, vars, registryVars, Hang, Recover
  <2> QED BY <1>5, <2>1
<1>15. ASSUME NEW c \in Client, Disconnect(c) PROVE PingInv'
  <2>1. inbox' = Append(inbox, Gone(c)) /\ pings' = pings /\ apps' = apps
    BY <1>15 DEF Disconnect, Send, registryVars
  <2>2. Gone(c) \in Message /\ Gone(c).kind # "PingReply"
    BY DEF Gone, Message
  <2> QED BY <1>5, <2>1, <2>2
<1>16. ASSUME NEW c \in KeyClient, CallRegisterKeystrokeListener(c) PROVE PingInv'
  <2>1. PICK m : /\ m = [kind |-> "RegisterKeystrokeListener", sender |-> c]
                 /\ inbox' = Append(inbox, m) /\ pings' = pings /\ apps' = apps
    BY <1>16 DEF CallRegisterKeystrokeListener, Send, registryVars
  <2>2. m \in Message /\ m.kind # "PingReply"
    BY <2>1, ClientAssumption DEF Message
  <2> QED BY <1>5, <2>1, <2>2
<1>17. ASSUME NEW c \in App, NEW p \in Path, CallEmbed(c, p) \/ CallUnembed(c, p)
       PROVE  PingInv'
  <2>1. PICK m : /\ m \in {[kind |-> "Embed", sender |-> c, path |-> p],
                           [kind |-> "Unembed", sender |-> c, path |-> p]}
                 /\ inbox' = Append(inbox, m) /\ pings' = pings /\ apps' = apps
    BY <1>17 DEF CallEmbed, CallUnembed, Send, registryVars
  <2>2. m \in Message /\ m.kind # "PingReply"
    BY <2>1 DEF Message
  <2> QED BY <1>5, <2>1, <2>2
<1>18. ASSUME NEW c \in AT, NEW t \in EventType, NEW a \in App \cup {Empty},
              CallRegisterEvent(c, t, a) \/ CallDeregisterEvent(c, t, a)
       PROVE  PingInv'
  <2>1. PICK m : /\ m \in {[kind |-> "RegisterEvent", sender |-> c, type |-> t, app |-> a],
                           [kind |-> "DeregisterEvent", sender |-> c, type |-> t, app |-> a]}
                 /\ inbox' = Append(inbox, m) /\ pings' = pings /\ apps' = apps
    BY <1>18 DEF CallRegisterEvent, CallDeregisterEvent, Send, registryVars
  <2>2. m \in Message /\ m.kind # "PingReply"
    BY <2>1 DEF Message
  <2> QED BY <1>5, <2>1, <2>2
<1> QED
  BY <1>6, <1>7, <1>8, <1>9, <1>10, <1>11, <1>12, <1>13, <1>14, <1>15, <1>16, <1>17, <1>18
  DEF Next, RegistryStep, ClientStep

\* Sets of at most one element each, of which one at least and one at most has any.
LEMMA OneInAll ==
  ASSUME NEW S, NEW T, \A x, y \in S : x = y, \A x, y \in T : x = y,
         S = {} <=> T # {}
  PROVE  Cardinality(S) + Cardinality(T) = 1
<1>1. \A x : Cardinality({x}) = 1
  BY FS_Singleton
<1>2. Cardinality({}) = 0
  BY FS_EmptySet
<1>3. CASE S = {}
  <2>1. PICK x : x \in T
    BY <1>3
  <2>2. T = {x}
    BY <2>1
  <2> QED BY <1>1, <1>2, <1>3, <2>2
<1>4. CASE S # {}
  <2>1. PICK x : x \in S
    BY <1>4
  <2>2. S = {x}
    BY <2>1
  <2>3. T = {}
    BY <1>4
  <2> QED BY <1>1, <1>2, <2>2, <2>3
<1> QED BY <1>3, <1>4

\* A ping an application waits for is resolved exactly once, however answers,
\* timeouts, rounds and disconnections interleave: its call is open or its one
\* answer is on its way.
THEOREM PingsAreResolvedOnce == Spec => []PingResolvedOnce
<1>1. Init => PingInv
  BY DEF Init, PingInv, PingQueue
<1>2. TypeOK /\ PingInv => PingResolvedOnce
  <2> SUFFICES ASSUME TypeOK, PingInv, NEW a \in apps, a.pending # NoRound
               PROVE  Cardinality({p \in pings : p.app = a.id /\ p.round = a.pending})
                      + Cardinality({i \in DOMAIN inbox : /\ inbox[i].kind = "PingReply"
                                                          /\ inbox[i].app = a.id
                                                          /\ inbox[i].round = a.pending}) = 1
    BY DEF PingResolvedOnce
  <2> DEFINE S == {p \in pings : p.app = a.id /\ p.round = a.pending}
             T == {i \in DOMAIN inbox : /\ inbox[i].kind = "PingReply" /\ inbox[i].app = a.id
                                        /\ inbox[i].round = a.pending}
  <2>1. DOMAIN inbox = 1..Len(inbox)
    BY DEF TypeOK
  <2>2. \A p, o \in S : p = o
    BY DEF PingInv, PingQueue
  <2>3. \A i, j \in T : i = j
    BY <2>1 DEF PingInv, PingQueue, Answers
  <2>4. S # {} => T = {}
    BY <2>1 DEF PingInv, PingQueue, Answers
  <2>5. S # {} \/ T # {}
    BY <2>1 DEF PingInv, PingQueue, Answers
  <2> HIDE DEF S, T
  <2>6. Cardinality(S) + Cardinality(T) = 1
    BY <2>2, <2>3, <2>4, <2>5, OneInAll
  <2> QED BY <2>6 DEF S, T
<1>3. Init => PidInv
  BY DEF Init, PidInv, PidQueue, GoneIsTrue, EmbedIsLast, PidAwaited, PidMatches,
         NoWildWrite, PidIsOwn
<1> QED
  BY <1>1, <1>2, <1>3, TypeCorrect, PidInductive, PingInductive, PTL DEF Spec
-----------------------------------------------------------------------------
(* The places of numbers in a set of them *)

Below(I, n) == {m \in I : m < n}
Rank(I, n) == Cardinality(Below(I, n))

\* A finite set of numbers, the ids of applications.
IsIds(I) == I \subseteq Nat /\ IsFiniteSet(I)

LEMMA RankType ==
  ASSUME NEW I, IsIds(I), NEW n \in Nat
  PROVE  /\ IsFiniteSet(Below(I, n)) /\ Rank(I, n) \in Nat /\ Cardinality(I) \in Nat
         /\ Rank(I, n) <= Cardinality(I)
         /\ n \in I => Rank(I, n) < Cardinality(I)
<1>1. Below(I, n) \in SUBSET I
  BY DEF Below
<1>2. /\ IsFiniteSet(Below(I, n)) /\ Rank(I, n) <= Cardinality(I)
      /\ Cardinality(I) = Rank(I, n) => I = Below(I, n)
  BY <1>1, FS_Subset DEF Rank, IsIds
<1>3. Rank(I, n) \in Nat /\ Cardinality(I) \in Nat
  BY <1>2, FS_CardinalityType DEF Rank, IsIds
<1>4. n \in I => I # Below(I, n)
  BY DEF Below
<1> QED BY <1>2, <1>3, <1>4

\* One more is below a larger number.
LEMMA RankLess ==
  ASSUME NEW I, IsIds(I), NEW m \in I, NEW n \in Nat, m < n
  PROVE  Rank(I, m) + 1 <= Rank(I, n)
<1>1. m \in Nat /\ m \notin Below(I, m)
  BY DEF IsIds, Below
<1>2. IsFiniteSet(Below(I, m)) /\ IsFiniteSet(Below(I, n))
  BY <1>1, RankType
<1>3. Cardinality(Below(I, m) \cup {m}) = Rank(I, m) + 1
  BY <1>1, <1>2, FS_AddElement DEF Rank
<1>4. Below(I, m) \cup {m} \in SUBSET Below(I, n)
  <2>1. \A x \in I : x < m => x < n
    BY <1>1 DEF IsIds
  <2> QED BY <2>1 DEF Below
<1>5. Cardinality(Below(I, m) \cup {m}) <= Rank(I, n)
  BY <1>2, <1>4, FS_Subset DEF Rank
<1> QED BY <1>3, <1>5

LEMMA RankNotMore ==
  ASSUME NEW I, IsIds(I), NEW m \in Nat, NEW n \in Nat, m <= n
  PROVE  Rank(I, m) <= Rank(I, n)
<1>1. \A x \in I : x < m => x < n
  BY DEF IsIds
<1>2. Below(I, m) \in SUBSET Below(I, n)
  BY <1>1 DEF Below
<1>3. IsFiniteSet(Below(I, n))
  BY RankType
<1> QED BY <1>2, <1>3, FS_Subset DEF Rank

LEMMA RankTells ==
  ASSUME NEW I, IsIds(I), NEW m \in I, NEW n \in I, Rank(I, m) = Rank(I, n)
  PROVE  m = n
<1>1. m \in Nat /\ n \in Nat /\ Rank(I, m) \in Nat /\ Rank(I, n) \in Nat
  BY RankType DEF IsIds
<1>2. ~(m < n)
  BY <1>1, RankLess
<1>3. ~(n < m)
  BY <1>1, RankLess
<1> QED BY <1>1, <1>2, <1>3

\* Each place is taken.
LEMMA RankOnto ==
  ASSUME NEW I, IsIds(I), NEW i \in 1..Cardinality(I)
  PROVE  \E n \in I : Rank(I, n) + 1 = i
<1> DEFINE T == 1..Cardinality(I)
           f == [n \in I |-> Rank(I, n) + 1]
<1>1. Cardinality(I) \in Nat /\ IsFiniteSet(I)
  BY FS_CardinalityType DEF IsIds
<1>2. \A n \in I : Rank(I, n) + 1 \in T
  <2> SUFFICES ASSUME NEW n \in I PROVE Rank(I, n) + 1 \in T
    OBVIOUS
  <2>1. n \in Nat
    BY DEF IsIds
  <2>2. Rank(I, n) \in Nat /\ Rank(I, n) < Cardinality(I)
    BY <2>1, RankType
  <2> QED BY <1>1, <2>2
<1>3. \A m, n \in I : f[m] = f[n] => m = n
  <2> SUFFICES ASSUME NEW m \in I, NEW n \in I, f[m] = f[n] PROVE m = n
    OBVIOUS
  <2>1. Rank(I, m) \in Nat /\ Rank(I, n) \in Nat
    BY RankType DEF IsIds
  <2>2. Rank(I, m) = Rank(I, n)
    BY <2>1
  <2> QED BY <2>2, RankTells
<1>4. f \in Injection(I, T)
  <2>1. f \in [I -> T]
    BY <1>2
  <2>2. IsInjective(f)
    BY <1>3 DEF IsInjective
  <2> QED BY <2>1, <2>2 DEF Injection
<1>5. IsFiniteSet(T) /\ Cardinality(T) = Cardinality(I)
  BY <1>1, FS_Interval
<1>6. f \in Surjection(I, T)
  <2> HIDE DEF f, T
  <2> QED BY <1>4, <1>5, FS_Injection
<1> QED BY <1>6 DEF Surjection

\* A number comes in.
LEMMA RankAdded ==
  ASSUME NEW I, IsIds(I), NEW k \in Nat, k \notin I
  PROVE  /\ IsIds(I \cup {k}) /\ Cardinality(I \cup {k}) = Cardinality(I) + 1
         /\ \A n \in Nat : Rank(I \cup {k}, n) = IF k < n THEN Rank(I, n) + 1 ELSE Rank(I, n)
<1>1. IsIds(I \cup {k}) /\ Cardinality(I \cup {k}) = Cardinality(I) + 1
  BY FS_AddElement DEF IsIds
<1>2. ASSUME NEW n \in Nat
      PROVE  Rank(I \cup {k}, n) = IF k < n THEN Rank(I, n) + 1 ELSE Rank(I, n)
  <2>1. CASE k < n
    <3>1. Below(I \cup {k}, n) = Below(I, n) \cup {k} /\ k \notin Below(I, n)
      BY <2>1 DEF Below
    <3>2. IsFiniteSet(Below(I, n))
      BY RankType
    <3> QED BY <2>1, <3>1, <3>2, FS_AddElement DEF Rank
  <2>2. CASE ~(k < n)
    <3>1. Below(I \cup {k}, n) = Below(I, n)
      BY <2>2 DEF Below
    <3> QED BY <2>2, <3>1 DEF Rank
  <2> QED BY <2>1, <2>2
<1> QED BY <1>1, <1>2

\* And out.
LEMMA RankRemoved ==
  ASSUME NEW I, IsIds(I), NEW k \in I
  PROVE  /\ IsIds(I \ {k}) /\ Cardinality(I) = Cardinality(I \ {k}) + 1
         /\ \A n \in Nat : Rank(I, n) = IF k < n THEN Rank(I \ {k}, n) + 1 ELSE Rank(I \ {k}, n)
<1> DEFINE J == I \ {k}
<1>1. IsIds(J) /\ k \in Nat /\ k \notin J /\ I = J \cup {k}
  BY FS_RemoveElement DEF IsIds
<1> HIDE DEF J
<1>2. /\ Cardinality(I) = Cardinality(J) + 1
      /\ \A n \in Nat : Rank(I, n) = IF k < n THEN Rank(J, n) + 1 ELSE Rank(J, n)
  BY <1>1, RankAdded
<1> QED BY <1>1, <1>2 DEF J
-----------------------------------------------------------------------------
(* Lists, place by place *)

\* A set of numbers has a least one.
LEMMA Least ==
  ASSUME NEW I \in SUBSET Nat, I # {}
  PROVE  \E m \in I : \A j \in I : m <= j
<1>1. \E m \in I : \A j \in I : ~ (<<j, m>> \in OpToRel(<, Nat))
  BY NatLessThanWellFounded, WFMin
<1>2. PICK m \in I : \A j \in I : ~ (<<j, m>> \in OpToRel(<, Nat))
  BY <1>1
<1>3. \A i, j \in Nat : j < i => <<j, i>> \in OpToRel(<, Nat)
  BY DEF OpToRel
<1>4. \A j \in I : ~ (j < m)
  BY <1>2, <1>3
<1> QED BY <1>4

\* What holds before the loop and is kept by each turn holds after each.
LEMMA UpTo ==
  ASSUME NEW K \in Nat, NEW P, 0 \in P, \A n \in 1..K : n - 1 \in P => n \in P
  PROVE  0..K \subseteq P
<1> DEFINE I == {n \in 0..K : n \notin P}
<1>1. CASE I = {}
  BY <1>1
<1>2. CASE I # {}
  <2>1. I \in SUBSET Nat
    OBVIOUS
  <2> HIDE DEF I
  <2>2. PICK m \in I : \A j \in I : m <= j
    BY <1>2, <2>1, Least
  <2>3. m \in 0..K /\ m \notin P /\ m # 0
    BY DEF I
  <2>4. m - 1 \in 0..K /\ m \in 1..K /\ ~(m <= m - 1)
    BY <2>3
  <2>5. m - 1 \in P
    BY <2>2, <2>4 DEF I
  <2> QED BY <2>3, <2>4, <2>5
<1> QED BY <1>1, <1>2

\* An element is put into a list.
LEMMA InsertAtPlaces ==
  ASSUME NEW S, NEW s \in Seq(S), NEW e \in S, NEW i \in 1..(Len(s) + 1)
  PROVE  /\ InsertAt(s, i, e) \in Seq(S) /\ Len(InsertAt(s, i, e)) = Len(s) + 1
         /\ \A k \in 1..(i - 1) : InsertAt(s, i, e)[k] = s[k]
         /\ InsertAt(s, i, e)[i] = e
         /\ \A k \in (i + 1)..(Len(s) + 1) : InsertAt(s, i, e)[k] = s[k - 1]
<1> DEFINE a == SubSeq(s, 1, i - 1)
           b == SubSeq(s, i, Len(s))
           t == a \o <<e>> \o b
<1>1. /\ a \in Seq(S) /\ Len(a) = i - 1
      /\ \A k \in 1..(i - 1) : a[k] = s[k]
  OBVIOUS
<1>2. /\ b \in Seq(S) /\ Len(b) = Len(s) - i + 1
      /\ \A k \in 1..(Len(s) - i + 1) : b[k] = s[i + k - 1]
  OBVIOUS
<1>3. InsertAt(s, i, e) = t
  BY DEF InsertAt
<1> HIDE DEF a, b
<1>4. /\ t \in Seq(S) /\ Len(t) = Len(s) + 1
      /\ \A k \in 1..(i - 1) : t[k] = s[k]
      /\ t[i] = e
      /\ \A k \in (i + 1)..(Len(s) + 1) : t[k] = s[k - 1]
  <2> DEFINE c == <<e>> \o b
  <2>1. /\ c \in Seq(S) /\ Len(c) = Len(s) - i + 2 /\ c[1] = e
        /\ \A k \in 2..(Len(s) - i + 2) : c[k] = b[k - 1]
    BY <1>2
  <2>2. t = a \o c
    BY <1>1, <1>2, SMTT(40)
  <2> HIDE DEF c, t
  <2>3. t \in Seq(S) /\ Len(t) = Len(s) + 1
    BY <1>1, <2>1, <2>2
  <2>4. ASSUME NEW k \in 1..(i - 1) PROVE t[k] = s[k]
    BY <1>1, <2>1, <2>2, <2>4
  <2>5. t[i] = e
    BY <1>1, <2>1, <2>2
  <2>6. ASSUME NEW k \in (i + 1)..(Len(s) + 1) PROVE t[k] = s[k - 1]
    <3>4. k - i + 1 \in 2..(Len(s) - i + 2) /\ k - (i - 1) = k - i + 1 /\ ~(k <= i - 1)
      BY <2>6
    <3>1. t[k] = c[k - i + 1] /\ k - i + 1 \in 2..(Len(s) - i + 2)
      BY <1>1, <2>1, <2>2, <2>3, <2>6, <3>4
    <3>3. c[k - i + 1] = b[k - i]
      BY <2>1, <3>1
    <3>2. k - i \in 1..(Len(s) - i + 1) /\ i + (k - i) - 1 = k - 1
      BY <2>6
    <3> QED BY <1>2, <3>1, <3>2, <3>3
  <2> QED BY <2>3, <2>4, <2>5, <2>6
<1> QED BY <1>3, <1>4

\* Where the i-th element of a list was before the p-th was taken out.
Skip(p, i) == IF i < p THEN i ELSE i + 1

\* One is taken out.
LEMMA RemoveAtElements ==
  ASSUME NEW S, NEW s \in Seq(S), NEW p \in 1..Len(s)
  PROVE  /\ RemoveAt(s, p) \in Seq(S)
         /\ Len(RemoveAt(s, p)) = Len(s) - 1
         /\ \A i \in 1..(Len(s) - 1) : RemoveAt(s, p)[i] = s[Skip(p, i)]
<1> DEFINE a == SubSeq(s, 1, p - 1)
           b == SubSeq(s, p + 1, Len(s))
<1>1. /\ a \in Seq(S) /\ Len(a) = p - 1
      /\ \A i \in 1..(p - 1) : a[i] = s[i]
  OBVIOUS
<1>2. /\ b \in Seq(S) /\ Len(b) = Len(s) - p
      /\ \A i \in 1..(Len(s) - p) : b[i] = s[p + i]
  OBVIOUS
<1>3. RemoveAt(s, p) = a \o b
  BY DEF RemoveAt
<1> HIDE DEF a, b
<1>4. a \o b \in Seq(S) /\ Len(a \o b) = Len(s) - 1
  <2>1. a \in Seq(S) /\ b \in Seq(S) /\ Len(a) = p - 1 /\ Len(b) = Len(s) - p
    BY <1>1, <1>2
  <2> QED BY ONLY <2>1, p \in 1..Len(s), s \in Seq(S)
<1>5. ASSUME NEW i \in 1..(Len(s) - 1) PROVE (a \o b)[i] = s[Skip(p, i)]
  <2>1. CASE i < p
    BY <1>1, <1>2, <2>1 DEF Skip
  <2>2. CASE ~(i < p)
    <3>1. (a \o b)[i] = b[i - (p - 1)]
      BY <1>1, <1>2, <2>2
    <3>2. i - (p - 1) \in 1..(Len(s) - p) /\ p + (i - (p - 1)) = i + 1
      BY <2>2
    <3> QED BY <1>2, <2>2, <3>1, <3>2 DEF Skip
  <2> QED BY <2>1, <2>2
<1> QED BY <1>3, <1>4, <1>5

\* RemoveFirst takes out one element, or there is none to take out.
LEMMA RemoveFirstIs ==
  ASSUME NEW S, NEW s \in Seq(S), NEW x
  PROVE  \/ RemoveFirst(s, x) = s /\ ~Contains(s, x)
         \/ \E p \in 1..Len(s) : RemoveFirst(s, x) = RemoveAt(s, p) /\ s[p] = x
<1>1. CASE ~ \E i \in 1..Len(s) : s[i] = x
  BY <1>1 DEF RemoveFirst, Contains
<1>2. CASE \E i \in 1..Len(s) : s[i] = x
  <2> DEFINE I == {i \in 1..Len(s) : s[i] = x}
             p == CHOOSE i \in I : \A j \in I : i <= j
  <2>1. I \in SUBSET Nat /\ I # {}
    BY <1>2
  <2>2. p \in I
    <3> HIDE DEF I
    <3>1. \E i \in I : \A j \in I : i <= j
      BY <2>1, Least
    <3> QED BY <3>1
  <2>3. RemoveFirst(s, x) = RemoveAt(s, p)
    <3>1. SelectInSeq(s, LAMBDA v : v = x) = p
      BY <2>1 DEF SelectInSeq, Min
    <3> QED BY <1>2, <3>1 DEF RemoveFirst
  <2>4. p \in 1..Len(s) /\ s[p] = x
    BY <2>2
  <2> QED BY <2>3, <2>4
<1> QED BY <1>1, <1>2
-----------------------------------------------------------------------------
(* The list of some applications, each with an id and a root of its own *)

Ids(xs) == {a.id : a \in xs}
Child == App \X Path

AreApart(xs) ==
  /\ xs \subseteq Application /\ IsIds(Ids(xs))
  /\ \A a, b \in xs : a.id = b.id \/ Ref(a) = Ref(b) => a = b

\* The list has the applications by their ids.
Lists(w, xs) ==
  /\ w \in Seq(Child) /\ Len(w) = Cardinality(Ids(xs))
  /\ \A a \in xs : w[Rank(Ids(xs), a.id) + 1] = Ref(a)

LEMMA ApartFields ==
  ASSUME NEW xs, AreApart(xs), NEW a \in xs
  PROVE  a.id \in Nat /\ a.id \in Ids(xs) /\ Ref(a) \in Child
BY DEF AreApart, Ids, Application, Ref, Child

LEMMA SomeApart ==
  ASSUME NEW xs, AreApart(xs), NEW bs \in SUBSET xs
  PROVE  AreApart(bs) /\ Ids(bs) \subseteq Ids(xs)
<1>1. Ids(bs) \in SUBSET Ids(xs)
  BY DEF Ids
<1>2. IsIds(Ids(bs))
  BY <1>1, FS_Subset DEF AreApart, IsIds
<1> QED BY <1>1, <1>2 DEF AreApart

\* There are xs many xs they have ids.
LEMMA AsManyIds ==
  ASSUME NEW xs, AreApart(xs)
  PROVE  Cardinality(xs) = Cardinality(Ids(xs))
<1> DEFINE I == Ids(xs)
           f == [n \in I |-> CHOOSE a \in xs : a.id = n]
<1>1. \A n \in I : f[n] \in xs /\ f[n].id = n
  BY DEF Ids
<1>3. f \in [I -> xs]
  <2>1. \A n \in I : (CHOOSE a \in xs : a.id = n) \in xs
    BY <1>1
  <2> QED BY <2>1
<1>2. \A a \in xs : a.id \in I /\ f[a.id] = a
  <2> SUFFICES ASSUME NEW a \in xs PROVE a.id \in I /\ f[a.id] = a
    OBVIOUS
  <2>1. a.id \in I
    BY DEF Ids
  <2>2. f[a.id] \in xs /\ f[a.id].id = a.id
    BY <1>1, <2>1
  <2> QED BY <2>1, <2>2 DEF AreApart
<1> HIDE DEF f, I
<1>5. \A m, n \in I : f[m] = f[n] => m = n
  BY <1>1
<1>6. \A a \in xs : \E n \in I : f[n] = a
  BY <1>2
<1>7. DOMAIN f = I
  BY <1>3
<1>8. f \in Bijection(I, xs)
  BY <1>3, <1>5, <1>6, <1>7 DEF Bijection, Injection, Surjection, IsInjective
<1>9. IsFiniteSet(I) /\ ExistsBijection(I, xs)
  BY <1>8 DEF ExistsBijection, AreApart, IsIds, I
<1> QED BY <1>9, FS_Bijection DEF I

LEMMA PlaceIs ==
  ASSUME NEW xs, AreApart(xs), NEW a, a.id \in Nat
  PROVE  Place(xs, a) = Rank(Ids(xs), a.id)
<1> DEFINE bs == {b \in xs : b.id < a.id}
<1>1. AreApart(bs)
  BY SomeApart
<1>2. Ids(bs) = Below(Ids(xs), a.id)
  BY DEF Ids, Below
<1>3. Place(xs, a) = Cardinality(bs)
  BY DEF Place
<1> HIDE DEF bs
<1> QED BY <1>1, <1>2, <1>3, AsManyIds DEF Rank

\* The elements of an array in their order.
LEMMA InOrderIs ==
  ASSUME NEW xs, AreApart(xs)
  PROVE  /\ InOrder(xs) \in Seq(xs) /\ Len(InOrder(xs)) = Cardinality(Ids(xs))
         /\ \A a \in xs : InOrder(xs)[Rank(Ids(xs), a.id) + 1] = a
<1> DEFINE I == Ids(xs)
           K == Cardinality(I)
           s == InOrder(xs)
<1>1. K \in Nat /\ Cardinality(xs) = K /\ IsIds(I)
  BY AsManyIds, FS_CardinalityType DEF AreApart, IsIds
<1>2. s = [i \in 1..K |-> CHOOSE a \in xs : Place(xs, a) = i - 1]
  BY <1>1 DEF InOrder
<1>3. \A a \in xs : a.id \in I /\ a.id \in Nat /\ Place(xs, a) = Rank(I, a.id)
  BY ApartFields, PlaceIs
<1>4. ASSUME NEW i \in 1..K PROVE s[i] \in xs /\ Rank(I, s[i].id) = i - 1
  <2>1. PICK n \in I : Rank(I, n) + 1 = i
    BY <1>1, RankOnto
  <2>2. PICK a \in xs : a.id = n
    BY DEF Ids
  <2>3. Rank(I, n) \in Nat
    BY <1>1, <1>3, <2>2, RankType
  <2>4. Place(xs, a) = i - 1
    <3>1. Place(xs, a) = Rank(I, n)
      BY <1>3, <2>2
    <3> HIDE DEF I
    <3> QED BY <2>1, <2>3, <3>1
  <2> DEFINE b == CHOOSE c \in xs : Place(xs, c) = i - 1
  <2>5. b \in xs /\ Place(xs, b) = i - 1
    BY <2>4
  <2>6. s[i] = b
    BY <1>2
  <2> HIDE DEF b, s, I
  <2> QED BY <1>3, <2>5, <2>6
<1>5. s \in Seq(xs) /\ Len(s) = K
  <2> DEFINE c(i) == CHOOSE a \in xs : Place(xs, a) = i - 1
  <2>1. \A i \in 1..K : c(i) \in xs
    BY <1>2, <1>4
  <2>2. s = [i \in 1..K |-> c(i)]
    BY <1>2
  <2> HIDE DEF I, K, s, c
  <2> QED BY <1>1, <2>1, <2>2
<1>6. ASSUME NEW a \in xs PROVE s[Rank(I, a.id) + 1] = a
  <2> DEFINE i == Rank(I, a.id) + 1
  <2>1. Rank(I, a.id) \in Nat /\ Rank(I, a.id) < K
    BY <1>1, <1>3, RankType
  <2>2. i \in 1..K /\ i - 1 = Rank(I, a.id)
    <3> HIDE DEF I, K
    <3> QED BY <1>1, <2>1
  <2>3. s[i] \in xs /\ Rank(I, s[i].id) = Rank(I, a.id)
    BY <1>4, <2>2
  <2>4. s[i].id = a.id
    BY <1>1, <1>3, <2>3, RankTells
  <2> QED BY <2>3, <2>4 DEF AreApart
<1> QED BY <1>5, <1>6

\* Each child on the list is that of an application.
IsAt(w, xs, i) == \E a \in xs : i = Rank(Ids(xs), a.id) + 1 /\ w[i] = Ref(a)
LEMMA ListHas ==
  ASSUME NEW xs, AreApart(xs), NEW w, Lists(w, xs), NEW i \in 1..Len(w)
  PROVE  IsAt(w, xs, i)
<1>1. IsIds(Ids(xs)) /\ i \in 1..Cardinality(Ids(xs))
  BY DEF AreApart, Lists
<1>2. PICK n \in Ids(xs) : Rank(Ids(xs), n) + 1 = i
  BY <1>1, RankOnto
<1>3. PICK a \in xs : a.id = n
  BY DEF Ids
<1> QED BY <1>2, <1>3 DEF Lists, IsAt

\* There is one list only.
LEMMA OneList ==
  ASSUME NEW xs, AreApart(xs), NEW v, NEW w, Lists(v, xs), Lists(w, xs)
  PROVE  v = w
<1>1. v \in Seq(Child) /\ w \in Seq(Child) /\ Len(v) = Len(w)
  BY DEF Lists
<1>2. ASSUME NEW i \in 1..Len(v) PROVE v[i] = w[i]
  <2>0. IsAt(v, xs, i)
    BY <1>2, ListHas, Zenon
  <2>1. PICK a \in xs : i = Rank(Ids(xs), a.id) + 1 /\ v[i] = Ref(a)
    BY <2>0 DEF IsAt
  <2> QED BY <2>1 DEF Lists
<1> QED BY <1>1, <1>2

\* What lists some applications lists others with their ids and roots.
LEMMA SameList ==
  ASSUME NEW xs, NEW bs, NEW w, Lists(w, xs), Ids(bs) = Ids(xs),
         \A b \in bs : \E a \in xs : a.id = b.id /\ Ref(a) = Ref(b)
  PROVE  Lists(w, bs)
BY DEF Lists

\* GetChildren has the list.
LEMMA AskedIsListed ==
  ASSUME NEW xs, AreApart(xs), NEW w, w = [i \in DOMAIN InOrder(xs) |-> Ref(InOrder(xs)[i])]
  PROVE  Lists(w, xs)
<1> DEFINE s == InOrder(xs)
           K == Cardinality(Ids(xs))
<1>1. /\ s \in Seq(xs) /\ Len(s) = K
      /\ \A a \in xs : s[Rank(Ids(xs), a.id) + 1] = a
  BY InOrderIs
<1>2. w = [i \in DOMAIN s |-> Ref(s[i])]
  OBVIOUS
<1> HIDE DEF s
<1>3. \A i \in 1..Len(s) : Ref(s[i]) \in Child
  <2>1. \A i \in 1..Len(s) : s[i] \in xs
    BY ONLY <1>1
  <2> QED BY <2>1, ApartFields
<1>4. w \in Seq(Child) /\ Len(w) = K /\ \A i \in 1..K : w[i] = Ref(s[i])
  <2> DEFINE r(i) == Ref(s[i])
  <2>1. w = [i \in 1..Len(s) |-> r(i)] /\ \A i \in 1..Len(s) : r(i) \in Child
    BY <1>1, <1>2, <1>3
  <2>2. Len(s) = K /\ K \in Nat
    BY ONLY <1>1
  <2> HIDE DEF r, K
  <2>3. w \in Seq(Child) /\ Len(w) = K /\ \A i \in 1..K : w[i] = r(i)
    BY ONLY <2>1, <2>2
  <2> QED BY <2>3 DEF r
<1>5. ASSUME NEW a \in xs PROVE w[Rank(Ids(xs), a.id) + 1] = Ref(a)
  <2> DEFINE i == Rank(Ids(xs), a.id) + 1
  <2>1. a.id \in Nat /\ a.id \in Ids(xs) /\ IsIds(Ids(xs))
    BY ApartFields DEF AreApart
  <2>2. i \in 1..K
    <3>1. Rank(Ids(xs), a.id) \in Nat /\ Rank(Ids(xs), a.id) < K /\ K \in Nat
      BY <2>1, RankType
    <3> HIDE DEF K
    <3> QED BY ONLY <3>1 DEF i
  <2> QED BY <1>1, <1>4, <2>2
<1> QED BY <1>4, <1>5 DEF Lists

\* A list is not Null.
LEMMA ListIsNotNull ==
  ASSUME NEW xs, NEW w, Lists(w, xs)
  PROVE  w # Null /\ w \in Seq(Child)
BY NullAssumption DEF Lists, Child

\* What is not in the array is not on the list, and what is is there once.
LEMMA IsOnList ==
  ASSUME NEW xs, NEW a, AreApart(xs \cup {a}), NEW w, Lists(w, xs),
         NEW p \in 1..Len(w), w[p] = Ref(a)
  PROVE  a \in xs /\ p = Rank(Ids(xs), a.id) + 1
<1>1. AreApart(xs)
  <2>1. xs \in SUBSET (xs \cup {a})
    OBVIOUS
  <2> QED BY <2>1, SomeApart
<1>2. IsAt(w, xs, p)
  BY <1>1, ListHas, Zenon
<1>3. PICK b \in xs : p = Rank(Ids(xs), b.id) + 1 /\ w[p] = Ref(b)
  BY <1>2 DEF IsAt
<1>4. a = b
  BY <1>3 DEF AreApart
<1> QED BY <1>3, <1>4

\* The list v is w with e put in at n.
HasInserted(v, w, n, e) ==
  /\ v \in Seq(Child) /\ Len(v) = Len(w) + 1
  /\ v[n] = e
  /\ \A i \in 1..(Len(w) + 1) : /\ i < n => v[i] = w[i]
                                /\ n < i => v[i] = w[i - 1]

LEMMA InsertedIs ==
  ASSUME NEW w \in Seq(Child), NEW e \in Child, NEW n \in 1..(Len(w) + 1)
  PROVE  HasInserted(InsertAt(w, n, e), w, n, e)
<1>1. /\ InsertAt(w, n, e) \in Seq(Child) /\ Len(InsertAt(w, n, e)) = Len(w) + 1
      /\ \A i \in 1..(n - 1) : InsertAt(w, n, e)[i] = w[i]
      /\ InsertAt(w, n, e)[n] = e
      /\ \A i \in (n + 1)..(Len(w) + 1) : InsertAt(w, n, e)[i] = w[i - 1]
  BY InsertAtPlaces
<1>2. \A i \in 1..(Len(w) + 1) : /\ i < n => i \in 1..(n - 1)
                                 /\ n < i => i \in (n + 1)..(Len(w) + 1)
  OBVIOUS
<1> HIDE DEF InsertAt
<1> QED BY <1>1, <1>2 DEF HasInserted

\* An application is added.
LEMMA ListsMore ==
  ASSUME NEW xs, NEW a, a \notin xs, AreApart(xs \cup {a}), NEW w, Lists(w, xs),
         NEW s, s.kind = "add", s.ref = Ref(a), s.index = Rank(Ids(xs), a.id)
  PROVE  Lists(Process(w, s), xs \cup {a})
<1> DEFINE I == Ids(xs)
           k == Rank(I, a.id)
           L == Len(w)
           r == Ref(a)
           v == InsertAt(w, k + 1, r)
<1>1. /\ AreApart(xs) /\ a.id \in Nat /\ a.id \notin I /\ r \in Child
      /\ Ids(xs \cup {a}) = I \cup {a.id}
  <2>1. xs \in SUBSET (xs \cup {a}) /\ a \in xs \cup {a}
    OBVIOUS
  <2>2. AreApart(xs) /\ a.id \in Nat /\ r \in Child
    BY <2>1, SomeApart, ApartFields
  <2>3. a.id \notin I
    BY <2>1 DEF AreApart, Ids
  <2>4. Ids(xs \cup {a}) = I \cup {a.id}
    BY DEF Ids
  <2> QED BY <2>2, <2>3, <2>4
<1>2. /\ w \in Seq(Child) /\ L = Cardinality(I)
      /\ \A b \in xs : w[Rank(I, b.id) + 1] = Ref(b)
  BY DEF Lists
<1>3. IsIds(I) /\ \A b \in xs : b.id \in I /\ b.id \in Nat
  <2>1. \A b \in xs : b.id \in I /\ b.id \in Nat
    BY <1>1, ApartFields
  <2> QED BY <1>1, <2>1 DEF AreApart
<1>4. k \in Nat /\ k <= L /\ L \in Nat
  BY <1>1, <1>2, <1>3, RankType
<1>5. RemoveFirst(w, r) = w
  <2>1. ~ \E p \in 1..Len(w) : w[p] = r
    BY IsOnList
  <2> QED BY <1>2, <2>1, RemoveFirstIs
<1>6. Process(w, s) = v
  <2>1. w # Null
    BY ListIsNotNull
  <2> QED BY <1>4, <1>5, <2>1 DEF Process
<1> HIDE DEF k, r, v, L
<1>7. /\ v \in Seq(Child) /\ Len(v) = L + 1
      /\ \A i \in 1..k : v[i] = w[i]
      /\ v[k + 1] = r
      /\ \A i \in (k + 2)..(L + 1) : v[i] = w[i - 1]
  <2>1. k + 1 \in 1..(Len(w) + 1)
    BY <1>4 DEF L
  <2>2. v = InsertAt(w, k + 1, r) /\ r \in Child
    BY <1>1 DEF v, r
  <2>3. HasInserted(InsertAt(w, k + 1, r), w, k + 1, r)
    BY <1>2, <2>1, <2>2, InsertedIs, Zenon
  <2>4. HasInserted(v, w, k + 1, r)
    BY <2>2, <2>3
  <2>5. v \in Seq(Child) /\ Len(v) = L + 1 /\ v[k + 1] = r
    BY <2>4 DEF HasInserted, L
  <2>6. ASSUME NEW i \in 1..k PROVE v[i] = w[i]
    <3>1. i \in 1..(Len(w) + 1) /\ i < k + 1
      BY <1>4, <2>6 DEF L
    <3> QED BY <2>4, <3>1 DEF HasInserted
  <2>7. ASSUME NEW i \in (k + 2)..(L + 1) PROVE v[i] = w[i - 1]
    <3>1. i \in 1..(Len(w) + 1) /\ k + 1 < i
      BY <1>4, <2>7 DEF L
    <3> QED BY <2>4, <3>1 DEF HasInserted
  <2> QED BY <2>5, <2>6, <2>7
<1>8. /\ Cardinality(I \cup {a.id}) = L + 1
      /\ \A n \in Nat : Rank(I \cup {a.id}, n) = IF a.id < n THEN Rank(I, n) + 1 ELSE Rank(I, n)
  BY <1>1, <1>2, <1>3, RankAdded
<1>9. ASSUME NEW b \in xs PROVE v[Rank(I \cup {a.id}, b.id) + 1] = Ref(b)
  <2> DEFINE j == Rank(I, b.id)
  <2>1. /\ b.id \in I /\ b.id \in Nat /\ a.id # b.id
        /\ j \in Nat /\ j < L /\ w[j + 1] = Ref(b)
    BY <1>1, <1>2, <1>3, RankType
  <2>2. CASE a.id < b.id
    <3>1. k <= j
      BY <1>1, <1>3, <2>1, <2>2, RankNotMore DEF k
    <3>2. Rank(I \cup {a.id}, b.id) = j + 1
      BY <1>8, <2>1, <2>2
    <3> HIDE DEF j
    <3>3. j + 2 \in (k + 2)..(L + 1) /\ j + 1 + 1 = j + 2 /\ j + 2 - 1 = j + 1
      BY <1>4, <2>1, <3>1
    <3> QED BY <1>7, <2>1, <3>2, <3>3
  <2>3. CASE ~(a.id < b.id)
    <3>0. b.id < a.id
      BY <1>1, <2>1, <2>3
    <3>1. j + 1 <= k
      BY <1>1, <1>3, <2>1, <3>0, RankLess DEF k
    <3>2. Rank(I \cup {a.id}, b.id) = j
      BY <1>8, <2>1, <2>3
    <3> HIDE DEF j
    <3>3. j + 1 \in 1..k
      BY <1>4, <2>1, <3>1
    <3> QED BY <1>7, <2>1, <3>2, <3>3
  <2> QED BY <2>2, <2>3
<1>10. v[Rank(I \cup {a.id}, a.id) + 1] = Ref(a)
  <2>1. Rank(I \cup {a.id}, a.id) = k
    <3>1. ~(a.id < a.id)
      BY <1>1
    <3> QED BY <1>1, <1>8, <3>1 DEF k
  <2> QED BY <1>7, <2>1 DEF r
<1> HIDE DEF I
<1> QED BY <1>1, <1>6, <1>7, <1>8, <1>9, <1>10 DEF Lists

\* One is removed, that may not have been on the list.
LEMMA ListsLess ==
  ASSUME NEW xs, NEW a, AreApart(xs \cup {a}), NEW w, Lists(w, xs),
         NEW s, s.kind = "remove", s.ref = Ref(a)
  PROVE  Lists(Process(w, s), xs \ {a})
<1> DEFINE r == Ref(a)
<1>1. Process(w, s) = RemoveFirst(w, r) /\ w \in Seq(Child)
  BY ListIsNotNull DEF Process
<1>2. CASE a \notin xs
  <2>1. ~ \E p \in 1..Len(w) : w[p] = r
    BY <1>2, IsOnList
  <2>2. RemoveFirst(w, r) = w
    BY <1>1, <2>1, RemoveFirstIs
  <2>3. xs \ {a} = xs
    BY <1>2
  <2> QED BY <1>1, <2>2, <2>3
<1>3. CASE a \in xs
  <2> DEFINE I == Ids(xs)
             J == Ids(xs \ {a})
             k == Rank(I, a.id)
             L == Len(w)
             v == RemoveAt(w, k + 1)
  <2>1. AreApart(xs) /\ a.id \in Nat /\ a.id \in I /\ IsIds(I) /\ J = I \ {a.id}
    <3>1. xs \in SUBSET (xs \cup {a})
      OBVIOUS
    <3>2. AreApart(xs)
      BY <3>1, SomeApart
    <3>3. a.id \in Nat /\ a.id \in I /\ IsIds(I)
      BY <1>3, <3>2, ApartFields DEF AreApart
    <3>4. J = I \ {a.id}
      BY <1>3, <3>2 DEF AreApart, Ids
    <3> QED BY <3>2, <3>3, <3>4
  <2>2. L = Cardinality(I) /\ \A b \in xs : w[Rank(I, b.id) + 1] = Ref(b)
    BY DEF Lists
  <2>3. k \in Nat /\ k < L /\ L \in Nat
    BY <2>1, <2>2, RankType
  <2>4. k + 1 \in 1..L /\ w[k + 1] = r
    BY <1>3, <2>2, <2>3
  <2>5. RemoveFirst(w, r) = v
    <3>1. Contains(w, r)
      BY <2>4 DEF Contains
    <3>2. PICK p \in 1..Len(w) : RemoveFirst(w, r) = RemoveAt(w, p) /\ w[p] = r
      BY <1>1, <3>1, RemoveFirstIs
    <3>3. p = k + 1
      BY <3>2, IsOnList
    <3> QED BY <3>2, <3>3
  <2> HIDE DEF r, v, L
  <2>6. /\ v \in Seq(Child) /\ Len(v) = L - 1
        /\ \A i \in 1..(L - 1) : v[i] = w[Skip(k + 1, i)]
    BY <1>1, <2>4, RemoveAtElements DEF L, v
  <2>7. /\ Cardinality(I) = Cardinality(J) + 1
        /\ \A n \in Nat : Rank(I, n) = IF a.id < n THEN Rank(J, n) + 1 ELSE Rank(J, n)
    <3>1. J = I \ {a.id} /\ IsIds(I) /\ a.id \in I
      BY <2>1
    <3> HIDE DEF I, J
    <3>2. /\ Cardinality(I) = Cardinality(I \ {a.id}) + 1
          /\ \A n \in Nat : Rank(I, n) = IF a.id < n THEN Rank(I \ {a.id}, n) + 1
                                                     ELSE Rank(I \ {a.id}, n)
      BY <3>1, RankRemoved
    <3> QED BY <3>1, <3>2
  <2>8. IsIds(J) /\ Cardinality(J) \in Nat
    <3>1. J \in SUBSET I
      BY <2>1
    <3> QED BY <2>1, <3>1, FS_Subset, FS_CardinalityType DEF IsIds
  <2>9. ASSUME NEW b \in xs \ {a} PROVE v[Rank(J, b.id) + 1] = Ref(b)
    <3> DEFINE i == Rank(I, b.id)
               j == Rank(J, b.id)
    <3>1. b.id \in Nat /\ b.id \in I /\ b.id \in J /\ b.id # a.id
      <4>1. b.id \in Nat /\ b.id \in I
        BY <2>1, ApartFields
      <4>2. b.id \in J
        BY DEF Ids
      <4> QED BY <2>1, <4>1, <4>2
    <3>2. /\ i \in Nat /\ j \in Nat /\ j < Cardinality(J)
          /\ w[i + 1] = Ref(b)
      BY <2>1, <2>2, <2>8, <3>1, RankType
    <3>3. i = IF a.id < b.id THEN j + 1 ELSE j
      BY <2>7, <3>1
    <3>4. a.id < b.id => k + 1 <= i
      BY <2>1, <3>1, RankLess
    <3>5. ~(a.id < b.id) => i + 1 <= k
      <4>1. ~(a.id < b.id) => b.id < a.id
        BY <2>1, <3>1
      <4> QED BY <2>1, <3>1, <4>1, RankLess
    <3> HIDE DEF i, j, k
    <3>6. j + 1 \in 1..(L - 1)
      BY <2>2, <2>3, <2>7, <2>8, <3>2
    <3>7. Skip(k + 1, j + 1) = i + 1
      BY <2>3, <3>2, <3>3, <3>4, <3>5 DEF Skip
    <3> QED BY <2>6, <3>2, <3>6, <3>7 DEF j
  <2>10. Len(v) = Cardinality(J)
    BY <2>2, <2>3, <2>6, <2>7, <2>8
  <2> HIDE DEF I
  <2> QED BY <1>1, <2>5, <2>6, <2>9, <2>10 DEF Lists
<1> QED BY <1>2, <1>3
-----------------------------------------------------------------------------
(* What becomes of a list once the signals ss are processed in order *)

\* Some sequence.
IsQueue(ss) == \E S : ss \in Seq(S)

IsRun(f, ss, v) == f = [n \in 0..Len(ss) |-> IF n = 0 THEN v ELSE Process(f[n - 1], ss[n])]
Leads(ss, v, w) == \E f : IsRun(f, ss, v) /\ f[Len(ss)] = w

LEMMA QueueAppend ==
  ASSUME NEW q, IsQueue(q), NEW m
  PROVE  /\ IsQueue(Append(q, m)) /\ Len(q) \in Nat
         /\ Len(Append(q, m)) = Len(q) + 1
         /\ \A i \in 1..Len(q) : Append(q, m)[i] = q[i]
         /\ Append(q, m)[Len(q) + 1] = m
<1>1. PICK S : q \in Seq(S)
  BY DEF IsQueue
<1>2. q \in Seq(S \cup {m}) /\ m \in S \cup {m}
  BY <1>1
<1>3. Append(q, m) \in Seq(S \cup {m})
  BY <1>2
<1> QED BY <1>2, <1>3 DEF IsQueue

LEMMA LeadsNowhere ==
  ASSUME NEW v
  PROVE  Leads(<<>>, v, v)
<1> DEFINE f == [n \in 0..0 |-> v]
<1>1. f = [n \in 0..0 |-> IF n = 0 THEN v ELSE Process(f[n - 1], <<>>[n])]
  OBVIOUS
<1>2. Len(<<>>) = 0 /\ f[0] = v
  OBVIOUS
<1> HIDE DEF f
<1> QED BY <1>1, <1>2 DEF Leads, IsRun

\* What a run is, place by place.
LEMMA RunPlaces ==
  ASSUME NEW f, NEW ss, Len(ss) \in Nat, NEW v, IsRun(f, ss, v)
  PROVE  f[0] = v /\ \A n \in 1..Len(ss) : f[n] = Process(f[n - 1], ss[n])
<1>1. f = [n \in 0..Len(ss) |-> IF n = 0 THEN v ELSE Process(f[n - 1], ss[n])]
  BY DEF IsRun
<1>2. f[0] = v
  BY <1>1
<1>3. ASSUME NEW n \in 1..Len(ss) PROVE f[n] = Process(f[n - 1], ss[n])
  BY <1>1
<1> QED BY <1>2, <1>3

\* One more signal comes.
LEMMA LeadsMore ==
  ASSUME NEW q, IsQueue(q), NEW v, NEW w, Leads(q, v, w), NEW m
  PROVE  Leads(Append(q, m), v, Process(w, m))
<1> DEFINE K == Len(q)
           t == Append(q, m)
           x == Process(w, m)
<1>1. PICK f : IsRun(f, q, v) /\ f[K] = w
  BY DEF Leads
<1>2. /\ K \in Nat /\ Len(t) = K + 1 /\ t[K + 1] = m
      /\ \A n \in 1..K : t[n] = q[n]
  BY QueueAppend
<1>3. f[0] = v /\ \A n \in 1..K : f[n] = Process(f[n - 1], q[n])
  BY <1>1, <1>2, RunPlaces
<1> HIDE DEF K, t, x
<1> DEFINE g == [n \in 0..(K + 1) |-> IF n = K + 1 THEN x ELSE f[n]]
           next(n) == IF n = 0 THEN v ELSE Process(g[n - 1], t[n])
<1>4. g[K + 1] = x /\ \A n \in 0..K : g[n] = f[n]
  BY <1>2
<1>5. g = [n \in 0..(K + 1) |-> g[n]]
  OBVIOUS
<1> HIDE DEF g
<1>6. ASSUME NEW n \in 0..(K + 1) PROVE g[n] = next(n)
  <2>1. CASE n = 0
    BY <1>2, <1>3, <1>4, <2>1
  <2>2. CASE n \in 1..K
    <3>1. n \in 0..K /\ n - 1 \in 0..K /\ n # 0
      BY <1>2, <2>2
    <3> QED BY <1>2, <1>3, <1>4, <2>2, <3>1
  <2>3. CASE n = K + 1
    <3>1. n - 1 = K /\ n # 0 /\ K \in 0..K
      BY <1>2, <2>3
    <3> QED BY <1>1, <1>2, <1>4, <2>3, <3>1 DEF x
  <2> QED BY <1>2, <2>1, <2>2, <2>3
<1>7. g = [n \in 0..(K + 1) |-> next(n)]
  <2> HIDE DEF next
  <2> QED BY <1>5, <1>6
<1>8. IsRun(g, t, v)
  BY <1>2, <1>7 DEF IsRun
<1>9. g[Len(t)] = x
  BY <1>2, <1>4
<1> QED BY <1>8, <1>9 DEF Leads, t, x

\* The first signal is processed.
LEMMA LeadsLess ==
  ASSUME NEW q, IsQueue(q), q # <<>>, NEW v, NEW w, Leads(q, v, w)
  PROVE  IsQueue(Tail(q)) /\ Leads(Tail(q), Process(v, Head(q)), w)
<1> DEFINE K == Len(q) - 1
           t == Tail(q)
           u == Process(v, Head(q))
<1>0. PICK S : q \in Seq(S)
  BY DEF IsQueue
<1>1. PICK f : IsRun(f, q, v) /\ f[Len(q)] = w
  BY DEF Leads
<1>2. /\ K \in Nat /\ Len(q) = K + 1 /\ Len(t) = K /\ Head(q) = q[1] /\ IsQueue(t)
      /\ \A n \in 1..K : t[n] = q[n + 1]
  BY <1>0, TailElements DEF IsQueue
<1>3. f[0] = v /\ \A n \in 1..(K + 1) : f[n] = Process(f[n - 1], q[n])
  <2>1. Len(q) \in Nat
    BY <1>0
  <2>2. f[0] = v /\ \A n \in 1..Len(q) : f[n] = Process(f[n - 1], q[n])
    BY <1>1, <2>1, RunPlaces
  <2> HIDE DEF K
  <2> QED BY <1>2, <2>2
<1> HIDE DEF K, t, u
<1> DEFINE g == [n \in 0..K |-> f[n + 1]]
           next(n) == IF n = 0 THEN u ELSE Process(g[n - 1], t[n])
<1>4. \A n \in 0..K : g[n] = f[n + 1]
  OBVIOUS
<1>5. g = [n \in 0..K |-> g[n]]
  OBVIOUS
<1> HIDE DEF g
<1>6. ASSUME NEW n \in 0..K PROVE g[n] = next(n)
  <2>1. CASE n = 0
    <3>1. 1 \in 1..(K + 1) /\ 0 \in 0..K
      BY <1>2
    <3>2. f[1] = Process(f[0], q[1])
      BY <1>3, <3>1
    <3> QED BY <1>2, <1>3, <1>4, <2>1, <3>1, <3>2 DEF u
  <2>2. CASE n \in 1..K
    <3>1. /\ n \in 0..K /\ n - 1 \in 0..K /\ n # 0
          /\ n + 1 \in 1..(K + 1) /\ (n + 1) - 1 = n /\ (n - 1) + 1 = n
      BY <1>2, <2>2
    <3>2. f[n + 1] = Process(f[n], q[n + 1])
      BY <1>3, <3>1
    <3>3. g[n] = f[n + 1] /\ g[n - 1] = f[n] /\ t[n] = q[n + 1]
      BY <1>2, <1>4, <2>2, <3>1
    <3> QED BY <3>1, <3>2, <3>3
  <2> QED BY <1>2, <2>1, <2>2
<1>7. g = [n \in 0..K |-> next(n)]
  <2> HIDE DEF next
  <2> QED BY <1>5, <1>6
<1>8. IsRun(g, t, u)
  BY <1>2, <1>7 DEF IsRun
<1>9. g[Len(t)] = w
  BY <1>1, <1>2, <1>4
<1> QED BY <1>2, <1>8, <1>9 DEF Leads, t, u

\* Where the signals lead is what Followed computes.
LEMMA FollowedIs ==
  ASSUME NEW ss, IsQueue(ss), NEW v, NEW w, Leads(ss, v, w)
  PROVE  Followed(v, ss) = w
<1> DEFINE K == Len(ss)
           c == CHOOSE after :
                  after = [n \in 0..K |-> IF n = 0 THEN v ELSE Process(after[n - 1], ss[n])]
<1>0. PICK S : ss \in Seq(S)
  BY DEF IsQueue
<1>1. K \in Nat
  BY <1>0
<1>2. PICK f : IsRun(f, ss, v) /\ f[K] = w
  BY DEF Leads
<1>3. IsRun(c, ss, v)
  BY <1>2 DEF IsRun
<1>4. Followed(v, ss) = c[K]
  BY DEF Followed
<1> HIDE DEF c
<1>5. /\ f[0] = v /\ \A n \in 1..K : f[n] = Process(f[n - 1], ss[n])
      /\ c[0] = v /\ \A n \in 1..K : c[n] = Process(c[n - 1], ss[n])
  BY <1>1, <1>2, <1>3, RunPlaces
<1> HIDE DEF K
<1> DEFINE P == {n \in 0..K : f[n] = c[n]}
<1>6. 0..K \subseteq P
  <2>1. 0 \in P
    BY <1>1, <1>5
  <2>2. ASSUME NEW n \in 1..K, n - 1 \in P PROVE n \in P
    BY <1>1, <1>5, <2>2
  <2> HIDE DEF P
  <2> QED BY <1>1, <2>1, <2>2, UpTo
<1>7. f[K] = c[K]
  BY <1>1, <1>6
<1> QED BY <1>2, <1>4, <1>7
-----------------------------------------------------------------------------
(* What is sent leads from the list of the enabled applications to the next *)

Catches(q, v, xs) == \E w : Leads(q, v, w) /\ Lists(w, xs)

\* What leads to the list of xs from q leads to that of ys from r.
Carries(q, xs, r, ys, v) == IsQueue(r) /\ (Catches(q, v, xs) => Catches(r, v, ys))

LEMMA CatchesMore ==
  ASSUME NEW q, IsQueue(q), NEW v, NEW xs, NEW a, a \notin xs, AreApart(xs \cup {a}),
         NEW s, s.kind = "add", s.ref = Ref(a), s.index = Rank(Ids(xs), a.id)
  PROVE  Carries(q, xs, Append(q, s), xs \cup {a}, v)
<1>1. ASSUME NEW w, Leads(q, v, w), Lists(w, xs) PROVE Catches(Append(q, s), v, xs \cup {a})
  <2>1. Lists(Process(w, s), xs \cup {a})
    BY <1>1, ListsMore
  <2>2. Leads(Append(q, s), v, Process(w, s))
    BY <1>1, LeadsMore
  <2> QED BY <2>1, <2>2 DEF Catches
<1> QED BY <1>1, QueueAppend DEF Carries, Catches

LEMMA CatchesLess ==
  ASSUME NEW q, IsQueue(q), NEW v, NEW xs, NEW a, AreApart(xs \cup {a}),
         NEW s, s.kind = "remove", s.ref = Ref(a)
  PROVE  Carries(q, xs, Append(q, s), xs \ {a}, v)
<1>1. ASSUME NEW w, Leads(q, v, w), Lists(w, xs) PROVE Catches(Append(q, s), v, xs \ {a})
  <2>1. Lists(Process(w, s), xs \ {a})
    BY <1>1, ListsLess
  <2>2. Leads(Append(q, s), v, Process(w, s))
    BY <1>1, LeadsMore
  <2> QED BY <2>1, <2>2 DEF Catches
<1> QED BY <1>1, QueueAppend DEF Carries, Catches

\* A signal about event listeners.
LEMMA CatchesOther ==
  ASSUME NEW q, IsQueue(q), NEW v, NEW xs, NEW s, s.kind \notin {"add", "remove"}
  PROVE  Carries(q, xs, Append(q, s), xs, v)
<1>1. ASSUME NEW w, Leads(q, v, w), Lists(w, xs) PROVE Catches(Append(q, s), v, xs)
  <2>1. Process(w, s) = w
    BY DEF Process
  <2>2. Leads(Append(q, s), v, Process(w, s))
    BY <1>1, LeadsMore
  <2> QED BY <1>1, <2>1, <2>2 DEF Catches
<1> QED BY <1>1, QueueAppend DEF Carries, Catches

LEMMA CatchesSame ==
  ASSUME NEW q, NEW v, NEW xs, Catches(q, v, xs), NEW ys, Ids(ys) = Ids(xs),
         \A y \in ys : \E x \in xs : x.id = y.id /\ Ref(x) = Ref(y)
  PROVE  Catches(q, v, ys)
BY SameList DEF Catches

\* One signal after the other: the first n of ss behind q.
FirstOf(q, ss, n) == q \o [i \in 1..n |-> ss[i]]

LEMMA ElementsOf ==
  ASSUME NEW S, NEW n \in Nat, NEW f, \A i \in 1..n : f[i] \in S
  PROVE  [i \in 1..n |-> f[i]] \in Seq(S) /\ Len([i \in 1..n |-> f[i]]) = n
OBVIOUS

LEMMA SameElements ==
  ASSUME NEW S, NEW s \in Seq(S), NEW t \in Seq(S), NEW n, Len(s) = n, Len(t) = n,
         NEW f, \A i \in 1..n : s[i] = f[i], \A i \in 1..n : t[i] = f[i]
  PROVE  s = t
OBVIOUS

GrowsTo(q, ss, K) ==
  /\ FirstOf(q, ss, 0) = q /\ FirstOf(q, ss, K) = q \o ss
  /\ \A n \in 1..K : FirstOf(q, ss, n) = Append(FirstOf(q, ss, n - 1), ss[n])

LEMMA FirstOfPlaces ==
  ASSUME NEW q, IsQueue(q), NEW K \in Nat, NEW ss, ss = [i \in 1..K |-> ss[i]]
  PROVE  GrowsTo(q, ss, K)
<1>0. PICK Q : q \in Seq(Q)
  BY DEF IsQueue
<1> DEFINE S == Q \cup {ss[i] : i \in 1..K}
           t(n) == [i \in 1..n |-> ss[i]]
<1>1. q \in Seq(S) /\ \A i \in 1..K : ss[i] \in S
  BY <1>0
<1> HIDE DEF S
<1>2. ASSUME NEW n \in 0..K PROVE t(n) \in Seq(S) /\ Len(t(n)) = n
  <2>1. n \in Nat /\ \A i \in 1..n : ss[i] \in S
    BY <1>1
  <2>2. t(n) = [i \in 1..n |-> ss[i]]
    OBVIOUS
  <2> HIDE DEF t
  <2>3. /\ [i \in 1..n |-> ss[i]] \in Seq(S) /\ Len([i \in 1..n |-> ss[i]]) = n
    BY ONLY <2>1, ElementsOf, Zenon
  <2> QED BY <2>2, <2>3
<1>3. ASSUME NEW n \in 1..K PROVE t(n) = Append(t(n - 1), ss[n])
  <2>1. n - 1 \in 0..K /\ n \in 0..K /\ (n - 1) + 1 = n
    OBVIOUS
  <2>2. Append(t(n - 1), ss[n]) \in Seq(S) /\ Len(Append(t(n - 1), ss[n])) = n
    <3> HIDE DEF t
    <3> QED BY <1>1, <1>2, <2>1
  <2>3. ASSUME NEW i \in 1..n PROVE Append(t(n - 1), ss[n])[i] = ss[i]
    <3>1. CASE i \in 1..(n - 1)
      <4>1. t(n - 1)[i] = ss[i]
        BY <3>1
      <4> HIDE DEF t
      <4> QED BY <1>1, <1>2, <2>1, <3>1, <4>1
    <3>2. CASE i = n
      <4> HIDE DEF t
      <4> QED BY <1>1, <1>2, <2>1, <3>2
    <3> QED BY <3>1, <3>2
  <2>4. \A i \in 1..n : t(n)[i] = ss[i]
    OBVIOUS
  <2> HIDE DEF t
  <2>5. t(n) \in Seq(S) /\ Len(t(n)) = n
    BY <1>2, <2>1
  <2> QED BY ONLY <2>2, <2>3, <2>4, <2>5, SameElements, n \in Nat
<1>4. t(0) = <<>> /\ t(K) = ss
  OBVIOUS
<1> HIDE DEF t
<1>5. q \o t(0) = q
  BY <1>1, <1>4
<1>6. ASSUME NEW n \in 1..K PROVE q \o t(n) = Append(q \o t(n - 1), ss[n])
  <2>0. n - 1 \in 0..K
    OBVIOUS
  <2>1. t(n - 1) \in Seq(S) /\ ss[n] \in S /\ t(n) = Append(t(n - 1), ss[n])
    BY <1>1, <1>2, <1>3, <2>0
  <2>2. q \o Append(t(n - 1), ss[n]) = Append(q \o t(n - 1), ss[n])
    BY <1>1, <2>1
  <2> QED BY <2>1, <2>2
<1> QED BY <1>4, <1>5, <1>6 DEF FirstOf, GrowsTo, t

\* Several applications are removed.
LEMMA CatchesGone ==
  ASSUME AreApart(apps), NEW gone \in SUBSET apps, NEW q, IsQueue(q), NEW v,
         NEW xs \in SUBSET apps
  PROVE  /\ IsQueue(RemoveSignals(gone))
         /\ Carries(q, xs, q \o RemoveSignals(gone), xs \ gone, v)
<1> DEFINE order == InOrder(gone)
           ss == RemoveSignals(gone)
           K == Cardinality(Ids(gone))
<1>1. /\ AreApart(gone) /\ K \in Nat
      /\ order \in Seq(gone) /\ Len(order) = K
      /\ \A a \in gone : Rank(Ids(gone), a.id) + 1 \in 1..K /\ order[Rank(Ids(gone), a.id) + 1] = a
  <2>1. AreApart(gone)
    BY SomeApart
  <2>2. IsIds(Ids(gone)) /\ \A a \in gone : a.id \in Ids(gone) /\ a.id \in Nat
    BY <2>1, ApartFields DEF AreApart
  <2>3. K \in Nat
    BY <2>2, FS_CardinalityType DEF IsIds
  <2>4. \A a \in gone : Rank(Ids(gone), a.id) \in Nat /\ Rank(Ids(gone), a.id) < K
    BY <2>2, RankType
  <2>5. \A a \in gone : Rank(Ids(gone), a.id) + 1 \in 1..K
    <3> HIDE DEF K
    <3> QED BY <2>3, <2>4
  <2> QED BY <2>1, <2>3, <2>5, InOrderIs
<1>2. DOMAIN order = 1..K
  BY <1>1
<1>3. \A i \in 1..K : order[i] \in gone /\ ss[i].kind = "remove" /\ ss[i].ref = Ref(order[i])
  <2>1. \A i \in 1..K : order[i] \in gone
    BY <1>1
  <2>2. \A i \in 1..K : ss[i].kind = "remove" /\ ss[i].ref = Ref(order[i])
    BY <1>2 DEF RemoveSignals, ChildrenChanged
  <2> QED BY <2>1, <2>2
<1>4. ss = [i \in 1..K |-> ss[i]]
  BY <1>2 DEF RemoveSignals
<1> HIDE DEF K, order, ss
<1>5. /\ FirstOf(q, ss, 0) = q /\ FirstOf(q, ss, K) = q \o ss
      /\ \A n \in 1..K : FirstOf(q, ss, n) = Append(FirstOf(q, ss, n - 1), ss[n])
  <2>1. GrowsTo(q, ss, K)
    BY <1>1, <1>4, FirstOfPlaces, Zenon
  <2> QED BY <2>1 DEF GrowsTo
<1> DEFINE left(n) == xs \ {order[i] : i \in 1..n}
           P == {n \in 0..K : Carries(q, xs, FirstOf(q, ss, n), left(n), v)}
<1>6. 0 \in P
  <2>1. left(0) = xs
    OBVIOUS
  <2> HIDE DEF left
  <2> QED BY <1>1, <1>5, <2>1 DEF Carries
<1>7. ASSUME NEW n \in 1..K, n - 1 \in P PROVE n \in P
  <2> DEFINE a == order[n]
             r == FirstOf(q, ss, n - 1)
  <2>1. Carries(q, xs, r, left(n - 1), v)
    BY <1>7
  <2>2. AreApart(left(n - 1) \cup {a})
    <3>1. left(n - 1) \cup {a} \in SUBSET apps
      BY <1>3
    <3> QED BY <3>1, SomeApart
  <2>3. left(n) = left(n - 1) \ {a}
    <3>1. \A i \in 1..n : i \in 1..(n - 1) \/ i = n
      BY <1>1
    <3>2. n \in 1..n /\ \A i \in 1..(n - 1) : i \in 1..n
      BY <1>1
    <3> QED BY <3>1, <3>2
  <2> HIDE DEF left, a, r, P
  <2>4. ss[n].kind = "remove" /\ ss[n].ref = Ref(a)
    BY <1>3 DEF a
  <2>5. Carries(r, left(n - 1), Append(r, ss[n]), left(n - 1) \ {a}, v)
    BY <2>1, <2>2, <2>4, CatchesLess DEF Carries
  <2>6. FirstOf(q, ss, n) = Append(r, ss[n])
    BY <1>5 DEF r
  <2>7. n \in 0..K
    BY <1>1
  <2> QED BY <2>1, <2>3, <2>5, <2>6, <2>7 DEF P, Carries
<1>8. K \in P
  <2> HIDE DEF P
  <2>1. 0..K \subseteq P
    BY <1>1, <1>6, <1>7, UpTo
  <2> QED BY <1>1, <2>1
<1>9. left(K) = xs \ gone
  BY <1>1, <1>3
<1> HIDE DEF left
<1>10. IsQueue(ss)
  <2> DEFINE S == {ss[i] : i \in 1..K}
  <2>1. \A i \in 1..K : ss[i] \in S
    OBVIOUS
  <2> HIDE DEF S
  <2>2. [i \in 1..K |-> ss[i]] \in Seq(S)
    BY <1>1, <2>1, ElementsOf, Zenon
  <2> QED BY <1>4, <2>2 DEF IsQueue
<1> QED BY <1>5, <1>8, <1>9, <1>10 DEF ss

\* The same applications, whatever else is known of them.
Alike(a, b) == a.id = b.id /\ Ref(a) = Ref(b) /\ a.disabled = b.disabled
Renewed(xs, ys) ==
  /\ \A x \in xs : \E y \in ys : Alike(x, y)
  /\ \A y \in ys : \E x \in xs : Alike(x, y)

LEMMA CatchesRenewed ==
  ASSUME NEW q, NEW v, NEW xs, NEW ys, Renewed(xs, ys), Catches(q, v, Enabled(xs))
  PROVE  Catches(q, v, Enabled(ys))
<1>1. \A x \in Enabled(xs) : \E y \in Enabled(ys) : x.id = y.id /\ Ref(x) = Ref(y)
  BY DEF Enabled, Renewed, Alike
<1>2. \A y \in Enabled(ys) : \E x \in Enabled(xs) : x.id = y.id /\ Ref(x) = Ref(y)
  BY DEF Enabled, Renewed, Alike
<1>3. Ids(Enabled(ys)) = Ids(Enabled(xs))
  BY <1>1, <1>2 DEF Ids
<1> QED BY <1>2, <1>3, CatchesSame

\* The index that is reported of an application.
LEMMA IndexIsRank ==
  ASSUME NEW xs, AreApart(xs), NEW a, a.id \in Nat
  PROVE  /\ AreApart(Enabled(xs)) /\ Enabled(xs) \in SUBSET xs
         /\ IndexOf(xs, a) = Rank(Ids(Enabled(xs)), a.id)
<1>1. Enabled(xs) \in SUBSET xs
  BY DEF Enabled
<1>2. AreApart(Enabled(xs))
  BY <1>1, SomeApart
<1> QED BY <1>1, <1>2, PlaceIs DEF IndexOf

\* A ping is answered, or is not in time.
LEMMA CatchesPing ==
  ASSUME NEW new, new = apps', AreApart(apps), AreApart(new), NEW q, q = signals, IsQueue(q), NEW v,
         NEW id, NEW r, NEW ok \in BOOLEAN, AppPing(id, r, ok), NEW t, t = signals'
  PROVE  Carries(q, Enabled(apps), t, Enabled(new), v)
<1> DEFINE hit == {a \in apps : a.id = id /\ a.pending = r}
           changed == {a \in hit : a.disabled = ok}
           op == IF ok THEN "add" ELSE "remove"
           sent == [i \in 1..Cardinality(changed) |->
                      ChildrenChanged(op, apps, CHOOSE a \in changed : TRUE)]
<1>1. /\ new = (apps \ hit) \cup {Resolved(a, ok) : a \in hit}
      /\ t = q \o sent
  BY DEF AppPing
<1>2. apps \subseteq Application /\ \A a, b \in apps : a.id = b.id => a = b
  BY DEF AreApart
<1>0. PICK S : q \in Seq(S)
  BY DEF IsQueue
<1>3. CASE changed = {}
  <2>1. sent = <<>>
    <3>1. Cardinality(changed) = 0
      BY <1>3, FS_EmptySet
    <3> HIDE DEF changed
    <3> QED BY <3>1
  <2> HIDE DEF sent
  <2>2. t = q
    BY <1>0, <1>1, <2>1
  <2>3. \A a \in hit : Alike(a, Resolved(a, ok)) /\ Resolved(a, ok) \in new
    BY <1>1, <1>2, <1>3 DEF Alike, Resolved, Ref, Application
  <2>4. \A a \in apps \ hit : Alike(a, a) /\ a \in new
    BY <1>1 DEF Alike
  <2>5. \A b \in new : b \in apps \ hit \/ \E a \in hit : b = Resolved(a, ok)
    BY <1>1
  <2>6. hit \in SUBSET apps
    OBVIOUS
  <2> HIDE DEF hit
  <2>7. Renewed(apps, new)
    BY <2>3, <2>4, <2>5, <2>6 DEF Renewed
  <2> QED BY <2>2, <2>7, CatchesRenewed DEF Carries
<1>4. ASSUME NEW a \in changed PROVE Carries(q, Enabled(apps), t, Enabled(new), v)
  <2> DEFINE b == Resolved(a, ok)
             s == ChildrenChanged(op, apps, a)
  <2>1. hit = {a} /\ changed = {a} /\ a \in apps /\ a.disabled = ok /\ a.id \in Nat
    BY <1>2 DEF Application
  <2>2. t = Append(q, s)
    <3>1. Cardinality(changed) = 1 /\ (CHOOSE c \in changed : TRUE) = a
      BY <2>1, FS_Singleton
    <3> HIDE DEF changed
    <3>2. sent = [i \in 1..1 |-> s]
      BY <3>1
    <3> HIDE DEF sent, s
    <3> QED BY <1>0, <1>1, <3>2
  <2>3. new = (apps \ {a}) \cup {b}
    <3>1. {Resolved(c, ok) : c \in {a}} = {b}
      OBVIOUS
    <3> HIDE DEF hit, b
    <3> QED BY <1>1, <2>1, <3>1
  <2>4. b.id = a.id /\ Ref(b) = Ref(a) /\ b.disabled = ~ok
    BY <1>2, <2>1 DEF Resolved, Ref, Application
  <2>5. s.kind = op /\ s.ref = Ref(a) /\ s.index = Rank(Ids(Enabled(apps)), a.id)
    <3>1. IndexOf(apps, a) = Rank(Ids(Enabled(apps)), a.id)
      BY <2>1, IndexIsRank
    <3> QED BY <3>1 DEF ChildrenChanged
  <2> HIDE DEF b, s, hit, changed, sent
  <2>6. CASE ok
    <3>1. Enabled(new) = Enabled(apps) \cup {b}
      BY <2>1, <2>3, <2>4, <2>6 DEF Enabled
    <3>2. b \notin Enabled(apps)
      BY <1>2, <2>1, <2>4, <2>6 DEF Enabled
    <3>3. AreApart(Enabled(apps) \cup {b})
      <4>1. Enabled(new) \in SUBSET new
        BY DEF Enabled
      <4> QED BY <3>1, <4>1, SomeApart
    <3>4. s.kind = "add" /\ s.ref = Ref(b) /\ s.index = Rank(Ids(Enabled(apps)), b.id)
      BY <2>4, <2>5, <2>6
    <3> QED BY <2>2, <3>1, <3>2, <3>3, <3>4, CatchesMore
  <2>7. CASE ~ok
    <3>1. Enabled(new) = Enabled(apps) \ {a}
      BY <2>1, <2>3, <2>4, <2>7 DEF Enabled
    <3>2. AreApart(Enabled(apps) \cup {a})
      <4>1. Enabled(apps) \cup {a} \in SUBSET apps
        BY <2>1 DEF Enabled
      <4> QED BY <4>1, SomeApart
    <3>3. s.kind = "remove" /\ s.ref = Ref(a)
      BY <2>5, <2>7
    <3>4. Carries(q, Enabled(apps), Append(q, s), Enabled(apps) \ {a}, v)
      BY <3>2, <3>3, CatchesLess
    <3> QED BY <2>2, <3>1, <3>4
  <2> QED BY <2>6, <2>7
<1> HIDE DEF changed
<1> QED BY <1>3, <1>4
-----------------------------------------------------------------------------
(* No two applications have one root *)

\* The call that removes an application is on its way.
Unembedded(q, a) == \E i \in 1..Len(q) : q[i].kind = "Unembed" /\ Root(q[i]) = Ref(a)

\* With the messages q in flight, and the clients believing so: a root on its way
\* is embedded, and that of an application is, for good, until it is unembedded.
EmbedRoots(q, rs) == \A i \in 1..Len(q) : q[i].kind = "Embed" => q[i].path \in rs[q[i].sender]
HasRoot(q, rs, ws, a) == a.path \in rs[a.name] \ ws[a.name] \/ Unembedded(q, a)

RootInv ==
  /\ EmbedRoots(inbox, roots)
  /\ \A a \in apps : HasRoot(inbox, roots, waiting, a)
  /\ \A a, b \in apps : Ref(a) = Ref(b) => a = b

LEMMA RootTail ==
  ASSUME NEW q \in Seq(Message), q # <<>>
  PROVE  /\ \A rs : EmbedRoots(q, rs) => EmbedRoots(Tail(q), rs)
         /\ \A a : Unembedded(q, a) /\ ~(Head(q).kind = "Unembed" /\ Root(Head(q)) = Ref(a))
                     => Unembedded(Tail(q), a)
<1>1. /\ Head(q) = q[1] /\ Len(Tail(q)) = Len(q) - 1 /\ Len(q) \in Nat \ {0}
      /\ \A i \in 1..Len(Tail(q)) : Tail(q)[i] = q[i + 1]
  BY TailElements
<1>2. \A i \in 1..Len(Tail(q)) : i + 1 \in 1..Len(q)
  BY <1>1
<1>3. \A i \in 2..Len(q) : i - 1 \in 1..Len(Tail(q)) /\ Tail(q)[i - 1] = q[i]
  BY <1>1
<1>4. \A rs : EmbedRoots(q, rs) => EmbedRoots(Tail(q), rs)
  BY <1>1, <1>2 DEF EmbedRoots
<1>5. ASSUME NEW a, Unembedded(q, a), ~(Head(q).kind = "Unembed" /\ Root(Head(q)) = Ref(a))
      PROVE  Unembedded(Tail(q), a)
  <2>1. PICK i \in 1..Len(q) : q[i].kind = "Unembed" /\ Root(q[i]) = Ref(a)
    BY <1>5 DEF Unembedded
  <2>2. i \in 2..Len(q)
    BY <1>1, <1>5, <2>1
  <2> QED BY <1>3, <2>1, <2>2 DEF Unembedded
<1> QED BY <1>4, <1>5

LEMMA RootAppend ==
  ASSUME NEW q \in Seq(Message), NEW m \in Message
  PROVE  /\ \A rs : EmbedRoots(q, rs) /\ (m.kind = "Embed" => m.path \in rs[m.sender])
                      => EmbedRoots(Append(q, m), rs)
         /\ \A a : Unembedded(q, a) \/ (m.kind = "Unembed" /\ Root(m) = Ref(a))
                     => Unembedded(Append(q, m), a)
<1>1. /\ Len(Append(q, m)) = Len(q) + 1 /\ Len(q) \in Nat
      /\ \A i \in 1..Len(q) : Append(q, m)[i] = q[i]
      /\ Append(q, m)[Len(q) + 1] = m
  BY AppendElements
<1>2. \A i \in 1..Len(Append(q, m)) : i \in 1..Len(q) \/ i = Len(q) + 1
  BY <1>1
<1>3. Len(q) + 1 \in 1..Len(Append(q, m)) /\ \A i \in 1..Len(q) : i \in 1..Len(Append(q, m))
  BY <1>1
<1>4. \A rs : EmbedRoots(q, rs) /\ (m.kind = "Embed" => m.path \in rs[m.sender])
                => EmbedRoots(Append(q, m), rs)
  BY <1>1, <1>2 DEF EmbedRoots
<1>5. \A a : Unembedded(q, a) => Unembedded(Append(q, m), a)
  BY <1>1, <1>3 DEF Unembedded
<1>6. \A a : m.kind = "Unembed" /\ Root(m) = Ref(a) => Unembedded(Append(q, m), a)
  BY <1>1, <1>3 DEF Unembedded
<1> QED BY <1>4, <1>5, <1>6

\* Steps that leave the roots alone.
LEMMA RootKept ==
  ASSUME TypeOK, RootInv, PingInv', roots' = roots, waiting' = waiting,
         \A a \in apps' : \E b \in apps : Same(a, b),
         \/ inbox' = inbox
         \/ inbox # <<>> /\ inbox' = Tail(inbox) /\ Head(inbox).kind # "Unembed"
         \/ \E m \in Message : m.kind # "Embed" /\ inbox' = Append(inbox, m)
  PROVE  RootInv'
<1>1. inbox \in Seq(Message) /\ EmbedRoots(inbox, roots)
  BY DEF TypeOK, RootInv
<1>2. /\ EmbedRoots(inbox', roots)
      /\ \A a : Unembedded(inbox, a) => Unembedded(inbox', a)
  <2>1. CASE inbox' = inbox
    BY <1>1, <2>1
  <2>2. CASE inbox # <<>> /\ inbox' = Tail(inbox) /\ Head(inbox).kind # "Unembed"
    BY <1>1, <2>2, RootTail
  <2>3. ASSUME NEW m \in Message, m.kind # "Embed", inbox' = Append(inbox, m)
        PROVE  /\ EmbedRoots(inbox', roots)
               /\ \A a : Unembedded(inbox, a) => Unembedded(inbox', a)
    BY <1>1, <2>3, RootAppend
  <2> QED BY <2>1, <2>2, <2>3
<1>3. ASSUME NEW a \in apps' PROVE HasRoot(inbox', roots, waiting, a)
  <2>1. PICK b \in apps : Same(a, b)
    OBVIOUS
  <2>2. HasRoot(inbox, roots, waiting, b)
    BY DEF RootInv
  <2>3. Unembedded(inbox', b) => Unembedded(inbox', a)
    BY <2>1 DEF Unembedded, Same, Ref
  <2> QED BY <1>2, <2>1, <2>2, <2>3 DEF HasRoot, Same
<1>4. ASSUME NEW a \in apps', NEW b \in apps', Ref(a) = Ref(b) PROVE a = b
  <2>1. PICK c \in apps : Same(a, c)
    OBVIOUS
  <2>2. PICK d \in apps : Same(b, d)
    OBVIOUS
  <2>3. c = d
    <3>1. Ref(c) = Ref(d)
      BY <1>4, <2>1, <2>2 DEF Same, Ref
    <3> QED BY <3>1 DEF RootInv
  <2>4. a.id = b.id
    BY <2>1, <2>2, <2>3 DEF Same
  <2> QED BY <2>4 DEF PingInv, PingQueue
<1>5. EmbedRoots(inbox', roots') /\ \A a \in apps' : HasRoot(inbox', roots', waiting', a)
  BY <1>2, <1>3
<1> QED BY <1>4, <1>5 DEF RootInv

\* A root is embedded once, and its application leaves before it is embedded again.
LEMMA RootInductive == TypeOK /\ PidInv /\ PingInv /\ RootInv /\ [Next]_vars => RootInv'
<1> SUFFICES ASSUME TypeOK, PidInv, PingInv, RootInv, [Next]_vars PROVE RootInv'
  OBVIOUS
<1>0. PingInv' /\ inbox \in Seq(Message) /\ apps \subseteq Application
  BY PingInductive DEF TypeOK
<1>1. SameApplications => \A a \in apps' : \E b \in apps : Same(a, b)
  <2> SUFFICES ASSUME SameApplications, NEW a \in apps' PROVE \E b \in apps : Same(a, b)
    OBVIOUS
  <2>1. PICK b \in apps : a.id = b.id
    BY DEF SameApplications
  <2>2. PICK c \in apps' : Same(c, b)
    BY DEF SameApplications
  <2>3. c = a
    BY <1>0, <2>1, <2>2 DEF PingInv, PingQueue, Same
  <2> QED BY <2>2, <2>3 DEF Same
<1>2. \A a \in apps : Same(a, a)
  BY DEF Same
<1>3. CASE HandleEmbed
  <2> PICK q, m, reply, new, r :
        /\ q = Tail(inbox) /\ m = Head(inbox)
        /\ reply = [kind |-> "PidReply", app |-> nextId, name |-> m.sender,
                    ok |-> conn[m.sender] = "on"]
        /\ new = [id |-> nextId, name |-> m.sender, path |-> m.path,
                  disabled |-> FALSE, pending |-> NoRound, pid |-> Null]
        /\ r = waiting'
    OBVIOUS
  <2>1. /\ inbox # <<>> /\ m \in Message /\ m.kind = "Embed" /\ q \in Seq(Message)
        /\ m.sender \in App /\ m.path \in Path
    BY <1>3, ConsumeType, MessageFields DEF HandleEmbed, Receive
  <2>2. /\ apps' = apps \cup {new} /\ inbox' = Append(q, reply) /\ roots' = roots
        /\ r = [waiting EXCEPT ![m.sender] = @ \ {m.path}]
    BY <1>3 DEF HandleEmbed
  <2>3. reply \in Message /\ reply.kind = "PidReply"
    BY <2>1 DEF Message, TypeOK
  <2>4. new.name = m.sender /\ new.path = m.path /\ Ref(new) = Root(m)
    BY DEF Ref, Root
  <2>5. inbox[1] = m /\ 1 \in 1..Len(inbox) /\ Len(q) = Len(inbox) - 1 /\ Len(inbox) \in Nat
        /\ \A i \in 1..Len(q) : q[i] = inbox[i + 1] /\ i + 1 \in 2..Len(inbox)
    BY <1>0, <2>1, TailElements
  <2>6. m.path \in waiting[m.sender] /\ \A i \in 1..Len(q) :
          q[i].kind \in {"Embed", "Unembed"} => Root(q[i]) # Root(m)
    BY <2>1, <2>5 DEF PidInv, PidQueue, EmbedIsLast
  <2>7. m.path \in roots[m.sender]
    BY <2>1, <2>5 DEF RootInv, EmbedRoots
  <2>8. \A a : Unembedded(inbox, a) => Unembedded(q, a)
    BY <1>0, <2>1, RootTail
  <2>9. \A a \in apps : Ref(a) # Ref(new)
    <3> SUFFICES ASSUME NEW a \in apps, Ref(a) = Ref(new) PROVE FALSE
      OBVIOUS
    <3>1. a.name = m.sender /\ a.path = m.path
      BY <2>4 DEF Ref
    <3>2. Unembedded(inbox, a)
      BY <2>6, <3>1 DEF RootInv, HasRoot
    <3>3. Unembedded(q, a)
      BY <2>8, <3>2
    <3> QED BY <2>4, <2>6, <3>3 DEF Unembedded
  <2>10. EmbedRoots(inbox', roots)
    <3>1. EmbedRoots(q, roots)
      BY <1>0, <2>1, RootTail DEF RootInv
    <3> QED BY <2>1, <2>2, <2>3, <3>1, RootAppend
  <2>11. \A a : Unembedded(inbox, a) => Unembedded(inbox', a)
    BY <2>1, <2>2, <2>3, <2>8, RootAppend
  <2>12. ASSUME NEW a \in apps' PROVE HasRoot(inbox', roots, r, a)
    <3>1. CASE a \in apps
      <4>1. HasRoot(inbox, roots, waiting, a) /\ a.name \in Client
        BY <1>0, <3>1 DEF RootInv, Application, Client
      <4>2. r[a.name] \subseteq waiting[a.name]
        BY <2>2, <4>1 DEF TypeOK
      <4> QED BY <2>11, <4>1, <4>2 DEF HasRoot
    <3>2. CASE a = new
      <4>1. r[m.sender] = waiting[m.sender] \ {m.path}
        BY <2>1, <2>2 DEF TypeOK, Client
      <4> QED BY <2>4, <2>7, <3>2, <4>1 DEF HasRoot
    <3> QED BY <2>2, <3>1, <3>2
  <2>13. \A a, b \in apps' : Ref(a) = Ref(b) => a = b
    <3>1. \A a, b \in apps : Ref(a) = Ref(b) => a = b
      BY DEF RootInv
    <3> SUFFICES ASSUME NEW a \in apps', NEW b \in apps', Ref(a) = Ref(b) PROVE a = b
      OBVIOUS
    <3>2. CASE a \in apps /\ b \in apps
      BY <3>1, <3>2
    <3>3. CASE a = new \/ b = new
      BY <2>2, <2>9, <3>3
    <3> QED BY <2>2, <3>2, <3>3
  <2>14. EmbedRoots(inbox', roots') /\ \A a \in apps' : HasRoot(inbox', roots', waiting', a)
    <3>1. r = waiting' /\ roots' = roots
      BY <2>2
    <3> QED BY ONLY <2>10, <2>12, <3>1
  <2> QED BY <2>13, <2>14 DEF RootInv
<1>4. CASE HandleUnembed
  <2> PICK q, m : q = Tail(inbox) /\ m = Head(inbox)
    OBVIOUS
  <2>1. /\ inbox # <<>> /\ m.kind = "Unembed" /\ q \in Seq(Message)
        /\ inbox' = q /\ roots' = roots /\ waiting' = waiting
    BY <1>4, ConsumeType DEF HandleUnembed, Receive, Consume, clientVars
  <2> DEFINE same == {a \in apps : Ref(a) = <<m.sender, m.path>>}
             first == {a \in same : \A b \in same : a.id <= b.id}
  <2>2. apps' = apps \ first
    BY <1>4 DEF HandleUnembed, RemoveApplications
  <2>3. \A a \in apps : Ref(a) = Root(m) => a \in first
    <3>1. \A a, b \in apps : Ref(a) = Ref(b) => a = b
      BY DEF RootInv
    <3>2. \A a \in apps : a.id <= a.id
      BY <1>0 DEF Application
    <3> QED BY <3>1, <3>2 DEF Root
  <2> HIDE DEF first
  <2>4. apps' \subseteq apps /\ \A a \in apps' : Ref(a) # Root(m)
    BY <2>2, <2>3
  <2>5. EmbedRoots(q, roots) /\ \A a \in apps' : Unembedded(inbox, a) => Unembedded(q, a)
    BY <1>0, <2>1, <2>4, RootTail DEF RootInv
  <2>6. \A a \in apps' : HasRoot(q, roots, waiting, a)
    BY <2>4, <2>5 DEF RootInv, HasRoot
  <2>7. EmbedRoots(inbox', roots') /\ \A a \in apps' : HasRoot(inbox', roots', waiting', a)
    BY <2>1, <2>5, <2>6
  <2> QED BY <2>4, <2>7 DEF RootInv
<1>5. CASE HandleNameOwnerChanged
  <2>1. /\ inbox # <<>> /\ Head(inbox).kind # "Unembed" /\ inbox' = Tail(inbox)
        /\ roots' = roots /\ waiting' = waiting /\ apps' \subseteq apps
    BY <1>5 DEF HandleNameOwnerChanged, Receive, Consume, RemoveApplications, clientVars
  <2>2. \A a \in apps' : \E b \in apps : Same(a, b)
    BY <1>2, <2>1
  <2> QED BY <1>0, <2>1, <2>2, RootKept
<1>6. CASE HandleRegisterEvent \/ HandleDeregisterEvent \/ HandleRegisterKeystrokeListener
  <2>1. /\ inbox # <<>> /\ Head(inbox).kind # "Unembed" /\ inbox' = Tail(inbox)
        /\ roots' = roots /\ waiting' = waiting /\ apps' = apps
    BY <1>6 DEF HandleRegisterEvent, HandleDeregisterEvent, HandleRegisterKeystrokeListener,
                Receive, Consume, clientVars
  <2>2. \A a \in apps' : \E b \in apps : Same(a, b)
    BY <1>2, <2>1
  <2> QED BY <1>0, <2>1, <2>2, RootKept
<1>7. CASE HandlePidReply
  <2> DEFINE m == Head(inbox)
             target == PidTarget(m)
  <2>1. /\ inbox # <<>> /\ m.kind # "Unembed" /\ inbox' = Tail(inbox)
        /\ roots' = roots /\ waiting' = waiting
        /\ \/ apps' = apps
           \/ apps' = (apps \ target) \cup {[a EXCEPT !.pid = m.name] : a \in target}
    BY <1>7 DEF HandlePidReply, Receive, Consume, clientVars
  <2>2. target \subseteq apps
    BY DEF PidTarget
  <2>3. \A a \in apps : Same([a EXCEPT !.pid = m.name], a)
    BY <1>0 DEF Same, Application
  <2> HIDE DEF m, target
  <2>4. \A a \in apps' : \E b \in apps : Same(a, b)
    BY <1>2, <2>1, <2>2, <2>3
  <2> QED BY <1>0, <2>1, <2>4, RootKept DEF m
<1>8. CASE HandlePingReply
  <2>1. /\ inbox # <<>> /\ Head(inbox).kind # "Unembed" /\ inbox' = Tail(inbox)
        /\ roots' = roots /\ waiting' = waiting
    BY <1>8 DEF HandlePingReply, Receive, Consume, clientVars
  <2>2. Head(inbox).ok \in BOOLEAN
    BY <1>8, ConsumeType, MessageFields DEF HandlePingReply
  <2>3. SameApplications
    BY <1>8, <2>2, AppPingKeeps DEF HandlePingReply, SameApplications, Same
  <2> QED BY <1>0, <1>1, <2>1, <2>3, RootKept
<1>9. CASE PingTimeout \/ PingApplications
  <2>1. inbox' = inbox /\ roots' = roots /\ waiting' = waiting
    BY <1>9 DEF PingTimeout, PingApplications, clientVars
  <2>2. CASE PingTimeout
    <3>1. SameApplications
      BY <2>2, AppPingKeeps DEF PingTimeout, SameApplications, Same
    <3> QED BY <1>0, <1>1, <2>1, <3>1, RootKept
  <2>3. CASE PingApplications
    <3> DEFINE asked(a) == [a EXCEPT !.pending = 1 - round]
    <3>1. apps' = {asked(a) : a \in apps}
      BY <2>3 DEF PingApplications
    <3>2. \A a \in apps : Same(asked(a), a)
      BY <1>0 DEF Application, Same
    <3> HIDE DEF asked
    <3>3. \A a \in apps' : \E b \in apps : Same(a, b)
      BY <3>1, <3>2
    <3> QED BY <1>0, <2>1, <3>3, RootKept
  <2> QED BY <1>9, <2>2, <2>3
<1>10. CASE \/ PollMouse \/ DispatchDeviceCall \/ Deliver \/ UNCHANGED vars
            \/ \E c \in App : Hang(c) \/ Recover(c)
  <2>1. inbox' = inbox /\ roots' = roots /\ waiting' = waiting /\ apps' = apps
    BY <1>10 DEF PollMouse, DispatchDeviceCall, Deliver, vars, registryVars, clientVars,
                 Hang, Recover
  <2>2. \A a \in apps' : \E b \in apps : Same(a, b)
    BY <1>2, <2>1
  <2> QED BY <1>0, <2>1, <2>2, RootKept
\* A message other than a call to Embed or Unembed is sent.
<1>11. ASSUME NEW m \in Message, m.kind # "Embed", inbox' = Append(inbox, m),
              roots' = roots, waiting' = waiting, apps' = apps
       PROVE  RootInv'
  <2>1. \A a \in apps' : \E b \in apps : Same(a, b)
    BY <1>2, <1>11
  <2> QED BY <1>0, <1>11, <2>1, RootKept
<1>12. ASSUME NEW c \in Client, Disconnect(c) PROVE RootInv'
  <2>1. /\ inbox' = Append(inbox, Gone(c)) /\ roots' = roots /\ waiting' = waiting
        /\ apps' = apps
    BY <1>12 DEF Disconnect, Send, registryVars
  <2>2. Gone(c) \in Message /\ Gone(c).kind # "Embed"
    BY DEF Gone, Message
  <2> QED BY <1>11, <2>1, <2>2
<1>13. ASSUME NEW c \in KeyClient, CallRegisterKeystrokeListener(c) PROVE RootInv'
  <2>1. PICK m : /\ m = [kind |-> "RegisterKeystrokeListener", sender |-> c]
                 /\ inbox' = Append(inbox, m) /\ apps' = apps
                 /\ roots' = roots /\ waiting' = waiting
    BY <1>13 DEF CallRegisterKeystrokeListener, Send, registryVars, clientVars
  <2>2. m \in Message /\ m.kind # "Embed"
    BY <2>1, ClientAssumption DEF Message
  <2> QED BY <1>11, <2>1, <2>2
<1>14. ASSUME NEW c \in AT, NEW t \in EventType, NEW a \in App \cup {Empty},
              CallRegisterEvent(c, t, a) \/ CallDeregisterEvent(c, t, a)
       PROVE  RootInv'
  <2>1. PICK m : /\ m \in {[kind |-> "RegisterEvent", sender |-> c, type |-> t, app |-> a],
                           [kind |-> "DeregisterEvent", sender |-> c, type |-> t, app |-> a]}
                 /\ inbox' = Append(inbox, m) /\ apps' = apps
                 /\ roots' = roots /\ waiting' = waiting
    BY <1>14 DEF CallRegisterEvent, CallDeregisterEvent, Send, registryVars, clientVars
  <2>2. m \in Message /\ m.kind # "Embed"
    BY <2>1 DEF Message
  <2> QED BY <1>11, <2>1, <2>2
<1>15. CASE AnswerPing
  <2> DEFINE Reply(p) == [kind |-> "PingReply", app |-> p.app, round |-> p.round,
                          ok |-> conn[p.name] = "on"]
  <2>1. PICK p \in pings : /\ inbox' = Append(inbox, Reply(p)) /\ apps' = apps
                           /\ roots' = roots /\ waiting' = waiting
    BY <1>15 DEF AnswerPing, Send, clientVars
  <2>2. PICK m : m = Reply(p) /\ inbox' = Append(inbox, m)
    BY <2>1
  <2>3. m \in Message /\ m.kind # "Embed"
    BY <2>2 DEF Message, TypeOK
  <2> HIDE DEF Reply
  <2> QED BY <1>11, <2>1, <2>2, <2>3
<1>16. ASSUME NEW c \in App, NEW p \in Path, CallEmbed(c, p) PROVE RootInv'
  <2> PICK m, rs, ws : /\ m = [kind |-> "Embed", sender |-> c, path |-> p]
                       /\ rs = roots' /\ ws = waiting'
    OBVIOUS
  <2>1. /\ inbox' = Append(inbox, m) /\ apps' = apps /\ p \notin roots[c] \cup waiting[c]
        /\ rs = [roots EXCEPT ![c] = @ \cup {p}] /\ ws = [waiting EXCEPT ![c] = @ \cup {p}]
    BY <1>16 DEF CallEmbed, Send, registryVars
  <2>2. m \in Message /\ m.kind = "Embed" /\ m.sender = c /\ m.path = p /\ c \in Client
    BY DEF Message, Client
  <2>3. /\ \A d \in Client : roots[d] \subseteq rs[d]
        /\ \A d \in Client : d # c => rs[d] = roots[d] /\ ws[d] = waiting[d]
        /\ rs[c] = roots[c] \cup {p} /\ ws[c] = waiting[c] \cup {p}
    BY <2>1, <2>2 DEF TypeOK
  <2>4. EmbedRoots(inbox, rs)
    <3>1. \A i \in 1..Len(inbox) : inbox[i].kind = "Embed" => inbox[i].sender \in Client
      BY <1>0, MessageFields DEF Client
    <3> QED BY <2>3, <3>1 DEF RootInv, EmbedRoots
  <2>5. EmbedRoots(inbox', rs)
    BY <1>0, <2>1, <2>2, <2>3, <2>4, RootAppend
  <2>6. ASSUME NEW a \in apps' PROVE HasRoot(inbox', rs, ws, a)
    <3>1. HasRoot(inbox, roots, waiting, a) /\ a.name \in Client
      BY <1>0, <2>1 DEF RootInv, Application, Client
    <3>2. Unembedded(inbox, a) => Unembedded(inbox', a)
      BY <1>0, <2>1, <2>2, RootAppend
    <3>3. a.path \in roots[a.name] \ waiting[a.name] => a.path \in rs[a.name] \ ws[a.name]
      BY <2>1, <2>3, <3>1
    <3> QED BY <3>1, <3>2, <3>3 DEF HasRoot
  <2>7. EmbedRoots(inbox', roots') /\ \A a \in apps' : HasRoot(inbox', roots', waiting', a)
    BY <2>5, <2>6
  <2> QED BY <2>1, <2>7 DEF RootInv
<1>17. ASSUME NEW c \in App, NEW p \in Path, CallUnembed(c, p) PROVE RootInv'
  <2> PICK m, rs : m = [kind |-> "Unembed", sender |-> c, path |-> p] /\ rs = roots'
    OBVIOUS
  <2>1. /\ inbox' = Append(inbox, m) /\ apps' = apps /\ p \in roots[c] \ waiting[c]
        /\ rs = [roots EXCEPT ![c] = @ \ {p}] /\ waiting' = waiting
    BY <1>17 DEF CallUnembed, Send, registryVars
  <2>2. m \in Message /\ m.kind = "Unembed" /\ Root(m) = <<c, p>> /\ c \in Client
    BY DEF Message, Client, Root
  <2>3. \A d \in Client : \A x : x \in roots[d] /\ ~(d = c /\ x = p) => x \in rs[d]
    BY <2>1, <2>2 DEF TypeOK
  <2>4. EmbedRoots(inbox, rs)
    <3> SUFFICES ASSUME NEW i \in 1..Len(inbox), inbox[i].kind = "Embed"
                 PROVE  inbox[i].path \in rs[inbox[i].sender]
      BY DEF EmbedRoots
    <3>1. /\ inbox[i].sender \in Client /\ inbox[i].path \in roots[inbox[i].sender]
          /\ inbox[i].path \in waiting[inbox[i].sender]
      BY <1>0, MessageFields DEF Client, RootInv, EmbedRoots, PidInv, PidQueue, EmbedIsLast
    <3> QED BY <2>1, <2>3, <3>1
  <2>5. EmbedRoots(inbox', rs)
    BY <1>0, <2>1, <2>2, <2>4, RootAppend
  <2>6. ASSUME NEW a \in apps' PROVE HasRoot(inbox', rs, waiting, a)
    <3>1. HasRoot(inbox, roots, waiting, a) /\ a.name \in Client
      BY <1>0, <2>1 DEF RootInv, Application, Client
    <3>2. Unembedded(inbox, a) \/ Ref(a) = <<c, p>> => Unembedded(inbox', a)
      BY <1>0, <2>1, <2>2, RootAppend
    <3>3. a.name = c /\ a.path = p => Ref(a) = <<c, p>>
      BY DEF Ref
    <3> QED BY <2>3, <3>1, <3>2, <3>3 DEF HasRoot
  <2>7. EmbedRoots(inbox', roots') /\ \A a \in apps' : HasRoot(inbox', roots', waiting', a)
    BY <2>1, <2>5, <2>6
  <2> QED BY <2>1, <2>7 DEF RootInv
<1> QED
  BY <1>3, <1>4, <1>5, <1>6, <1>7, <1>8, <1>9, <1>10, <1>12, <1>13, <1>14, <1>15, <1>16, <1>17
  DEF Next, RegistryStep, ClientStep
-----------------------------------------------------------------------------
(* A client that follows the signals *)

CoreInv == TypeOK /\ PidInv /\ PingInv /\ RootInv
CatchInv == IsQueue(signals) /\ (joined => Catches(signals, view, Enabled(apps)))

\* Applications whose ids are not used up yet.
LEMMA BoundedApart ==
  ASSUME NEW xs, xs \subseteq Application, NEW n \in Nat, \A a \in xs : a.id < n,
         \A a, b \in xs : a.id = b.id => a = b,
         \A a, b \in xs : Ref(a) = Ref(b) => a = b
  PROVE  AreApart(xs)
<1>1. Ids(xs) \in SUBSET Nat /\ Ids(xs) \in SUBSET (0..n)
  BY DEF Ids, Application
<1>2. IsFiniteSet(0..n)
  BY FS_Interval
<1>3. IsIds(Ids(xs))
  BY <1>1, <1>2, FS_Subset DEF IsIds
<1> QED BY <1>3 DEF AreApart

LEMMA CoreApart == CoreInv => AreApart(apps)
BY BoundedApart DEF CoreInv, TypeOK, PidInv, PidQueue, PidMatches, PingInv, PingQueue, RootInv

LEMMA CoreApartNext == CoreInv' => AreApart(apps')
BY BoundedApart DEF CoreInv, TypeOK, PidInv, PidQueue, PidMatches, PingInv, PingQueue, RootInv

LEMMA CoreInductive == CoreInv /\ [ViewNext]_allVars => CoreInv'
<1> SUFFICES ASSUME CoreInv, [ViewNext]_allVars PROVE CoreInv'
  OBVIOUS
<1>1. CASE Join
  <2>1. UNCHANGED <<registryVars, clientVars, inbox>>
    BY <1>1 DEF Join
  <2> QED BY <2>1 DEF CoreInv, TypeOK, PidInv, PidQueue, GoneIsTrue, EmbedIsLast, PidAwaited,
                      PidMatches, NoWildWrite, PidIsOwn, PingInv, PingQueue, RootInv,
                      registryVars, clientVars
<1>2. CASE [Next]_vars
  BY <1>2, TypeInductive, PidInductive, PingInductive, RootInductive DEF CoreInv
<1> QED BY <1>1, <1>2 DEF ViewNext, Follow, Next, allVars, vars

\* Every step of the registry sends what leads from the old list to the new one.
LEMMA CatchInductive == CoreInv /\ CatchInv /\ [ViewNext]_allVars => CatchInv'
<1> SUFFICES ASSUME CoreInv, CatchInv, [ViewNext]_allVars PROVE CatchInv'
  OBVIOUS
<1> PICK q, xs, v, new, t :
      q = signals /\ xs = Enabled(apps) /\ v = view /\ new = apps' /\ t = signals'
  OBVIOUS
<1>1. AreApart(apps) /\ AreApart(new) /\ IsQueue(q) /\ apps \subseteq Application
  <2>1. AreApart(apps) /\ AreApart(apps')
    BY CoreInductive, CoreApart, CoreApartNext
  <2> QED BY <2>1 DEF CatchInv, CoreInv, TypeOK
\* The registry's steps.
<1>2. ASSUME Carries(q, xs, t, Enabled(new), v), UNCHANGED viewVars PROVE CatchInv'
  <2>1. IsQueue(t) /\ (joined => Catches(t, v, Enabled(new)))
    BY <1>2 DEF Carries, CatchInv
  <2>2. view' = v /\ joined' = joined /\ signals' = t /\ Enabled(apps)' = Enabled(new)
    BY <1>2 DEF viewVars, Enabled
  <2> QED BY <2>1, <2>2 DEF CatchInv
\* Those that announce no application.
<1>3. ASSUME Renewed(apps, new), \/ t = q
                                 \/ \E s : t = Append(q, s) /\ s.kind \notin {"add", "remove"}
      PROVE  Carries(q, xs, t, Enabled(new), v)
  <2>1. \A r : Catches(r, v, xs) => Catches(r, v, Enabled(new))
    BY <1>3, CatchesRenewed
  <2>2. Carries(q, xs, t, xs, v)
    BY <1>1, <1>3, CatchesOther DEF Carries
  <2> QED BY <2>1, <2>2 DEF Carries
<1>4. new = apps => Renewed(apps, new)
  BY DEF Renewed, Alike
<1>5. ASSUME HandleEmbed PROVE Carries(q, xs, t, Enabled(new), v)
  <2> PICK m, one, s :
        /\ m = Head(inbox)
        /\ one = [id |-> nextId, name |-> m.sender, path |-> m.path,
                  disabled |-> FALSE, pending |-> NoRound, pid |-> Null]
        /\ s = ChildrenChanged("add", apps, one)
    OBVIOUS
  <2>1. new = apps \cup {one} /\ t = Append(q, s) /\ one.id = nextId /\ ~one.disabled
    BY <1>5 DEF HandleEmbed
  <2>2. one \notin xs
    BY <2>1 DEF CoreInv, PidInv, PidQueue, PidMatches, TypeOK, Enabled
  <2>3. Enabled(new) = xs \cup {one}
    BY <2>1 DEF Enabled
  <2>4. AreApart(xs \cup {one})
    <3>1. xs \cup {one} \in SUBSET new
      BY <2>1 DEF Enabled
    <3> QED BY <1>1, <3>1, SomeApart
  <2>5. s.kind = "add" /\ s.ref = Ref(one) /\ s.index = Rank(Ids(xs), one.id)
    <3>1. one.id \in Nat
      BY <2>1 DEF CoreInv, TypeOK
    <3> QED BY <1>1, <3>1, IndexIsRank DEF ChildrenChanged
  <2>6. Carries(q, xs, Append(q, s), xs \cup {one}, v)
    BY <1>1, <2>2, <2>4, <2>5, CatchesMore
  <2> QED BY <2>1, <2>3, <2>6
<1>6. ASSUME HandleUnembed \/ HandleNameOwnerChanged PROVE Carries(q, xs, t, Enabled(new), v)
  <2>1. PICK gone : /\ gone \in SUBSET apps /\ new = apps \ gone
                    /\ \/ t = q \o RemoveSignals(gone)
                       \/ \E c : t = q \o Append(RemoveSignals(gone), Deregistered(c, <<>>))
    <3>1. CASE HandleUnembed
      <4> DEFINE same == {a \in apps : Ref(a) = <<Head(inbox).sender, Head(inbox).path>>}
                 first == {a \in same : \A b \in same : a.id <= b.id}
      <4>1. /\ first \in SUBSET apps /\ apps' = apps \ first
            /\ signals' = signals \o RemoveSignals(first)
        BY <3>1 DEF HandleUnembed, RemoveApplications
      <4> HIDE DEF first
      <4> QED BY <4>1
    <3>2. CASE HandleNameOwnerChanged
      <4> DEFINE c == Head(inbox).sender
                 gone == ApplicationsOf(c)
      <4>1. /\ gone \in SUBSET apps /\ apps' = apps \ gone
            /\ signals' = signals \o Append(RemoveSignals(gone), Deregistered(c, <<>>))
        BY <3>2 DEF HandleNameOwnerChanged, RemoveApplications, ApplicationsOf
      <4> HIDE DEF gone, c
      <4> QED BY <4>1
    <3> QED BY <1>6, <3>1, <3>2
  <2> PICK ss : ss = RemoveSignals(gone)
    OBVIOUS
  <2>2. IsQueue(ss) /\ Carries(q, xs, q \o ss, xs \ gone, v)
    <3>1. xs \in SUBSET apps
      BY DEF Enabled
    <3> QED BY <1>1, <2>1, <3>1, CatchesGone
  <2>3. Enabled(new) = xs \ gone
    BY <2>1 DEF Enabled
  <2>4. CASE t = q \o ss
    BY <2>2, <2>3, <2>4
  <2>5. ASSUME NEW c, t = q \o Append(ss, Deregistered(c, <<>>))
        PROVE  Carries(q, xs, t, Enabled(new), v)
    <3> PICK d : d = Deregistered(c, <<>>)
      OBVIOUS
    <3>1. t = Append(q \o ss, d)
      <4>1. PICK Q : q \in Seq(Q)
        BY <1>1 DEF IsQueue
      <4>2. PICK S : ss \in Seq(S)
        BY <2>2 DEF IsQueue
      <4> DEFINE T == Q \cup S \cup {d}
      <4>3. q \in Seq(T) /\ ss \in Seq(T) /\ d \in T
        BY <4>1, <4>2
      <4> HIDE DEF T
      <4> QED BY <2>5, <4>3
    <3>2. d.kind \notin {"add", "remove"}
      BY DEF Deregistered
    <3>3. Carries(q \o ss, xs \ gone, Append(q \o ss, d), xs \ gone, v)
      BY <2>2, <3>2, CatchesOther DEF Carries
    <3> QED BY <2>2, <2>3, <3>1, <3>3 DEF Carries
  <2> QED BY <2>1, <2>4, <2>5
<1>7. ASSUME HandleRegisterEvent \/ HandleDeregisterEvent PROVE Carries(q, xs, t, Enabled(new), v)
  <2>1. new = apps
    BY <1>7 DEF HandleRegisterEvent, HandleDeregisterEvent
  <2>2. \E s : t = Append(q, s) /\ s.kind \notin {"add", "remove"}
    <3>1. CASE HandleRegisterEvent
      <4>1. PICK s : /\ s = [kind |-> "registered", bus |-> Head(inbox).sender,
                             type |-> Head(inbox).type]
                     /\ signals' = Append(signals, s)
        BY <3>1 DEF HandleRegisterEvent
      <4> QED BY <4>1
    <3>2. CASE HandleDeregisterEvent
      <4>1. PICK s : /\ s = Deregistered(Head(inbox).sender, Head(inbox).type)
                     /\ signals' = Append(signals, s)
        BY <3>2 DEF HandleDeregisterEvent
      <4> QED BY <4>1 DEF Deregistered
    <3> QED BY <1>7, <3>1, <3>2
  <2> QED BY <1>3, <1>4, <2>1, <2>2
<1>8. ASSUME HandlePidReply PROVE Carries(q, xs, t, Enabled(new), v)
  <2> DEFINE m == Head(inbox)
             target == PidTarget(m)
  <2>1. t = q /\ \/ new = apps
                 \/ new = (apps \ target) \cup {[a EXCEPT !.pid = m.name] : a \in target}
    BY <1>8 DEF HandlePidReply
  <2>2. target \subseteq apps
    BY DEF PidTarget
  <2>3. \A a \in apps : Alike(a, [a EXCEPT !.pid = m.name]) /\ Alike(a, a)
    BY <1>1 DEF Alike, Ref, Application
  <2> HIDE DEF m, target
  <2>4. Renewed(apps, new)
    BY <1>4, <2>1, <2>2, <2>3 DEF Renewed
  <2> QED BY <1>3, <2>1, <2>4
<1>9. ASSUME HandlePingReply PROVE Carries(q, xs, t, Enabled(new), v)
  <2>1. Head(inbox).ok \in BOOLEAN
    BY <1>9, ConsumeType, MessageFields DEF HandlePingReply, CoreInv
  <2>2. AppPing(Head(inbox).app, Head(inbox).round, Head(inbox).ok)
    BY <1>9 DEF HandlePingReply
  <2> QED BY <1>1, <2>1, <2>2, CatchesPing
<1>10. ASSUME PingTimeout PROVE Carries(q, xs, t, Enabled(new), v)
  <2>1. PICK p \in pings : AppPing(p.app, p.round, FALSE)
    BY <1>10 DEF PingTimeout
  <2> QED BY <1>1, <2>1, CatchesPing
<1>11. ASSUME PingApplications PROVE Carries(q, xs, t, Enabled(new), v)
  <2> DEFINE asked(a) == [a EXCEPT !.pending = 1 - round]
  <2>1. new = {asked(a) : a \in apps} /\ t = q
    BY <1>11 DEF PingApplications
  <2>2. \A a \in apps : Alike(a, asked(a))
    BY <1>1 DEF Alike, Ref, Application
  <2> HIDE DEF asked
  <2>3. Renewed(apps, new)
    BY <2>1, <2>2 DEF Renewed
  <2> QED BY <1>3, <2>1, <2>3
<1>12. ASSUME \/ HandleRegisterKeystrokeListener \/ PollMouse \/ DispatchDeviceCall
              \/ ClientStep
       PROVE  Carries(q, xs, t, Enabled(new), v)
  <2>1. apps' = apps /\ signals' = signals
    BY <1>12 DEF HandleRegisterKeystrokeListener, PollMouse, DispatchDeviceCall, ClientStep,
                 Disconnect, CallRegisterKeystrokeListener, Hang, Recover, CallEmbed, CallUnembed,
                 CallRegisterEvent, CallDeregisterEvent, AnswerPing, registryVars
  <2> QED BY <1>3, <1>4, <2>1
\* The client's.
<1>13. CASE Join
  <2>1. joined' = TRUE /\ view' = GetChildren /\ signals' = <<>> /\ apps' = apps
    BY <1>13 DEF Join, registryVars
  <2>2. Lists(GetChildren, Enabled(apps))
    <3>1. Enabled(apps) \in SUBSET apps
      BY DEF Enabled
    <3>2. AreApart(Enabled(apps))
      BY <1>1, <3>1, SomeApart
    <3> QED BY <3>2, AskedIsListed DEF GetChildren
  <2>3. Catches(<<>>, GetChildren, Enabled(apps))
    BY <2>2, LeadsNowhere DEF Catches
  <2>4. IsQueue(<<>>)
    BY DEF IsQueue
  <2> QED BY <2>1, <2>3, <2>4 DEF CatchInv
<1>14. CASE Follow
  <2>1. /\ q # <<>> /\ t = Tail(q) /\ apps' = apps /\ joined' = joined
        /\ joined => view' = Process(v, Head(q))
    BY <1>14 DEF Follow, Deliver, registryVars
  <2>2. IsQueue(Tail(q))
    <3>1. PICK Q : q \in Seq(Q)
      BY <1>1 DEF IsQueue
    <3> QED BY <2>1, <3>1, TailElements DEF IsQueue
  <2>3. Catches(q, v, xs) => Catches(Tail(q), Process(v, Head(q)), xs)
    BY <1>1, <2>1, LeadsLess DEF Catches
  <2>4. Enabled(apps)' = xs
    BY <2>1 DEF Enabled
  <2> QED BY <2>1, <2>2, <2>3, <2>4 DEF CatchInv
<1>15. CASE UNCHANGED allVars
  <2>1. signals' = signals /\ apps' = apps /\ joined' = joined /\ view' = view
    BY <1>15 DEF allVars, vars, viewVars, registryVars
  <2> QED BY <2>1 DEF CatchInv, Enabled
<1>16. CASE (RegistryStep \/ ClientStep) /\ UNCHANGED viewVars
  BY <1>2, <1>5, <1>6, <1>7, <1>8, <1>9, <1>10, <1>11, <1>12, <1>16 DEF RegistryStep
<1> QED BY <1>13, <1>14, <1>15, <1>16 DEF ViewNext

\* A client that follows the ChildrenChanged signals of the registry has, once it has
\* processed those on their way, the list that GetChildren would return, in the same
\* order, however many applications come, go, hang and recover: every position the
\* registry reports is right for the list as it is when the signal is processed.
THEOREM FollowersCatchUp == ViewSpec => []ViewCatchesUp
<1>1. ViewInit => CoreInv /\ CatchInv
  <2> SUFFICES ASSUME ViewInit PROVE CoreInv /\ CatchInv
    OBVIOUS
  <2>1. TypeOK
    <3>1. inbox \in Seq(Message)
      BY DEF ViewInit, Init
    <3> QED BY <3>1 DEF ViewInit, Init, TypeOK
  <2>2. PidInv /\ PingInv
    BY DEF ViewInit, Init, PidInv, PidQueue, GoneIsTrue, EmbedIsLast, PidAwaited, PidMatches,
           NoWildWrite, PidIsOwn, PingInv, PingQueue
  <2>3. RootInv
    BY DEF ViewInit, Init, RootInv, EmbedRoots
  <2>4. CatchInv
    BY DEF ViewInit, Init, CatchInv, IsQueue
  <2> QED BY <2>1, <2>2, <2>3, <2>4 DEF CoreInv
<1>2. CoreInv /\ CatchInv => ViewCatchesUp
  <2> SUFFICES ASSUME CoreInv, CatchInv, joined PROVE Followed(view, signals) = GetChildren
    BY DEF ViewCatchesUp
  <2>1. AreApart(Enabled(apps))
    <3>1. Enabled(apps) \in SUBSET apps
      BY DEF Enabled
    <3> QED BY <3>1, CoreApart, SomeApart
  <2>2. PICK w : Leads(signals, view, w) /\ Lists(w, Enabled(apps))
    BY DEF CatchInv, Catches
  <2>3. Followed(view, signals) = w
    BY <2>2, FollowedIs DEF CatchInv
  <2>4. Lists(GetChildren, Enabled(apps))
    BY <2>1, AskedIsListed DEF GetChildren
  <2> QED BY <2>1, <2>2, <2>3, <2>4, OneList
<1> QED
  BY <1>1, <1>2, CoreInductive, CatchInductive, PTL DEF ViewSpec
=============================================================================

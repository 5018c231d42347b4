---------------------------- MODULE BridgeProofs ----------------------------
(***************************************************************************)
(* For any number of ATs, types, messages and losses of the registry.      *)
(*                                                                         *)
(* The loss of an assistive technology reaches the bridge in order: what   *)
(* the registry and the bridge are told of it first is undone by what they *)
(* are told of it last.                                                    *)
(*                                                                         *)
(* What is listened to reaches the application: a registration is on its   *)
(* way to the registry, or from it, or in the bridge's mirror, with        *)
(* nothing behind it that undoes it; or the application has yet to ask; or *)
(* the client has yet to hear that the registry was lost.                  *)
(***************************************************************************)
EXTENDS Bridge, FiniteSetTheorems, TLAPS

-----------------------------------------------------------------------------
(* What is on its way *)

Registration == AT \X EventType

CallMessage ==
       [kind : {"RegisterEvent", "DeregisterEvent"}, at : AT, type : EventType]
  \cup [kind : {"Gone"}, at : AT]
  \cup [kind : {"Embed", "GetRegisteredEvents"}]

AppMessage ==
       [kind : {"Registered"}, at : AT, type : EventType]
  \cup [kind : {"Deregistered"}, at : AT, type : Seq(STRING)]
  \cup [kind : {"Gone"}, at : AT]
  \cup [kind : {"EventsReply"}, events : SUBSET Registration]
  \cup [kind : {"KeysReply"}, clients : SUBSET AT]
  \cup [kind : {"EmbedReply", "RegistryGone", "RegistryNew"}]

\* The bus will tell the registry, after the i-th message for it, that at is gone.
GoneWaits(at, i) ==
  \E j \in DOMAIN calls : j > i /\ calls[j] = [kind |-> "Gone", at |-> at]

\* The registry has told the bridge so, after the i-th message for the bridge.
Ending(at) == [kind |-> "Deregistered", at |-> at, type |-> <<>>]
EndWaits(at, i) == \E j \in DOMAIN appBox : j > i /\ appBox[j] = Ending(at)

Of(at, registrations) == \E e \in registrations : e[1] = at

\* A message that tells the bridge of a registration of at.
Tells(m, at) ==
  \/ m.kind = "Registered" /\ m.at = at
  \/ m.kind = "EventsReply" /\ Of(at, m.events)

\* For each trace of an AT that is gone, its end follows.
Forgotten(at) ==
  /\ Of(at, registered) => GoneWaits(at, 0)
  /\ \A i \in DOMAIN calls :
       calls[i].kind = "RegisterEvent" /\ calls[i].at = at => GoneWaits(at, i)
  /\ Of(at, mirror) => GoneWaits(at, 0) \/ EndWaits(at, 0)
  /\ \A i \in DOMAIN appBox : Tells(appBox[i], at) => GoneWaits(at, 0) \/ EndWaits(at, i)

\* While the registry has not been lost.
Messages ==
  /\ up /\ started \in BOOLEAN
  /\ calls \in Seq(CallMessage) /\ appBox \in Seq(AppMessage)
  /\ registered \subseteq Registration /\ mirror \subseteq Registration
  /\ connected \in [AT -> BOOLEAN]
  /\ \A at \in AT : notices[at] = <<>>
  /\ ~started => appBox = <<>> /\ mirror = {}

AllForgotten == \A at \in AT : ~connected[at] => Forgotten(at)

UndoInv == crashes \in Nat /\ (crashes = 0 => Messages /\ AllForgotten)

-----------------------------------------------------------------------------
(* Queues *)

LEMMA Appended ==
  ASSUME NEW S, NEW s \in Seq(S), NEW m \in S
  PROVE  /\ Append(s, m) \in Seq(S) /\ s \o <<m>> \in Seq(S)
         /\ DOMAIN Append(s, m) = 1..(Len(s) + 1) /\ DOMAIN s = 1..Len(s)
         /\ DOMAIN (s \o <<m>>) = 1..(Len(s) + 1) /\ Len(s) \in Nat
         /\ Append(s, m)[Len(s) + 1] = m /\ (s \o <<m>>)[Len(s) + 1] = m
         /\ \A i \in 1..Len(s) : Append(s, m)[i] = s[i] /\ (s \o <<m>>)[i] = s[i]
  OBVIOUS

LEMMA Taken ==
  ASSUME NEW S, NEW s \in Seq(S), s # <<>>
  PROVE  /\ Tail(s) \in Seq(S) /\ Head(s) \in S /\ Head(s) = s[1]
         /\ DOMAIN s = 1..Len(s) /\ Len(s) \in Nat \ {0}
         /\ DOMAIN Tail(s) = 1..(Len(s) - 1)
         /\ \A i \in 1..(Len(s) - 1) : Tail(s)[i] = s[i + 1]
  OBVIOUS

\* A message for the registry that does not begin a registration of an AT that
\* is gone.
LEMMA CallSent ==
  ASSUME Messages, NEW c \in CallMessage, calls' = Append(calls, c)
  PROVE  /\ calls' \in Seq(CallMessage)
         /\ \A at \in AT : \A i \in Nat : GoneWaits(at, i) => GoneWaits(at, i)'
         /\ \A at \in AT : (\A i \in DOMAIN calls : calls[i].kind = "RegisterEvent"
                              /\ calls[i].at = at => GoneWaits(at, i))
              /\ ~(c.kind = "RegisterEvent" /\ c.at = at)
              => \A i \in DOMAIN calls' : calls'[i].kind = "RegisterEvent"
                   /\ calls'[i].at = at => GoneWaits(at, i)'
<1>1. /\ calls' \in Seq(CallMessage) /\ DOMAIN calls = 1..Len(calls)
      /\ DOMAIN calls' = 1..(Len(calls) + 1) /\ Len(calls) \in Nat
      /\ calls'[Len(calls) + 1] = c
      /\ \A i \in 1..Len(calls) : calls'[i] = calls[i]
  BY Appended DEF Messages
<1>2. \A at \in AT : \A i \in Nat : GoneWaits(at, i) => GoneWaits(at, i)'
  BY <1>1 DEF GoneWaits
<1>3. ASSUME NEW at \in AT,
             \A i \in DOMAIN calls : calls[i].kind = "RegisterEvent"
                              /\ calls[i].at = at => GoneWaits(at, i),
             ~(c.kind = "RegisterEvent" /\ c.at = at),
             NEW i \in DOMAIN calls', calls'[i].kind = "RegisterEvent", calls'[i].at = at
      PROVE  GoneWaits(at, i)'
  <2>1. i \in 1..Len(calls) /\ i \in Nat /\ calls'[i] = calls[i]
    BY <1>1, <1>3
  <2>2. GoneWaits(at, i)
    BY <1>1, <1>3, <2>1
  <2> QED
    BY <1>2, <2>1, <2>2
<1> QED
  BY <1>1, <1>2, <1>3

\* The registry takes a message.
LEMMA CallTaken ==
  ASSUME Messages, calls # <<>>, calls' = Tail(calls)
  PROVE  /\ calls' \in Seq(CallMessage) /\ Head(calls) \in CallMessage
         /\ Head(calls) = calls[1] /\ 1 \in DOMAIN calls
         /\ \A at \in AT : \A i \in Nat : GoneWaits(at, i + 1) => GoneWaits(at, i)'
         /\ \A at \in AT : calls[1] # [kind |-> "Gone", at |-> at]
              => (GoneWaits(at, 0) => GoneWaits(at, 0)')
         /\ \A at \in AT : (\A i \in DOMAIN calls : calls[i].kind = "RegisterEvent"
                              /\ calls[i].at = at => GoneWaits(at, i))
              => \A i \in DOMAIN calls' : calls'[i].kind = "RegisterEvent"
                   /\ calls'[i].at = at => GoneWaits(at, i)'
<1>1. /\ calls' \in Seq(CallMessage) /\ Head(calls) \in CallMessage
      /\ Head(calls) = calls[1] /\ DOMAIN calls = 1..Len(calls) /\ Len(calls) \in Nat \ {0}
      /\ DOMAIN calls' = 1..(Len(calls) - 1)
      /\ \A i \in 1..(Len(calls) - 1) : calls'[i] = calls[i + 1]
  BY Taken DEF Messages
<1>2. ASSUME NEW at \in AT, NEW i \in Nat, GoneWaits(at, i + 1)
      PROVE  GoneWaits(at, i)'
  <2>1. PICK j \in DOMAIN calls : j > i + 1 /\ calls[j] = [kind |-> "Gone", at |-> at]
    BY <1>2 DEF GoneWaits
  <2>2. j - 1 \in DOMAIN calls' /\ j - 1 > i /\ (j - 1) + 1 = j
    BY <1>1, <2>1
  <2>3. calls'[j - 1] = calls[j]
    BY <1>1, <2>2
  <2> QED
    BY <2>1, <2>2, <2>3 DEF GoneWaits
<1>3. ASSUME NEW at \in AT, calls[1] # [kind |-> "Gone", at |-> at], GoneWaits(at, 0)
      PROVE  GoneWaits(at, 0)'
  <2>1. PICK j \in DOMAIN calls : j > 0 /\ calls[j] = [kind |-> "Gone", at |-> at]
    BY <1>3 DEF GoneWaits
  <2>2. j > 0 + 1
    BY <1>1, <1>3, <2>1
  <2>3. GoneWaits(at, 0 + 1)
    BY <2>1, <2>2 DEF GoneWaits
  <2> QED
    BY <1>2, <2>3
<1>4. ASSUME NEW at \in AT,
             \A i \in DOMAIN calls : calls[i].kind = "RegisterEvent"
                              /\ calls[i].at = at => GoneWaits(at, i),
             NEW i \in DOMAIN calls', calls'[i].kind = "RegisterEvent", calls'[i].at = at
      PROVE  GoneWaits(at, i)'
  <2>1. i \in Nat /\ i + 1 \in DOMAIN calls /\ calls'[i] = calls[i + 1]
    BY <1>1
  <2>2. GoneWaits(at, i + 1)
    BY <1>4, <2>1
  <2> QED
    BY <1>2, <2>1, <2>2
<1> QED
  BY <1>1, <1>2, <1>3, <1>4

\* A message for the bridge, which is told if it is started.
LEMMA AppTold ==
  ASSUME Messages, NEW m \in AppMessage, ToApp(<<m>>), UNCHANGED started
  PROVE  /\ appBox' \in Seq(AppMessage) /\ (~started' => appBox' = <<>>)
         /\ \A at \in AT : \A i \in Nat : EndWaits(at, i) => EndWaits(at, i)'
         /\ \A i \in DOMAIN appBox' : \/ i \in DOMAIN appBox /\ appBox'[i] = appBox[i]
                                      \/ appBox'[i] = m
         /\ \A at \in AT : m = Ending(at) /\ started =>
              /\ EndWaits(at, 0)'
              /\ \A i \in DOMAIN appBox' : Tells(appBox'[i], at) => EndWaits(at, i)'
<1>1. CASE ~started
  <2>1. appBox' = appBox
    BY <1>1 DEF ToApp
  <2> QED
    BY <1>1, <2>1 DEF Messages, EndWaits
<1>2. CASE started
  <2>1. /\ appBox' \in Seq(AppMessage) /\ DOMAIN appBox = 1..Len(appBox)
        /\ DOMAIN appBox' = 1..(Len(appBox) + 1) /\ Len(appBox) \in Nat
        /\ appBox'[Len(appBox) + 1] = m
        /\ \A i \in 1..Len(appBox) : appBox'[i] = appBox[i]
    BY <1>2, Appended DEF Messages, ToApp
  <2>2. \A at \in AT : \A i \in Nat : EndWaits(at, i) => EndWaits(at, i)'
    BY <2>1 DEF EndWaits
  <2>3. \A i \in DOMAIN appBox' : \/ i \in DOMAIN appBox /\ appBox'[i] = appBox[i]
                                  \/ appBox'[i] = m /\ i = Len(appBox) + 1
    BY <2>1
  <2>4. ASSUME NEW at \in AT, m = Ending(at)
        PROVE  \A i \in 0..Len(appBox) : EndWaits(at, i)'
    BY <2>1, <2>4 DEF EndWaits
  <2>5. ASSUME NEW at \in AT, m = Ending(at)
        PROVE  \A i \in DOMAIN appBox' : Tells(appBox'[i], at) => EndWaits(at, i)'
    <3>1. m.kind = "Deregistered"
      BY <2>5 DEF Ending
    <3>2. ~Tells(m, at)
      BY <3>1 DEF Tells
    <3>3. \A i \in DOMAIN appBox' : Tells(appBox'[i], at) => i \in 0..Len(appBox)
      BY <2>1, <2>3, <3>2
    <3> QED
      BY <2>4, <2>5, <3>3
  <2>6. \A at \in AT : m = Ending(at) => EndWaits(at, 0)'
    BY <2>1, <2>4
  <2> QED
    BY <1>2, <2>1, <2>2, <2>3, <2>5, <2>6
<1> QED
  BY <1>1, <1>2 DEF Messages

\* The bridge takes a message.
LEMMA AppTaken ==
  ASSUME Messages, appBox # <<>>, appBox' = Tail(appBox)
  PROVE  /\ appBox' \in Seq(AppMessage) /\ Head(appBox) \in AppMessage
         /\ Head(appBox) = appBox[1] /\ 1 \in DOMAIN appBox
         /\ \A at \in AT : \A i \in Nat : EndWaits(at, i + 1) => EndWaits(at, i)'
         /\ \A at \in AT : appBox[1] # Ending(at) => (EndWaits(at, 0) => EndWaits(at, 0)')
         /\ \A i \in DOMAIN appBox' :
              i \in Nat /\ i + 1 \in DOMAIN appBox /\ appBox'[i] = appBox[i + 1]
<1>1. /\ appBox' \in Seq(AppMessage) /\ Head(appBox) \in AppMessage
      /\ Head(appBox) = appBox[1] /\ DOMAIN appBox = 1..Len(appBox)
      /\ Len(appBox) \in Nat \ {0} /\ DOMAIN appBox' = 1..(Len(appBox) - 1)
      /\ \A i \in 1..(Len(appBox) - 1) : appBox'[i] = appBox[i + 1]
  BY Taken DEF Messages
<1>2. ASSUME NEW at \in AT, NEW i \in Nat, EndWaits(at, i + 1)
      PROVE  EndWaits(at, i)'
  <2>1. PICK j \in DOMAIN appBox : j > i + 1 /\ appBox[j] = Ending(at)
    BY <1>2 DEF EndWaits
  <2>2. j - 1 \in DOMAIN appBox' /\ j - 1 > i /\ (j - 1) + 1 = j
    BY <1>1, <2>1
  <2>3. appBox'[j - 1] = appBox[j]
    BY <1>1, <2>2
  <2> QED
    BY <2>1, <2>2, <2>3 DEF EndWaits
<1>3. ASSUME NEW at \in AT, appBox[1] # Ending(at), EndWaits(at, 0)
      PROVE  EndWaits(at, 0)'
  <2>1. PICK j \in DOMAIN appBox : j > 0 /\ appBox[j] = Ending(at)
    BY <1>3 DEF EndWaits
  <2>2. j > 0 + 1
    BY <1>1, <1>3, <2>1
  <2>3. EndWaits(at, 0 + 1)
    BY <2>1, <2>2 DEF EndWaits
  <2> QED
    BY <1>2, <2>3
<1>4. \A i \in DOMAIN appBox' :
        i \in Nat /\ i + 1 \in DOMAIN appBox /\ appBox'[i] = appBox[i + 1]
  BY <1>1
<1> QED
  BY <1>1, <1>2, <1>3, <1>4

-----------------------------------------------------------------------------
(* Who is forgotten *)

\* What is asked of the calls of one AT.
CallsForgotten(at) ==
  \A i \in DOMAIN calls :
    calls[i].kind = "RegisterEvent" /\ calls[i].at = at => GoneWaits(at, i)

\* The bridge takes a message and may call the registry.
LEMMA AppHandles ==
  ASSUME Messages, AllForgotten, appBox # <<>>, appBox' = Tail(appBox),
         \/ calls' = calls
         \/ \E c \in CallMessage : c.kind # "RegisterEvent" /\ calls' = Append(calls, c),
         UNCHANGED <<up, started, registered, connected, notices>>,
         mirror' \subseteq Registration,
         \A at \in AT : Of(at, mirror') => Of(at, mirror) \/ Tells(appBox[1], at),
         \A at \in AT : appBox[1] = Ending(at) => ~Of(at, mirror')
  PROVE  Messages' /\ AllForgotten'
<1>1. /\ calls' \in Seq(CallMessage)
      /\ \A at \in AT : \A i \in Nat : GoneWaits(at, i) => GoneWaits(at, i)'
      /\ \A at \in AT : CallsForgotten(at) => CallsForgotten(at)'
  <2>1. CASE calls' = calls
    BY <2>1 DEF Messages, GoneWaits, CallsForgotten
  <2>2. CASE \E c \in CallMessage : c.kind # "RegisterEvent" /\ calls' = Append(calls, c)
    BY <2>2, CallSent DEF CallsForgotten
  <2> QED
    BY <2>1, <2>2
<1>2. /\ appBox' \in Seq(AppMessage)
      /\ 1 \in DOMAIN appBox
      /\ \A at \in AT : \A i \in Nat : EndWaits(at, i + 1) => EndWaits(at, i)'
      /\ \A at \in AT : appBox[1] # Ending(at) => (EndWaits(at, 0) => EndWaits(at, 0)')
      /\ \A i \in DOMAIN appBox' :
           i \in Nat /\ i + 1 \in DOMAIN appBox /\ appBox'[i] = appBox[i + 1]
  BY AppTaken
<1>3. Messages'
  BY <1>1, <1>2 DEF Messages
<1>4. ASSUME NEW at \in AT, ~connected[at]
      PROVE  Forgotten(at)'
  <2>1. Forgotten(at)
    BY <1>4 DEF AllForgotten
  <2>2. 0 \in Nat /\ 0 + 1 = 1
    OBVIOUS
  <2>3. Of(at, registered') => GoneWaits(at, 0)'
    BY <1>1, <2>1, <2>2 DEF Forgotten
  <2>4. CallsForgotten(at)'
    BY <1>1, <2>1 DEF Forgotten, CallsForgotten
  <2>5. ASSUME Of(at, mirror') PROVE GoneWaits(at, 0)' \/ EndWaits(at, 0)'
    <3>1. appBox[1] # Ending(at)
      BY <2>5
    <3>2. CASE Of(at, mirror)
      BY <1>1, <1>2, <2>1, <2>2, <3>1, <3>2 DEF Forgotten
    <3>3. CASE Tells(appBox[1], at)
      <4>1. GoneWaits(at, 0) \/ EndWaits(at, 0 + 1)
        BY <1>2, <2>1, <2>2, <3>3 DEF Forgotten
      <4> QED
        BY <1>1, <1>2, <2>2, <4>1
    <3> QED
      BY <2>5, <3>2, <3>3
  <2>6. ASSUME NEW i \in DOMAIN appBox', Tells(appBox'[i], at)
        PROVE  GoneWaits(at, 0)' \/ EndWaits(at, i)'
    <3>1. i \in Nat /\ i + 1 \in DOMAIN appBox /\ Tells(appBox[i + 1], at)
      BY <1>2, <2>6
    <3>2. GoneWaits(at, 0) \/ EndWaits(at, i + 1)
      BY <2>1, <3>1 DEF Forgotten
    <3> QED
      BY <1>1, <1>2, <2>2, <3>1, <3>2
  <2> QED
    BY <2>3, <2>4, <2>5, <2>6 DEF Forgotten, CallsForgotten
<1> QED
  BY <1>3, <1>4 DEF AllForgotten

\* The registry takes a call and tells the bridge of it, with a message that names
\* nobody whose end has been taken.
LEMMA RegistryHandles ==
  ASSUME Messages, AllForgotten, calls # <<>>, calls' = Tail(calls),
         UNCHANGED <<up, started, mirror, connected, notices>>,
         registered' \subseteq Registration,
         NEW m \in AppMessage, ToApp(<<m>>),
         \A at \in AT : ~connected[at] =>
           \/ calls[1] = [kind |-> "Gone", at |-> at]
           \/ Of(at, registered') \/ Tells(m, at) => GoneWaits(at, 0)',
         \A at \in AT : calls[1] = [kind |-> "Gone", at |-> at] =>
           ~Of(at, registered') /\ m = Ending(at)
  PROVE  Messages' /\ AllForgotten'
<1>1. /\ calls' \in Seq(CallMessage) /\ 1 \in DOMAIN calls
      /\ \A at \in AT : calls[1] # [kind |-> "Gone", at |-> at]
           => (GoneWaits(at, 0) => GoneWaits(at, 0)')
      /\ \A at \in AT : CallsForgotten(at) => CallsForgotten(at)'
  BY CallTaken DEF CallsForgotten
<1>2. /\ appBox' \in Seq(AppMessage) /\ (~started' => appBox' = <<>>)
      /\ \A at \in AT : \A i \in Nat : EndWaits(at, i) => EndWaits(at, i)'
      /\ \A i \in DOMAIN appBox' : \/ i \in DOMAIN appBox /\ appBox'[i] = appBox[i]
                                   \/ appBox'[i] = m
      /\ \A at \in AT : m = Ending(at) /\ started =>
           /\ EndWaits(at, 0)'
           /\ \A i \in DOMAIN appBox' : Tells(appBox'[i], at) => EndWaits(at, i)'
  BY AppTold
<1>3. Messages'
  BY <1>1, <1>2 DEF Messages
<1>4. ASSUME NEW at \in AT, ~connected[at]
      PROVE  Forgotten(at)'
  <2>1. Forgotten(at) /\ CallsForgotten(at)'
    BY <1>1, <1>4 DEF AllForgotten, Forgotten, CallsForgotten
  <2>2. CASE calls[1] = [kind |-> "Gone", at |-> at]
    <3>1. ~Of(at, registered') /\ m = Ending(at)
      BY <2>2
    <3>2. CASE started
      BY <1>2, <2>1, <3>1, <3>2 DEF Forgotten, CallsForgotten
    <3>3. CASE ~started
      <4>1. mirror' = {} /\ appBox' = <<>>
        BY <1>2, <3>3 DEF Messages
      <4> QED
        BY <2>1, <3>1, <4>1 DEF Forgotten, CallsForgotten, Of
    <3> QED
      BY <3>2, <3>3
  <2>3. CASE calls[1] # [kind |-> "Gone", at |-> at]
    <3>1. /\ GoneWaits(at, 0) => GoneWaits(at, 0)'
          /\ Of(at, registered') \/ Tells(m, at) => GoneWaits(at, 0)'
      BY <1>1, <1>4, <2>3
    <3>2. Of(at, mirror') => GoneWaits(at, 0)' \/ EndWaits(at, 0)'
      <4>1. Of(at, mirror) => GoneWaits(at, 0) \/ EndWaits(at, 0)
        BY <2>1 DEF Forgotten
      <4>2. EndWaits(at, 0) => EndWaits(at, 0)'
        BY <1>2
      <4> QED
        BY <3>1, <4>1, <4>2
    <3>3. ASSUME NEW i \in DOMAIN appBox', Tells(appBox'[i], at)
          PROVE  GoneWaits(at, 0)' \/ EndWaits(at, i)'
      <4>1. CASE appBox'[i] = m
        BY <3>1, <3>3, <4>1
      <4>2. CASE i \in DOMAIN appBox /\ appBox'[i] = appBox[i]
        <5>1. i \in Nat
          BY <4>2 DEF Messages
        <5>2. GoneWaits(at, 0) \/ EndWaits(at, i)
          BY <2>1, <3>3, <4>2 DEF Forgotten
        <5> QED
          BY <1>2, <3>1, <5>1, <5>2
      <4> QED
        BY <1>2, <4>1, <4>2
    <3> QED
      BY <2>1, <3>1, <3>2, <3>3 DEF Forgotten, CallsForgotten
  <2> QED
    BY <2>2, <2>3
<1> QED
  BY <1>3, <1>4 DEF AllForgotten

\* Somebody who is connected sends a message to the registry.
LEMMA ClientSends ==
  ASSUME Messages, AllForgotten, NEW c \in CallMessage, calls' = Append(calls, c),
         c.kind = "RegisterEvent" => connected[c.at],
         UNCHANGED <<up, registered, mirror, connected, notices, appBox>>,
         started' \in BOOLEAN, started => started'
  PROVE  Messages' /\ AllForgotten'
<1>1. /\ calls' \in Seq(CallMessage)
      /\ \A at \in AT : \A i \in Nat : GoneWaits(at, i) => GoneWaits(at, i)'
      /\ \A at \in AT : CallsForgotten(at) /\ ~(c.kind = "RegisterEvent" /\ c.at = at)
           => CallsForgotten(at)'
  BY CallSent DEF CallsForgotten
<1>2. Messages'
  BY <1>1 DEF Messages
<1>3. ASSUME NEW at \in AT, ~connected[at]
      PROVE  Forgotten(at)'
  <2>1. Forgotten(at)
    BY <1>3 DEF AllForgotten
  <2>2. CallsForgotten(at)'
    BY <1>1, <1>3, <2>1 DEF Forgotten, CallsForgotten
  <2>3. /\ GoneWaits(at, 0) => GoneWaits(at, 0)'
        /\ \A i \in Nat \cup DOMAIN appBox : EndWaits(at, i)' <=> EndWaits(at, i)
    BY <1>1 DEF EndWaits
  <2> QED
    BY <2>1, <2>2, <2>3 DEF Forgotten, CallsForgotten
<1> QED
  BY <1>2, <1>3 DEF AllForgotten

\* An AT dies.  The bus tells the registry after all that the AT has sent.
LEMMA Dies ==
  ASSUME Messages, AllForgotten, NEW a \in AT, Die(a)
  PROVE  Messages' /\ AllForgotten'
<1> DEFINE c == [kind |-> "Gone", at |-> a]
<1>1. /\ calls' = Append(calls, c) /\ c \in CallMessage /\ c.kind = "Gone"
      /\ connected' = [connected EXCEPT ![a] = FALSE]
      /\ notices' = [notices EXCEPT ![a] = <<>>]
      /\ UNCHANGED <<up, started, registered, mirror>>
      /\ ToApp(IF a \in clients THEN <<c>> ELSE <<>>)
  BY DEF Die, Messages, registryVars, appVars, CallMessage
<1>2. /\ appBox' \in Seq(AppMessage) /\ (~started' => appBox' = <<>>)
      /\ \A at \in AT : \A i \in Nat : EndWaits(at, i) => EndWaits(at, i)'
      /\ \A i \in DOMAIN appBox' : \/ i \in DOMAIN appBox /\ appBox'[i] = appBox[i]
                                   \/ appBox'[i] = c
  <2>1. CASE a \in clients
    <3>1. c \in AppMessage
      BY DEF AppMessage
    <3>2. ToApp(<<c>>) /\ UNCHANGED started
      BY <1>1, <2>1
    <3> HIDE DEF c
    <3> QED
      BY <3>1, <3>2, AppTold
  <2>2. CASE a \notin clients
    <3>1. ToApp(<<>>)
      BY <1>1, <2>2
    <3>2. appBox' = appBox
      BY <3>1 DEF ToApp, Messages
    <3> QED
      BY <1>1, <3>2 DEF Messages, EndWaits
  <2> QED
    BY <2>1, <2>2
<1>3. /\ calls' \in Seq(CallMessage)
      /\ \A at \in AT : \A i \in Nat : GoneWaits(at, i) => GoneWaits(at, i)'
      /\ \A at \in AT : CallsForgotten(at) => CallsForgotten(at)'
  <2> HIDE DEF c
  <2> QED
    BY <1>1, CallSent DEF CallsForgotten
<1>4. GoneWaits(a, 0)' /\ CallsForgotten(a)'
  <2>1. /\ DOMAIN calls' = 1..(Len(calls) + 1) /\ Len(calls) \in Nat
        /\ calls'[Len(calls) + 1] = c
    <3> HIDE DEF c
    <3> QED
      BY <1>1, Appended DEF Messages
  <2>2. ASSUME NEW i \in Nat, i < Len(calls) + 1 PROVE GoneWaits(a, i)'
    BY <2>1, <2>2 DEF GoneWaits
  <2>3. ASSUME NEW i \in DOMAIN calls', calls'[i].kind = "RegisterEvent"
        PROVE  GoneWaits(a, i)'
    <3>1. i # Len(calls) + 1
      BY <1>1, <2>1, <2>3
    <3> QED
      BY <2>1, <2>2, <3>1
  <2> QED
    BY <2>1, <2>2, <2>3 DEF CallsForgotten
<1>5. Messages'
  BY <1>1, <1>2, <1>3 DEF Messages
<1>6. ASSUME NEW at \in AT, ~connected'[at]
      PROVE  Forgotten(at)'
  <2>1. CASE at = a
    BY <1>4, <2>1 DEF Forgotten, CallsForgotten
  <2>2. CASE at # a
    <3>1. Forgotten(at)
      BY <1>1, <1>6, <2>2 DEF AllForgotten, Messages
    <3>2. CallsForgotten(at)' /\ (GoneWaits(at, 0) => GoneWaits(at, 0)')
      BY <1>3, <3>1 DEF Forgotten, CallsForgotten
    <3>3. ASSUME NEW i \in DOMAIN appBox', Tells(appBox'[i], at)
          PROVE  GoneWaits(at, 0)' \/ EndWaits(at, i)'
      <4>1. i \in DOMAIN appBox /\ appBox'[i] = appBox[i] /\ i \in Nat
        BY <1>1, <1>2, <3>3 DEF Tells, Messages
      <4> QED
        BY <1>2, <3>1, <3>2, <3>3, <4>1 DEF Forgotten
    <3>4. Of(at, mirror') => GoneWaits(at, 0)' \/ EndWaits(at, 0)'
      BY <1>1, <1>2, <3>1, <3>2 DEF Forgotten
    <3>5. Of(at, registered') => GoneWaits(at, 0)'
      BY <1>1, <3>1, <3>2 DEF Forgotten
    <3> QED
      BY <3>2, <3>3, <3>4, <3>5 DEF Forgotten, CallsForgotten
  <2> QED
    BY <2>1, <2>2
<1> QED
  BY <1>5, <1>6 DEF AllForgotten

-----------------------------------------------------------------------------
(* Every step *)

\* What the registry does with a call.
LEMMA RegistrySteps ==
  ASSUME Messages, AllForgotten,
         \/ HandleRegisterEvent \/ HandleDeregisterEvent \/ HandleGone
         \/ HandleEmbed \/ HandleGetRegisteredEvents
  PROVE  Messages' /\ AllForgotten'
<1>1. /\ calls # <<>> /\ calls' = Tail(calls) /\ Head(calls) = calls[1]
      /\ Head(calls) \in CallMessage /\ 1 \in DOMAIN calls
      /\ UNCHANGED <<up, started, mirror, connected, notices>>
  <2>1. calls # <<>> /\ calls' = Tail(calls)
    BY DEF HandleRegisterEvent, HandleDeregisterEvent, HandleGone, HandleEmbed,
       HandleGetRegisteredEvents, Called, Consume
  <2>2. UNCHANGED <<up, started, mirror, connected, notices>>
    BY DEF HandleRegisterEvent, HandleDeregisterEvent, HandleGone, HandleEmbed,
       HandleGetRegisteredEvents, registryVars, appVars, atVars
  <2>3. Head(calls) = calls[1] /\ Head(calls) \in CallMessage /\ 1 \in DOMAIN calls
    BY <2>1, CallTaken
  <2> QED
    BY <2>1, <2>2, <2>3
<1>2. /\ \A at \in AT : \A i \in Nat : GoneWaits(at, i + 1) => GoneWaits(at, i)'
      /\ \A at \in AT : calls[1] # [kind |-> "Gone", at |-> at]
           => (GoneWaits(at, 0) => GoneWaits(at, 0)')
  BY <1>1, CallTaken
<1>3. \A at \in AT : ~connected[at] => (Of(at, registered) => GoneWaits(at, 0))
  BY DEF AllForgotten, Forgotten
<1>4. CASE HandleRegisterEvent
  <2> DEFINE c == calls[1]
             m == [c EXCEPT !.kind = "Registered"]
  <2>1. c.kind = "RegisterEvent" /\ c \in CallMessage
    BY <1>1, <1>4 DEF HandleRegisterEvent, Called
  <2>2. c \in [kind : {"RegisterEvent", "DeregisterEvent"}, at : AT, type : EventType]
    BY <2>1 DEF CallMessage
  <2>3. m \in [kind : {"Registered"}, at : AT, type : EventType] /\ m.at = c.at
        /\ m.kind = "Registered"
    BY <2>2
  <2>4. m \in AppMessage
    BY <2>3 DEF AppMessage
  <2>5. registered' = registered \cup {<<c.at, c.type>>} /\ ToApp(<<m>>)
    BY <1>1, <1>4 DEF HandleRegisterEvent
  <2>6. registered' \subseteq Registration
    BY <2>2, <2>5 DEF Messages, Registration
  <2>7. \A at \in AT : c # [kind |-> "Gone", at |-> at]
    BY <2>1
  <2>8. ASSUME NEW at \in AT, ~connected[at], Of(at, registered') \/ Tells(m, at)
        PROVE  GoneWaits(at, 0)'
    <3>1. Of(at, registered) \/ at = c.at
      BY <2>3, <2>5, <2>8 DEF Of, Tells
    <3>2. CASE Of(at, registered)
      BY <1>2, <1>3, <2>7, <2>8, <3>2
    <3>3. CASE at = c.at
      <4>1. GoneWaits(at, 0 + 1)
        BY <1>1, <2>1, <2>8, <3>3 DEF AllForgotten, Forgotten
      <4> QED
        BY <1>2, <4>1
    <3> QED
      BY <3>1, <3>2, <3>3
  <2> HIDE DEF m
  <2> QED
    BY <1>1, <2>4, <2>5, <2>6, <2>7, <2>8, RegistryHandles
<1>5. ASSUME NEW m \in AppMessage, ToApp(<<m>>), registered' = registered,
             calls[1].kind # "Gone", \A at \in AT : Tells(m, at) => Of(at, registered)
      PROVE  Messages' /\ AllForgotten'
  <2>1. \A at \in AT : calls[1] # [kind |-> "Gone", at |-> at]
    BY <1>5
  <2>2. \A at \in AT : ~connected[at] =>
          (Of(at, registered') \/ Tells(m, at) => GoneWaits(at, 0)')
    BY <1>2, <1>3, <1>5, <2>1
  <2>3. registered' \subseteq Registration
    BY <1>5 DEF Messages
  <2> QED
    BY <1>1, <1>5, <2>1, <2>2, <2>3, RegistryHandles
<1>6. CASE HandleDeregisterEvent
  <2> DEFINE c == calls[1]
             m == [c EXCEPT !.kind = "Deregistered"]
  <2>1. c.kind = "DeregisterEvent" /\ c \in CallMessage
    BY <1>1, <1>6 DEF HandleDeregisterEvent, Called
  <2>2. c \in [kind : {"RegisterEvent", "DeregisterEvent"}, at : AT, type : EventType]
    BY <2>1 DEF CallMessage
  <2>3. /\ m \in [kind : {"Deregistered"}, at : AT, type : Seq(STRING)]
        /\ m.kind = "Deregistered"
    BY <2>2, TypeAssumption
  <2>4. m \in AppMessage /\ \A at \in AT : ~Tells(m, at)
    BY <2>3 DEF AppMessage, Tells
  <2>5. ToApp(<<m>>) /\ registered' = registered
    BY <1>1, <1>6 DEF HandleDeregisterEvent, registryVars
  <2> HIDE DEF m
  <2> QED
    BY <1>5, <2>1, <2>4, <2>5
<1>7. CASE HandleEmbed
  <2>1. [kind |-> "EmbedReply"] \in AppMessage
    BY DEF AppMessage
  <2>2. ToApp(<<[kind |-> "EmbedReply"]>>) /\ registered' = registered /\ calls[1].kind = "Embed"
    BY <1>1, <1>7 DEF HandleEmbed, registryVars, Called
  <2>3. \A at \in AT : ~Tells([kind |-> "EmbedReply"], at)
    BY DEF Tells
  <2> QED
    BY <1>5, <2>1, <2>2, <2>3
<1>8. CASE HandleGetRegisteredEvents
  <2> DEFINE m == [kind |-> "EventsReply", events |-> registered]
  <2>1. m \in AppMessage /\ m.events = registered /\ m.kind = "EventsReply"
    BY DEF AppMessage, Messages
  <2>2. ToApp(<<m>>) /\ registered' = registered /\ calls[1].kind = "GetRegisteredEvents"
    BY <1>1, <1>8 DEF HandleGetRegisteredEvents, registryVars, Called
  <2>3. \A at \in AT : Tells(m, at) => Of(at, registered)
    BY <2>1 DEF Tells
  <2> HIDE DEF m
  <2> QED
    BY <1>5, <2>1, <2>2, <2>3
<1>9. CASE HandleGone
  <2> DEFINE c == calls[1]
             m == Ending(c.at)
  <2>1. c.kind = "Gone" /\ c \in CallMessage
    BY <1>1, <1>9 DEF HandleGone, Called
  <2>2. c \in [kind : {"Gone"}, at : AT]
    BY <2>1 DEF CallMessage
  <2>3. c = [kind |-> "Gone", at |-> c.at] /\ c.at \in AT
    BY <2>2
  <2>4. <<>> \in Seq(STRING)
    OBVIOUS
  <2>5. m \in AppMessage /\ \A at \in AT : ~Tells(m, at)
    BY <2>3, <2>4 DEF Ending, AppMessage, Tells
  <2>6. ToApp(<<m>>) /\ registered' = {r \in registered : r[1] # c.at}
    BY <1>1, <1>9 DEF HandleGone, AnnouncedGone, Ending
  <2>7. registered' \subseteq Registration /\ ~Of(c.at, registered')
        /\ \A at \in AT : Of(at, registered') => Of(at, registered)
    BY <2>6 DEF Messages, Of
  <2>8. \A at \in AT : c = [kind |-> "Gone", at |-> at] <=> at = c.at
    BY <2>3
  <2>9. \A at \in AT : ~connected[at] =>
          \/ c = [kind |-> "Gone", at |-> at]
          \/ Of(at, registered') \/ Tells(m, at) => GoneWaits(at, 0)'
    BY <1>2, <1>3, <2>5, <2>7, <2>8
  <2>10. \A at \in AT : c = [kind |-> "Gone", at |-> at] =>
           ~Of(at, registered') /\ m = Ending(at)
    BY <2>7, <2>8
  <2> HIDE DEF m
  <2> QED
    BY <1>1, <2>5, <2>6, <2>7, <2>9, <2>10, RegistryHandles
<1> QED
  BY <1>4, <1>6, <1>7, <1>8, <1>9

\* What the bridge does with a message.
LEMMA AppSteps ==
  ASSUME Messages, AllForgotten, AppStep
  PROVE  Messages' /\ AllForgotten'
<1>1. appBox # <<>> /\ appBox' = Tail(appBox)
  BY DEF AppStep, ReceiveEmbedReply, ReceiveEventsReply, ReceiveKeysReply, ReceiveRegistered,
     ReceiveDeregistered, ReceiveGone, ReceiveRegistryGone, ReceiveRegistryNew, Receive, ConsumeApp
<1>2. UNCHANGED <<up, started, registered, connected, notices>>
  BY DEF AppStep, ReceiveEmbedReply, ReceiveEventsReply, ReceiveKeysReply, ReceiveRegistered,
     ReceiveDeregistered, ReceiveGone, ReceiveRegistryGone, ReceiveRegistryNew,
     registryVars, atVars
<1>3. Head(appBox) = appBox[1] /\ Head(appBox) \in AppMessage
  BY <1>1, AppTaken
<1>4. \/ calls' = calls
      \/ \E c \in CallMessage : c.kind # "RegisterEvent" /\ calls' = Append(calls, c)
  <2>1. /\ [kind |-> "Embed"] \in CallMessage
        /\ [kind |-> "GetRegisteredEvents"] \in CallMessage
    BY DEF CallMessage
  <2>2. \/ calls' = calls
        \/ calls' = Append(calls, [kind |-> "Embed"])
        \/ calls' = Append(calls, [kind |-> "GetRegisteredEvents"])
    BY DEF AppStep, ReceiveEmbedReply, ReceiveEventsReply, ReceiveKeysReply, ReceiveRegistered,
       ReceiveDeregistered, ReceiveGone, ReceiveRegistryGone, ReceiveRegistryNew,
       registryVars, RegisterAgain
  <2> QED
    BY <2>1, <2>2
<1>5. CASE ReceiveEmbedReply \/ ReceiveKeysReply \/ ReceiveGone
           \/ ReceiveRegistryGone \/ ReceiveRegistryNew
  <2>1. mirror' = mirror /\ appBox[1].kind \in {"EmbedReply", "KeysReply", "Gone", "RegistryGone",
                                                "RegistryNew"}
    BY <1>3, <1>5 DEF ReceiveEmbedReply, ReceiveKeysReply, ReceiveGone, ReceiveRegistryGone,
       ReceiveRegistryNew, Receive, appVars
  <2>2. mirror' \subseteq Registration /\ \A at \in AT : appBox[1] # Ending(at)
    BY <2>1 DEF Messages, Ending
  <2> QED
    BY <1>1, <1>2, <1>4, <2>1, <2>2, AppHandles
<1>6. CASE ReceiveEventsReply
  <2>1. /\ mirror' = mirror \cup appBox[1].events
        /\ appBox[1].kind = "EventsReply" /\ appBox[1] \in AppMessage
    BY <1>3, <1>6 DEF ReceiveEventsReply, Receive
  <2>2. appBox[1] \in [kind : {"EventsReply"}, events : SUBSET Registration]
    BY <2>1 DEF AppMessage
  <2>3. mirror' \subseteq Registration /\ \A at \in AT : appBox[1] # Ending(at)
    BY <2>1, <2>2 DEF Messages, Ending
  <2>4. \A at \in AT : Of(at, mirror') => Of(at, mirror) \/ Tells(appBox[1], at)
    BY <2>1 DEF Of, Tells
  <2> QED
    BY <1>1, <1>2, <1>4, <2>3, <2>4, AppHandles
<1>7. CASE ReceiveRegistered
  <2>1. /\ mirror' = mirror \cup {<<appBox[1].at, appBox[1].type>>}
        /\ appBox[1].kind = "Registered" /\ appBox[1] \in AppMessage
    BY <1>3, <1>7 DEF ReceiveRegistered, Receive
  <2>2. appBox[1] \in [kind : {"Registered"}, at : AT, type : EventType]
    BY <2>1 DEF AppMessage
  <2>3. mirror' \subseteq Registration /\ \A at \in AT : appBox[1] # Ending(at)
    BY <2>1, <2>2 DEF Messages, Ending, Registration
  <2>4. \A at \in AT : Of(at, mirror') => Of(at, mirror) \/ Tells(appBox[1], at)
    BY <2>1 DEF Of, Tells
  <2> QED
    BY <1>1, <1>2, <1>4, <2>3, <2>4, AppHandles
<1>8. CASE ReceiveDeregistered
  <2>1. mirror' = MirrorWithout(appBox[1].at, appBox[1].type)
    BY <1>3, <1>8 DEF ReceiveDeregistered
  <2>2. mirror' \subseteq mirror /\ mirror' \subseteq Registration
    BY <2>1 DEF MirrorWithout, Messages
  <2>3. \A at \in AT : Of(at, mirror') => Of(at, mirror)
    BY <2>2 DEF Of
  <2>4. ASSUME NEW at \in AT, appBox[1] = Ending(at)
        PROVE  ~Of(at, mirror')
    <3>1. mirror' = {e \in mirror : ~(e[1] = at /\ IsSubtype(e[2], <<>>))}
      BY <2>1, <2>4 DEF MirrorWithout, Ending
    <3>2. \A e \in mirror : e[2] \in Seq(STRING)
      BY TypeAssumption DEF Messages, Registration
    <3>3. \A t \in Seq(STRING) : IsSubtype(t, <<>>)
      BY DEF IsSubtype
    <3> QED
      BY <3>1, <3>2, <3>3 DEF Of
  <2> QED
    BY <1>1, <1>2, <1>4, <2>2, <2>3, <2>4, AppHandles
<1> QED
  BY <1>5, <1>6, <1>7, <1>8 DEF AppStep

LEMMA UndoStep ==
  ASSUME UndoInv, [Next]_vars
  PROVE  UndoInv'
<1>1. crashes' \in Nat /\ (crashes' = 0 => crashes = 0)
  <2>1. RegistryStep => crashes' = crashes
    BY DEF RegistryStep, HandleRegisterEvent, HandleDeregisterEvent, HandleGone, HandleEmbed,
       HandleGetRegisteredEvents, HandleGetKeystrokeListeners, Restart
  <2>2. AppStep => crashes' = crashes
    BY DEF AppStep, ReceiveEmbedReply, ReceiveEventsReply, ReceiveKeysReply, ReceiveRegistered,
       ReceiveDeregistered, ReceiveGone, ReceiveRegistryGone, ReceiveRegistryNew
  <2>3. /\ Environment => crashes' = crashes \/ crashes' = crashes + 1
        /\ \A at \in AT : Notice(at) => crashes' = crashes
    BY DEF Environment, Start, Crash, Die, Listen, Withdraw, Notice
  <2>4. UNCHANGED vars => crashes' = crashes
    BY DEF vars
  <2>5. crashes' = crashes \/ crashes' = crashes + 1
    BY <2>1, <2>2, <2>3, <2>4 DEF Next
  <2> QED
    BY <2>5 DEF UndoInv
<1> SUFFICES ASSUME crashes = 0, crashes' = 0, Messages, AllForgotten
             PROVE  Messages' /\ AllForgotten'
  BY <1>1 DEF UndoInv
<1>2. CASE HandleRegisterEvent \/ HandleDeregisterEvent \/ HandleGone
           \/ HandleEmbed \/ HandleGetRegisteredEvents
  BY <1>2, RegistrySteps
<1>3. CASE AppStep
  BY <1>3, AppSteps
<1>4. ASSUME NEW at \in AT, Die(at)
      PROVE  Messages' /\ AllForgotten'
  BY <1>4, Dies
<1>5. CASE HandleGetKeystrokeListeners
  <2>1. /\ UNCHANGED <<up, registered, calls, started, mirror, connected, notices>>
        /\ \E known \in SUBSET AT : ToApp(<<[kind |-> "KeysReply", clients |-> known]>>)
    BY <1>5, KeyAssumption DEF HandleGetKeystrokeListeners, appVars, atVars
  <2>2. PICK m \in AppMessage : m.kind = "KeysReply" /\ ToApp(<<m>>)
    BY <2>1 DEF AppMessage
  <2>3. /\ appBox' \in Seq(AppMessage) /\ (~started' => appBox' = <<>>)
        /\ \A at \in AT : \A i \in Nat : EndWaits(at, i) => EndWaits(at, i)'
        /\ \A i \in DOMAIN appBox' : \/ i \in DOMAIN appBox /\ appBox'[i] = appBox[i]
                                     \/ appBox'[i] = m
    BY <2>1, <2>2, AppTold
  <2>4. \A at \in AT : ~Tells(m, at)
    BY <2>2 DEF Tells
  <2>5. Messages'
    BY <2>1, <2>3 DEF Messages
  <2>6. ASSUME NEW at \in AT, ~connected[at]
        PROVE  Forgotten(at)'
    <3>1. Forgotten(at) /\ \A i \in DOMAIN appBox : i \in Nat
      BY <2>6 DEF AllForgotten, Messages
    <3>2. \A i \in Nat \cup DOMAIN calls : GoneWaits(at, i)' <=> GoneWaits(at, i)
      BY <2>1 DEF GoneWaits
    <3> QED
      BY <2>1, <2>3, <2>4, <3>1, <3>2 DEF Forgotten
  <2> QED
    BY <2>1, <2>5, <2>6 DEF AllForgotten
<1>6. CASE Start
  <2>1. /\ [kind |-> "Embed"] \in CallMessage /\ calls' = Append(calls, [kind |-> "Embed"])
        /\ [kind |-> "Embed"].kind # "RegisterEvent" /\ started' = TRUE
        /\ UNCHANGED <<up, registered, mirror, connected, notices, appBox>>
    BY <1>6 DEF Start, CallMessage, registryVars, appVars, atVars
  <2> QED
    BY <2>1, ClientSends DEF Messages
<1>7. ASSUME NEW at \in AT, NEW type \in EventType, Listen(at, type) \/ Withdraw(at, type)
      PROVE  Messages' /\ AllForgotten'
  <2> DEFINE c == [kind |-> IF Listen(at, type) THEN "RegisterEvent" ELSE "DeregisterEvent",
                   at |-> at, type |-> type]
  <2>1. /\ calls' = Append(calls, c) /\ connected[at]
        /\ UNCHANGED <<up, registered, mirror, connected, notices, appBox, started>>
    BY <1>7 DEF Listen, Withdraw, IsFree, registryVars, appVars
  <2>2. c \in CallMessage /\ c.at = at
    BY DEF CallMessage
  <2> HIDE DEF c
  <2> QED
    BY <2>1, <2>2, ClientSends DEF Messages
<1>8. ~Crash /\ ~Restart /\ \A at \in AT : ~Notice(at)
  BY DEF Crash, Restart, Notice, Messages
<1>9. CASE UNCHANGED vars
  BY <1>9 DEF vars, registryVars, appVars, atVars, Messages, AllForgotten, Forgotten,
     GoneWaits, EndWaits
<1> QED
  BY <1>2, <1>3, <1>4, <1>5, <1>6, <1>7, <1>8, <1>9 DEF Next, RegistryStep, Environment

\* While the registry is not lost, an AT that has gone leaves nothing in the registry
\* or in the bridge once what was sent is handled, in whatever order the bridge
\* started, asked for the registrations and was told of them.
THEOREM GoneAreForgotten == Spec => []DeadAreForgotten
<1>1. Init => UndoInv
  <2> SUFFICES ASSUME Init PROVE UndoInv
    OBVIOUS
  <2>1. calls = <<>> /\ appBox = <<>> /\ registered = {} /\ mirror = {}
    BY DEF Init
  <2>2. Messages
    <3>1. /\ calls \in Seq(CallMessage) /\ appBox \in Seq(AppMessage)
          /\ (~started => appBox = <<>> /\ mirror = {})
      BY <2>1
    <3>2. connected \in [AT -> BOOLEAN] /\ \A at \in AT : notices[at] = <<>>
      BY DEF Init
    <3>3. up /\ started \in BOOLEAN
      BY Zenon DEF Init
    <3> QED
      BY <2>1, <3>1, <3>2, <3>3 DEF Messages
  <2>3. AllForgotten
    BY DEF Init, AllForgotten
  <2> QED
    BY <2>2, <2>3 DEF Init, UndoInv
<1>2. UndoInv => DeadAreForgotten
  <2> SUFFICES ASSUME UndoInv, Settled, crashes = 0, NEW at \in AT, ~connected[at],
                      NEW e \in registered \cup mirror, e[1] = at
               PROVE  FALSE
    BY DEF DeadAreForgotten
  <2>1. Forgotten(at) /\ calls = <<>> /\ appBox = <<>>
    BY DEF UndoInv, AllForgotten, Settled
  <2>2. ~GoneWaits(at, 0) /\ ~EndWaits(at, 0)
    BY <2>1 DEF GoneWaits, EndWaits
  <2> QED
    BY <2>1, <2>2 DEF Forgotten, Of
<1>3. UndoInv /\ [Next]_vars => UndoInv'
  BY UndoStep
<1> QED
  BY <1>1, <1>2, <1>3, PTL DEF Spec

-----------------------------------------------------------------------------
(* What is wanted reaches the application *)

Undo(at, type) ==
  {c \in CallMessage : c.kind = "DeregisterEvent" /\ c.at = at /\ IsSubtype(type, c.type)}
Ask(at, type) ==
  {c \in CallMessage : c.kind = "RegisterEvent" /\ c.at = at /\ c.type = type}
Untold(at, type) ==
  {m \in AppMessage : m.kind = "Deregistered" /\ m.at = at /\ IsSubtype(type, m.type)}
Told(at, type) ==
  {m \in AppMessage : \/ m.kind = "Registered" /\ m.at = at /\ m.type = type
                      \/ m.kind = "EventsReply" /\ <<at, type>> \in m.events}

\* The queue q ends with none of bad, from a message of good on; it has none; it has
\* a message of a kind.
Stays(q, good, bad) ==
  \E i \in 1..Len(q) : q[i] \in good /\ \A j \in 1..Len(q) : j > i => q[j] \notin bad
Clean(q, bad) == \A i \in 1..Len(q) : q[i] \notin bad
Has(q, kind) == \E i \in 1..Len(q) : q[i].kind = kind

\* The application has asked the registry nothing yet, and has no answer.
Answer == {m \in AppMessage : m.kind \in {"EventsReply", "KeysReply"}}
Quiet == replies = 0 /\ keyCalls = 0 /\ Clean(appBox, Answer)

\* It will ask the registry, which it is told nothing of before it is started.
WillAsk ==
  \/ ~started
  \/ Quiet /\ (Has(calls, "Embed") \/ Has(appBox, "EmbedReply"))
  \/ Has(calls, "GetRegisteredEvents")

\* The client library will notice that the registry was lost, and register again.
Lost(at) == atLost[at] \/ \E i \in 1..Len(notices[at]) : notices[at][i] = "gone"

\* Wherever a registration is on its way, no message that undoes it is behind it.
Reaches(at, type) ==
  \/ Lost(at)
  \/ Stays(calls, Ask(at, type), Undo(at, type))
  \/ /\ Clean(calls, Undo(at, type))
     /\ \/ <<at, type>> \in registered /\ WillAsk
        \/ Stays(appBox, Told(at, type), Untold(at, type))
        \/ <<at, type>> \in mirror /\ Clean(appBox, Untold(at, type))

BridgeTypes ==
  /\ calls \in Seq(CallMessage) /\ appBox \in Seq(AppMessage)
  /\ registered \subseteq Registration /\ mirror \subseteq Registration /\ clients \subseteq AT
  /\ listening \in [AT -> SUBSET EventType] /\ \A at \in AT : IsFiniteSet(listening[at])
  /\ connected \in [AT -> BOOLEAN] /\ atLost \in [AT -> BOOLEAN]
  /\ notices \in [AT -> Seq({"gone", "new"})]
  /\ keyCalls \in Nat /\ replies \in Nat

\* Before the application is started it knows nothing.  Nothing is initialized
\* without a reply.
NotYet ==
  /\ ~started => appBox = <<>> /\ keyCalls = 0 /\ replies = 0
  /\ initialized => replies # 0

\* The bus reports the loss of no live client; a dead one listens to nothing.
FalseEnd(S) == {m \in S : m.kind = "Gone" /\ connected[m.at]}
LiveClients ==
  /\ \A at \in AT : listening[at] # {} => connected[at]
  /\ Clean(calls, FalseEnd(CallMessage)) /\ Clean(appBox, FalseEnd(AppMessage))

\* The client library has heard of the last registry, or will.
Noticed ==
  up => \A at \in AT : connected[at] =>
    IF notices[at] = <<>> THEN ~atLost[at] ELSE notices[at][Len(notices[at])] = "new"

\* Who has a registration in the mirror is a client, for whom ATK's events are
\* listened to.
Served ==
  /\ clients # {} => active
  /\ \A e \in mirror : connected[e[1]] => e[1] \in clients

AllReach == \A at \in AT : \A type \in listening[at] : Reaches(at, type)

ReachInv == BridgeTypes /\ NotYet /\ LiveClients /\ Noticed /\ Served /\ AllReach

\* A queue and the queue with one more message.
LEMMA StaysAppended ==
  ASSUME NEW S, NEW q \in Seq(S), NEW m \in S, NEW good, NEW bad
  PROVE  /\ m \notin bad /\ Clean(q, bad) => Clean(Append(q, m), bad)
         /\ m \notin bad /\ Stays(q, good, bad) => Stays(Append(q, m), good, bad)
         /\ m \in good => Stays(Append(q, m), good, bad)
<1> PICK p : p = Append(q, m)
  OBVIOUS
<1>1. /\ Len(p) = Len(q) + 1 /\ Len(q) \in Nat /\ p[Len(q) + 1] = m
      /\ \A i \in 1..Len(q) : p[i] = q[i]
  BY Appended
<1>2. /\ \A i \in 1..Len(p) : i \in 1..Len(q) \/ i = Len(q) + 1
      /\ \A i \in 1..Len(q) : i \in 1..Len(p)
      /\ Len(q) + 1 \in 1..Len(p) /\ \A j \in 1..Len(p) : ~(j > Len(q) + 1)
  BY <1>1
<1>3. m \notin bad /\ Clean(q, bad) => Clean(p, bad)
  BY <1>1, <1>2 DEF Clean
<1>4. ASSUME m \notin bad, Stays(q, good, bad) PROVE Stays(p, good, bad)
  <2>1. PICK i \in 1..Len(q) : q[i] \in good /\ \A j \in 1..Len(q) : j > i => q[j] \notin bad
    BY <1>4 DEF Stays
  <2>2. \A j \in 1..Len(p) : j > i => p[j] \notin bad
    BY <1>1, <1>2, <1>4, <2>1
  <2> QED BY <1>1, <1>2, <2>1, <2>2 DEF Stays
<1>5. m \in good => Stays(p, good, bad)
  BY <1>1, <1>2 DEF Stays
<1> QED BY <1>3, <1>4, <1>5

\* A queue and the queue with more messages, none of them bad.
LEMMA StaysConcatenated ==
  ASSUME NEW S, NEW q \in Seq(S), NEW r \in Seq(S), NEW good, NEW bad, Clean(r, bad)
  PROVE  /\ Clean(q, bad) => Clean(q \o r, bad)
         /\ Stays(q, good, bad) => Stays(q \o r, good, bad)
         /\ (\E i \in 1..Len(r) : r[i] \in good) => Stays(q \o r, good, bad)
<1> PICK p : p = q \o r
  OBVIOUS
<1>1. /\ Len(p) = Len(q) + Len(r) /\ Len(q) \in Nat /\ Len(r) \in Nat
      /\ \A i \in 1..Len(q) : p[i] = q[i]
      /\ \A i \in 1..Len(r) : p[Len(q) + i] = r[i]
  OBVIOUS
<1>2. /\ \A i \in 1..Len(p) : i \in 1..Len(q) \/ (i - Len(q) \in 1..Len(r) /\ p[i] = r[i - Len(q)])
      /\ \A i \in 1..Len(q) : i \in 1..Len(p)
      /\ \A i \in 1..Len(r) : Len(q) + i \in 1..Len(p)
      /\ \A i \in 1..Len(r), j \in 1..Len(p) : j > Len(q) + i => j \notin 1..Len(q)
  <2>1. \A i \in 1..Len(p) : i \in 1..Len(q) \/ i - Len(q) \in 1..Len(r)
    BY <1>1
  <2>2. \A i \in 1..Len(p) : i = Len(q) + (i - Len(q))
    BY <1>1
  <2>3. \A i \in 1..Len(p) : i \in 1..Len(q) \/ (i - Len(q) \in 1..Len(r) /\ p[i] = r[i - Len(q)])
    BY <1>1, <2>1, <2>2
  <2>4. /\ \A i \in 1..Len(q) : i \in 1..Len(p)
        /\ \A i \in 1..Len(r) : Len(q) + i \in 1..Len(p)
        /\ \A i \in 1..Len(r), j \in 1..Len(p) : j > Len(q) + i => j \notin 1..Len(q)
    BY <1>1
  <2> QED BY <2>3, <2>4
<1>3. Clean(q, bad) => Clean(p, bad)
  BY <1>1, <1>2 DEF Clean
<1>4. ASSUME Stays(q, good, bad) PROVE Stays(p, good, bad)
  <2>1. PICK i \in 1..Len(q) : q[i] \in good /\ \A j \in 1..Len(q) : j > i => q[j] \notin bad
    BY <1>4 DEF Stays
  <2>2. \A j \in 1..Len(p) : j > i => p[j] \notin bad
    BY <1>1, <1>2, <2>1 DEF Clean
  <2> QED BY <1>1, <1>2, <2>1, <2>2 DEF Stays
<1>5. ASSUME NEW i \in 1..Len(r), r[i] \in good PROVE Stays(p, good, bad)
  <2>1. \A j \in 1..Len(p) : j > Len(q) + i => p[j] \notin bad
    BY <1>1, <1>2 DEF Clean
  <2> QED BY <1>1, <1>2, <1>5, <2>1 DEF Stays
<1> QED BY <1>3, <1>4, <1>5

\* A queue and the queue without its first message.
LEMMA StaysTaken ==
  ASSUME NEW S, NEW q \in Seq(S), q # <<>>, NEW good, NEW bad
  PROVE  /\ Clean(q, bad) => Clean(Tail(q), bad) /\ Head(q) \notin bad
         /\ Stays(q, good, bad) =>
              Stays(Tail(q), good, bad) \/ (Head(q) \in good /\ Clean(Tail(q), bad))
<1> PICK p : p = Tail(q)
  OBVIOUS
<1>1. /\ Head(q) = q[1] /\ Len(q) \in Nat \ {0} /\ Len(p) = Len(q) - 1
      /\ \A i \in 1..Len(p) : p[i] = q[i + 1]
  BY Taken
<1>2. /\ 1 \in 1..Len(q) /\ \A i \in 1..Len(p) : i + 1 \in 1..Len(q) /\ i + 1 > 1
      /\ \A i \in 1..Len(q) : i # 1 => i - 1 \in 1..Len(p) /\ (i - 1) + 1 = i
      /\ \A i \in 1..Len(q), j \in 1..Len(p) : j > i - 1 => j + 1 > i
  BY <1>1
<1>3. Clean(q, bad) => Clean(p, bad) /\ Head(q) \notin bad
  BY <1>1, <1>2 DEF Clean
<1>4. ASSUME Stays(q, good, bad) PROVE Stays(p, good, bad) \/ (Head(q) \in good /\ Clean(p, bad))
  <2>1. PICK i \in 1..Len(q) : q[i] \in good /\ \A j \in 1..Len(q) : j > i => q[j] \notin bad
    BY <1>4 DEF Stays
  <2>2. CASE i = 1
    BY <1>1, <1>2, <2>1, <2>2 DEF Clean
  <2>3. CASE i # 1
    <3>1. i - 1 \in 1..Len(p) /\ p[i - 1] \in good
      BY <1>1, <1>2, <2>1, <2>3
    <3>2. \A j \in 1..Len(p) : j > i - 1 => p[j] \notin bad
      BY <1>1, <1>2, <2>1
    <3> QED BY <3>1, <3>2 DEF Stays
  <2> QED BY <2>2, <2>3
<1> QED BY <1>3, <1>4

\* Kinds in a queue with one more message and without its first one.
LEMMA HasMore ==
  ASSUME NEW S, NEW q \in Seq(S), NEW m \in S, NEW kind
  PROVE  (Has(q, kind) => Has(Append(q, m), kind)) /\ (m.kind = kind => Has(Append(q, m), kind))
<1> PICK p : p = Append(q, m)
  OBVIOUS
<1>1. /\ Len(p) = Len(q) + 1 /\ Len(q) \in Nat /\ p[Len(q) + 1] = m
      /\ \A i \in 1..Len(q) : p[i] = q[i]
  BY Appended
<1>2. Len(q) + 1 \in 1..Len(p) /\ \A i \in 1..Len(q) : i \in 1..Len(p)
  BY <1>1
<1> QED BY <1>1, <1>2 DEF Has

LEMMA HasTaken ==
  ASSUME NEW S, NEW q \in Seq(S), q # <<>>, NEW kind, Has(q, kind), Head(q).kind # kind
  PROVE  Has(Tail(q), kind)
<1> PICK p : p = Tail(q)
  OBVIOUS
<1>1. /\ Head(q) = q[1] /\ Len(q) \in Nat \ {0} /\ Len(p) = Len(q) - 1
      /\ \A i \in 1..Len(p) : p[i] = q[i + 1]
  BY Taken
<1>2. \A i \in 1..Len(q) : i # 1 => i - 1 \in 1..Len(p) /\ (i - 1) + 1 = i
  BY <1>1
<1>3. PICK i \in 1..Len(q) : q[i].kind = kind
  BY DEF Has
<1> QED BY <1>1, <1>2, <1>3 DEF Has

-----------------------------------------------------------------------------
(* The messages *)

LEMMA CallKinds ==
  /\ \A c \in CallMessage : c.kind = "Gone" => c.at \in AT
  /\ \A at \in AT, type \in EventType :
       /\ [kind |-> "RegisterEvent", at |-> at, type |-> type] \in CallMessage
       /\ [kind |-> "DeregisterEvent", at |-> at, type |-> type] \in CallMessage
  /\ \A at \in AT : [kind |-> "Gone", at |-> at] \in CallMessage
  /\ [kind |-> "Embed"] \in CallMessage /\ [kind |-> "GetRegisteredEvents"] \in CallMessage
BY DEF CallMessage

LEMMA AppKinds ==
  /\ \A m \in AppMessage : m.kind = "Registered" =>
       m.at \in AT /\ m.type \in EventType /\ <<m.at, m.type>> \in Registration
  /\ \A m \in AppMessage : m.kind = "EventsReply" => m.events \subseteq Registration
  /\ \A m \in AppMessage : m.kind = "KeysReply" => m.clients \subseteq AT
  /\ \A m \in AppMessage : m.kind \in {"Gone", "Deregistered"} => m.at \in AT
  /\ \A at \in AT : [kind |-> "Gone", at |-> at] \in AppMessage /\ Ending(at) \in AppMessage
  /\ \A e \in SUBSET Registration : [kind |-> "EventsReply", events |-> e] \in AppMessage
  /\ \A c \in SUBSET AT : [kind |-> "KeysReply", clients |-> c] \in AppMessage
  /\ \A k \in {"EmbedReply", "RegistryGone", "RegistryNew"} : [kind |-> k] \in AppMessage
<1>1. \A m \in AppMessage : m.kind = "Registered" =>
        m.at \in AT /\ m.type \in EventType /\ <<m.at, m.type>> \in Registration
  BY DEF AppMessage, Registration
<1>2. /\ \A m \in AppMessage : m.kind = "EventsReply" => m.events \subseteq Registration
      /\ \A m \in AppMessage : m.kind = "KeysReply" => m.clients \subseteq AT
      /\ \A m \in AppMessage : m.kind \in {"Gone", "Deregistered"} => m.at \in AT
  BY DEF AppMessage
<1>3. \A at \in AT : [kind |-> "Gone", at |-> at] \in AppMessage /\ Ending(at) \in AppMessage
  <2>1. <<>> \in Seq(STRING)
    OBVIOUS
  <2> QED BY <2>1 DEF AppMessage, Ending
<1>4. /\ \A e \in SUBSET Registration : [kind |-> "EventsReply", events |-> e] \in AppMessage
      /\ \A c \in SUBSET AT : [kind |-> "KeysReply", clients |-> c] \in AppMessage
      /\ \A k \in {"EmbedReply", "RegistryGone", "RegistryNew"} : [kind |-> k] \in AppMessage
  BY DEF AppMessage
<1> QED BY <1>1, <1>2, <1>3, <1>4

\* What the registry makes of a call for the application.
LEMMA Answers ==
  ASSUME NEW c \in CallMessage, c.kind \in {"RegisterEvent", "DeregisterEvent"}
  PROVE  /\ c.at \in AT /\ c.type \in EventType
         /\ [c EXCEPT !.kind = "Registered"] \in AppMessage
         /\ [c EXCEPT !.kind = "Deregistered"] \in AppMessage
         /\ [c EXCEPT !.kind = "Registered"].kind = "Registered"
         /\ [c EXCEPT !.kind = "Registered"].at = c.at
         /\ [c EXCEPT !.kind = "Registered"].type = c.type
         /\ [c EXCEPT !.kind = "Deregistered"].kind = "Deregistered"
         /\ [c EXCEPT !.kind = "Deregistered"].at = c.at
         /\ [c EXCEPT !.kind = "Deregistered"].type = c.type
<1>1. c \in [kind : {"RegisterEvent", "DeregisterEvent"}, at : AT, type : EventType]
  BY DEF CallMessage
<1>2. c.type \in Seq(STRING)
  BY <1>1, TypeAssumption
<1>3. /\ [c EXCEPT !.kind = "Registered"] \in [kind : {"Registered"}, at : AT, type : EventType]
      /\ [c EXCEPT !.kind = "Deregistered"] \in
           [kind : {"Deregistered"}, at : AT, type : Seq(STRING)]
  BY <1>1, <1>2
<1>4. /\ [c EXCEPT !.kind = "Registered"] \in AppMessage
      /\ [c EXCEPT !.kind = "Deregistered"] \in AppMessage
  BY <1>3 DEF AppMessage
<1>5. /\ c.at \in AT /\ c.type \in EventType
      /\ [c EXCEPT !.kind = "Registered"].kind = "Registered"
      /\ [c EXCEPT !.kind = "Registered"].at = c.at
      /\ [c EXCEPT !.kind = "Registered"].type = c.type
      /\ [c EXCEPT !.kind = "Deregistered"].kind = "Deregistered"
      /\ [c EXCEPT !.kind = "Deregistered"].at = c.at
      /\ [c EXCEPT !.kind = "Deregistered"].type = c.type
  BY <1>1
<1> QED BY <1>4, <1>5

\* What a client registers again: all it listens to, and nothing else.
LEMMA Reregistered ==
  ASSUME BridgeTypes, NEW at \in AT
  PROVE  /\ Reregister(at) \in Seq(CallMessage)
         /\ \A i \in 1..Len(Reregister(at)) : Reregister(at)[i].kind = "RegisterEvent"
         /\ \A type \in listening[at] : \E i \in 1..Len(Reregister(at)) :
              Reregister(at)[i] = [kind |-> "RegisterEvent", at |-> at, type |-> type]
<1> DEFINE S == listening[at]
           n == Cardinality(S)
           f == SetToSeq(S)
<1>1. IsFiniteSet(S) /\ S \subseteq EventType
  BY DEF BridgeTypes
<1> HIDE DEF S
<1>2. n \in Nat /\ \E g : g \in Bijection(1..n, S)
  BY <1>1, FS_CardinalityType DEF ExistsBijection
<1>3. \E g \in [1..n -> S] : IsInjective(g)
  BY <1>2 DEF Bijection, Injection
<1>4. f \in [1..n -> S] /\ IsInjective(f)
  BY <1>3 DEF SetToSeq
<1> HIDE DEF f, n
<1>5. f \in Injection(1..n, S)
  BY <1>4 DEF Injection
<1>6. IsFiniteSet(1..n) /\ Cardinality(1..n) = n
  <2>1. 1 \in Int /\ n \in Int /\ (1 > n => n = 0) /\ n - 1 + 1 = n
    BY <1>2
  <2>2. IsFiniteSet(1..n) /\ Cardinality(1..n) = IF 1 > n THEN 0 ELSE n - 1 + 1
    BY <2>1, FS_Interval
  <2> QED BY <2>1, <2>2
<1>7. f \in Surjection(1..n, S)
  <2>1. Cardinality(1..n) = Cardinality(S)
    BY <1>6 DEF n
  <2> QED BY <1>1, <1>5, <2>1, FS_Injection
<1>8. \A t \in S : \E i \in 1..n : f[i] = t
  BY <1>7 DEF Surjection
<1> DEFINE r == [i \in 1..n |-> [kind |-> "RegisterEvent", at |-> at, type |-> f[i]]]
<1>9. Reregister(at) = r
  <2>1. DOMAIN f = 1..n
    BY <1>4
  <2>2. Reregister(at) =
          [i \in DOMAIN f |-> [kind |-> "RegisterEvent", at |-> at, type |-> f[i]]]
    BY DEF Reregister, f, S
  <2> QED BY <2>1, <2>2
<1>10. \A i \in 1..n : r[i] \in CallMessage /\ r[i].kind = "RegisterEvent"
  <2>1. \A i \in 1..n : f[i] \in EventType
    BY <1>1, <1>4
  <2> QED BY <2>1, CallKinds
<1>11. \A t \in S : \E i \in 1..n : r[i] = [kind |-> "RegisterEvent", at |-> at, type |-> t]
  BY <1>8
<1>12. r \in Seq(CallMessage) /\ Len(r) = n
  BY <1>2, <1>10
<1> HIDE DEF r
<1> QED BY <1>9, <1>10, <1>11, <1>12 DEF S

\* The errors that answer what was asked of a registry that is lost.
LEMMA ErrorsAreMessages ==
  ASSUME BridgeTypes, NEW order \in InOrder(Unanswered)
  PROVE  /\ ErrorReplies(order) \in Seq(AppMessage)
         /\ \A i \in 1..Len(ErrorReplies(order)) : ErrorReplies(order)[i].kind # "Gone"
<1> DEFINE n == Cardinality(Unanswered)
<1>1. n \in Nat /\ order \in [1..n -> Unanswered]
  <2>1. IsFiniteSet(1..Len(calls))
    <3>1. 1 \in Int /\ Len(calls) \in Int
      BY DEF BridgeTypes
    <3> QED BY <3>1, FS_Interval
  <2>2. Unanswered \in SUBSET (1..Len(calls))
    BY DEF Unanswered, BridgeTypes
  <2>3. IsFiniteSet(Unanswered)
    BY <2>1, <2>2, FS_Subset
  <2> QED BY <2>3, FS_CardinalityType DEF InOrder
<1> HIDE DEF n
<1> DEFINE Reply(i) == IF calls[order[i]].kind = "Embed" THEN [kind |-> "EmbedReply"]
                       ELSE [kind |-> "EventsReply", events |-> {}]
           a == [i \in 1..n |-> Reply(i)]
           b == [i \in 1..keyCalls |-> [kind |-> "KeysReply", clients |-> {}]]
<1>2. \A i : Reply(i) \in AppMessage /\ Reply(i).kind # "Gone"
  <2>1. [kind |-> "EmbedReply"] \in AppMessage /\ [kind |-> "EventsReply", events |-> {}] \in AppMessage
    BY AppKinds
  <2> QED BY <2>1
<1>3. a \in Seq(AppMessage) /\ \A i \in 1..Len(a) : a[i].kind # "Gone"
  <2> HIDE DEF Reply
  <2> QED BY <1>1, <1>2
<1>4. b \in Seq(AppMessage) /\ \A i \in 1..Len(b) : b[i].kind # "Gone"
  <2>1. [kind |-> "KeysReply", clients |-> {}] \in AppMessage /\ keyCalls \in Nat
    BY AppKinds DEF BridgeTypes
  <2> QED BY <2>1
<1>5. ErrorReplies(order) = a \o b
  <2>1. DOMAIN order = 1..n
    BY <1>1
  <2> QED BY <2>1 DEF ErrorReplies
<1> HIDE DEF a, b
<1>6. PICK e : e = a \o b
  OBVIOUS
<1>7. /\ e \in Seq(AppMessage) /\ Len(e) = Len(a) + Len(b)
      /\ \A i \in 1..Len(e) : e[i] = IF i <= Len(a) THEN a[i] ELSE b[i - Len(a)]
  BY <1>3, <1>4, <1>6
<1>8. \A i \in 1..Len(e) : i \in 1..Len(a) \/ i - Len(a) \in 1..Len(b)
  BY <1>3, <1>4, <1>7
<1> QED BY <1>3, <1>4, <1>5, <1>6, <1>7, <1>8

\* The application is told something.
LEMMA AppHears ==
  ASSUME BridgeTypes, NEW m \in AppMessage, ToApp(<<m>>)
  PROVE  /\ appBox' \in Seq(AppMessage)
         /\ ~started => appBox' = appBox
         /\ started => appBox' = Append(appBox, m)
<1>1. appBox \in Seq(AppMessage)
  BY DEF BridgeTypes
<1>2. ~started => appBox' = appBox
  BY DEF ToApp
<1>3. started => appBox' = Append(appBox, m)
  BY <1>1 DEF ToApp
<1> QED BY <1>1, <1>2, <1>3, Appended

\* What becomes of its queue.
LEMMA HeardBox ==
  ASSUME BridgeTypes, NEW m \in AppMessage, ToApp(<<m>>), NEW good, NEW bad, m \notin bad
  PROVE  /\ Clean(appBox, bad) => Clean(appBox', bad)
         /\ Stays(appBox, good, bad) => Stays(appBox', good, bad)
<1>1. appBox \in Seq(AppMessage)
  BY DEF BridgeTypes
<1> PICK p : p = Append(appBox, m)
  OBVIOUS
<1>2. /\ Clean(appBox, bad) => Clean(p, bad)
      /\ Stays(appBox, good, bad) => Stays(p, good, bad)
  BY <1>1, StaysAppended
<1>3. appBox' = appBox \/ appBox' = p
  BY AppHears
<1> QED BY <1>2, <1>3

\* Nothing bad comes into a queue but as a message that is sent.
LEMMA CallsClean ==
  ASSUME BridgeTypes, NEW bad, Clean(calls, bad),
         \/ calls' = calls \/ (calls # <<>> /\ calls' = Tail(calls))
         \/ \E c \in CallMessage : c \notin bad /\ calls' = Append(calls, c)
  PROVE  Clean(calls', bad)
<1>1. calls \in Seq(CallMessage)
  BY DEF BridgeTypes
<1>2. CASE calls # <<>> /\ calls' = Tail(calls)
  <2> PICK t : t = Tail(calls)
    OBVIOUS
  <2>1. Clean(t, bad)
    BY <1>1, <1>2, StaysTaken
  <2> QED BY <1>2, <2>1
<1>3. ASSUME NEW c \in CallMessage, c \notin bad, calls' = Append(calls, c)
      PROVE  Clean(calls', bad)
  <2> PICK t : t = Append(calls, c)
    OBVIOUS
  <2>1. Clean(t, bad)
    BY <1>1, <1>3, StaysAppended
  <2> QED BY <1>3, <2>1
<1> QED BY <1>2, <1>3

LEMMA BoxClean ==
  ASSUME BridgeTypes, NEW bad, Clean(appBox, bad),
         \/ appBox' = appBox \/ (appBox # <<>> /\ appBox' = Tail(appBox))
         \/ \E m \in AppMessage : m \notin bad /\ ToApp(<<m>>)
  PROVE  Clean(appBox', bad)
<1>1. appBox \in Seq(AppMessage)
  BY DEF BridgeTypes
<1>2. CASE appBox # <<>> /\ appBox' = Tail(appBox)
  <2> PICK t : t = Tail(appBox)
    OBVIOUS
  <2>1. Clean(t, bad)
    BY <1>1, <1>2, StaysTaken
  <2> QED BY <1>2, <2>1
<1>3. ASSUME NEW m \in AppMessage, m \notin bad, ToApp(<<m>>)
      PROVE  Clean(appBox', bad)
  BY <1>3, HeardBox
<1> QED BY <1>2, <1>3

\* What each message is, for the registry's handlers.
LEMMA RegistryTells ==
  ASSUME BridgeTypes,
         HandleRegisterEvent \/ HandleDeregisterEvent \/ HandleGone
           \/ HandleEmbed \/ HandleGetRegisteredEvents
  PROVE  /\ calls # <<>> /\ calls' = Tail(calls) /\ Head(calls) \in CallMessage
         /\ UNCHANGED <<up, keyCalls, started, appVars, atVars>>
         /\ \E m \in AppMessage :
              /\ m.kind \in {"Registered", "Deregistered", "EmbedReply", "EventsReply"}
              /\ ToApp(<<m>>)
<1>1. /\ calls # <<>> /\ calls' = Tail(calls)
      /\ UNCHANGED <<up, keyCalls, started, appVars, atVars>>
  BY DEF HandleRegisterEvent, HandleDeregisterEvent, HandleGone, HandleEmbed,
         HandleGetRegisteredEvents, Called, Consume, registryVars
<1>2. Head(calls) \in CallMessage /\ registered \subseteq Registration
  BY <1>1, Taken DEF BridgeTypes
<1>3. CASE HandleRegisterEvent
  <2>1. /\ Head(calls).kind = "RegisterEvent"
        /\ ToApp(<<[Head(calls) EXCEPT !.kind = "Registered"]>>)
    BY <1>3 DEF HandleRegisterEvent, Called
  <2>2. PICK m \in AppMessage : m.kind = "Registered" /\ ToApp(<<m>>)
    BY <1>2, <2>1, Answers
  <2> QED BY <1>1, <1>2, <2>2
<1>4. CASE HandleDeregisterEvent
  <2>1. /\ Head(calls).kind = "DeregisterEvent"
        /\ ToApp(<<[Head(calls) EXCEPT !.kind = "Deregistered"]>>)
    BY <1>4 DEF HandleDeregisterEvent, Called
  <2>2. PICK m \in AppMessage : m.kind = "Deregistered" /\ ToApp(<<m>>)
    BY <1>2, <2>1, Answers
  <2> QED BY <1>1, <1>2, <2>2
<1>5. CASE HandleGone
  <2>1. Head(calls).kind = "Gone" /\ ToApp(<<Ending(Head(calls).at)>>)
    BY <1>5 DEF HandleGone, Called, AnnouncedGone, Ending
  <2>2. PICK m \in AppMessage : m.kind = "Deregistered" /\ ToApp(<<m>>)
    BY <1>2, <2>1, CallKinds, AppKinds DEF Ending
  <2> QED BY <1>1, <1>2, <2>2
<1>6. CASE HandleEmbed
  <2>1. ToApp(<<[kind |-> "EmbedReply"]>>)
    BY <1>6 DEF HandleEmbed
  <2>2. PICK m \in AppMessage : m.kind = "EmbedReply" /\ ToApp(<<m>>)
    BY <2>1, AppKinds
  <2> QED BY <1>1, <1>2, <2>2
<1>7. CASE HandleGetRegisteredEvents
  <2>1. ToApp(<<[kind |-> "EventsReply", events |-> registered]>>)
    BY <1>7 DEF HandleGetRegisteredEvents
  <2>2. PICK m \in AppMessage : m.kind = "EventsReply" /\ ToApp(<<m>>)
    BY <1>2, <2>1, AppKinds
  <2> QED BY <1>1, <1>2, <2>2
<1> QED BY <1>3, <1>4, <1>5, <1>6, <1>7

\* What is common to the application's handlers.
LEMMA AppTakes ==
  ASSUME BridgeTypes, AppStep
  PROVE  /\ appBox # <<>> /\ appBox' = Tail(appBox)
         /\ Head(appBox) \in AppMessage
         /\ UNCHANGED <<up, registered, started, atVars>>
         /\ \/ calls' = calls
            \/ calls' = Append(calls, [kind |-> "Embed"])
            \/ calls' = Append(calls, [kind |-> "GetRegisteredEvents"])
<1>1. appBox # <<>> /\ appBox' = Tail(appBox)
  BY DEF AppStep, ReceiveEmbedReply, ReceiveEventsReply, ReceiveKeysReply, ReceiveRegistered,
     ReceiveDeregistered, ReceiveGone, ReceiveRegistryGone, ReceiveRegistryNew, Receive, ConsumeApp
<1>2. UNCHANGED <<up, registered, started, atVars>>
  BY DEF AppStep, ReceiveEmbedReply, ReceiveEventsReply, ReceiveKeysReply, ReceiveRegistered,
     ReceiveDeregistered, ReceiveGone, ReceiveRegistryGone, ReceiveRegistryNew, registryVars
<1>3. \/ calls' = calls
      \/ calls' = Append(calls, [kind |-> "Embed"])
      \/ calls' = Append(calls, [kind |-> "GetRegisteredEvents"])
  BY DEF AppStep, ReceiveEmbedReply, ReceiveEventsReply, ReceiveKeysReply, ReceiveRegistered,
     ReceiveDeregistered, ReceiveGone, ReceiveRegistryGone, ReceiveRegistryNew,
     registryVars, RegisterAgain
<1>4. Head(appBox) \in AppMessage
  BY <1>1, Taken DEF BridgeTypes
<1> QED BY <1>1, <1>2, <1>3, <1>4

\* No step leaves the types.
LEMMA BridgeTypesStep ==
  ASSUME BridgeTypes, [Next]_vars
  PROVE  BridgeTypes'
<1>t. /\ calls \in Seq(CallMessage) /\ appBox \in Seq(AppMessage)
      /\ registered \subseteq Registration /\ mirror \subseteq Registration /\ clients \subseteq AT
      /\ listening \in [AT -> SUBSET EventType] /\ \A at \in AT : IsFiniteSet(listening[at])
      /\ connected \in [AT -> BOOLEAN] /\ atLost \in [AT -> BOOLEAN]
      /\ notices \in [AT -> Seq({"gone", "new"})]
      /\ keyCalls \in Nat /\ replies \in Nat
  BY DEF BridgeTypes
<1>h. /\ calls # <<>> => Head(calls) \in CallMessage /\ Tail(calls) \in Seq(CallMessage)
      /\ appBox # <<>> => Head(appBox) \in AppMessage /\ Tail(appBox) \in Seq(AppMessage)
  BY <1>t, Taken
<1>c. \A c \in CallMessage : Append(calls, c) \in Seq(CallMessage)
  BY <1>t, Appended
<1>b. \A m \in AppMessage : ToApp(<<m>>) => appBox' \in Seq(AppMessage)
  BY AppHears
<1>1. CASE HandleRegisterEvent \/ HandleDeregisterEvent \/ HandleGone
           \/ HandleEmbed \/ HandleGetRegisteredEvents
  <2>1. /\ calls # <<>> /\ calls' = Tail(calls) /\ UNCHANGED <<keyCalls, appVars, atVars>>
        /\ \E m \in AppMessage : ToApp(<<m>>)
    BY <1>1, RegistryTells
  <2>2. appBox' \in Seq(AppMessage)
    BY <1>b, <2>1
  <2>3. registered' \subseteq Registration
    <3>1. \/ registered' \subseteq registered
          \/ /\ Head(calls).kind = "RegisterEvent"
             /\ registered' = registered \cup {<<Head(calls).at, Head(calls).type>>}
      BY <1>1 DEF HandleRegisterEvent, HandleDeregisterEvent, HandleGone, HandleEmbed,
         HandleGetRegisteredEvents, Called, registryVars
    <3>2. Head(calls).kind = "RegisterEvent"
            => <<Head(calls).at, Head(calls).type>> \in Registration
      BY <1>h, <2>1, Answers DEF Registration
    <3> QED BY <1>t, <3>1, <3>2
  <2> QED BY <1>t, <1>h, <2>1, <2>2, <2>3 DEF BridgeTypes, appVars, atVars
<1>2. CASE HandleGetKeystrokeListeners
  <2>1. /\ keyCalls' = keyCalls - 1 /\ keyCalls > 0
        /\ UNCHANGED <<registered, calls, appVars, atVars>>
    BY <1>2 DEF HandleGetKeystrokeListeners
  <2>2. PICK known \in SUBSET KeyAT : ToApp(<<[kind |-> "KeysReply", clients |-> known]>>)
    BY <1>2, Zenon DEF HandleGetKeystrokeListeners
  <2>3. appBox' \in Seq(AppMessage)
    BY <1>b, <2>2, AppKinds, KeyAssumption
  <2> QED BY <1>t, <2>1, <2>3 DEF BridgeTypes, appVars, atVars
<1>3. CASE Restart
  <2>1. /\ ToApp(<<[kind |-> "RegistryNew"]>>)
        /\ notices' = [at \in AT |-> IF connected[at] THEN Append(notices[at], "new") ELSE <<>>]
        /\ UNCHANGED <<registered, keyCalls, calls, appVars, connected, listening, atLost>>
    BY <1>3 DEF Restart
  <2>2. appBox' \in Seq(AppMessage)
    BY <1>b, <2>1, AppKinds
  <2>3. notices' \in [AT -> Seq({"gone", "new"})]
    BY <1>t, <2>1
  <2> QED BY <1>t, <2>1, <2>2, <2>3 DEF BridgeTypes, appVars
<1>4. CASE AppStep
  <2>1. /\ appBox # <<>> /\ appBox' = Tail(appBox)
        /\ UNCHANGED <<registered, atVars>>
        /\ calls' = calls \/ \E c \in CallMessage : calls' = Append(calls, c)
    BY <1>4, AppTakes, CallKinds
  <2>2. calls' \in Seq(CallMessage)
    BY <1>t, <1>c, <2>1
  <2>3. keyCalls' \in Nat /\ replies' \in Nat
    <3>1. keyCalls' = keyCalls \/ keyCalls' = keyCalls + 1
      BY <1>4 DEF AppStep, ReceiveEmbedReply, ReceiveEventsReply, ReceiveKeysReply, ReceiveRegistered,
         ReceiveDeregistered, ReceiveGone, ReceiveRegistryGone, ReceiveRegistryNew, registryVars
    <3>2. replies' = replies \/ replies' = replies + 1
      BY <1>4 DEF AppStep, ReceiveEmbedReply, ReceiveEventsReply, ReceiveKeysReply, ReceiveRegistered,
         ReceiveDeregistered, ReceiveGone, ReceiveRegistryGone, ReceiveRegistryNew, appVars, Tally
    <3> QED BY <1>t, <3>1, <3>2
  <2>4. mirror' \subseteq Registration /\ clients' \subseteq AT
    <3>1. CASE ReceiveEmbedReply
      BY <1>t, <3>1 DEF ReceiveEmbedReply, appVars
    <3>2. CASE ReceiveEventsReply
      <4>1. /\ mirror' = mirror \cup Head(appBox).events
            /\ clients' = clients \cup {e[1] : e \in Head(appBox).events}
            /\ Head(appBox).kind = "EventsReply"
        BY <3>2 DEF ReceiveEventsReply, Receive, AddClients
      <4>2. Head(appBox).events \subseteq Registration
        BY <1>h, <2>1, <4>1, AppKinds
      <4> QED BY <1>t, <4>1, <4>2 DEF Registration
    <3>3. CASE ReceiveKeysReply
      BY <1>t, <1>h, <2>1, <3>3, AppKinds DEF ReceiveKeysReply, Receive, AddClients
    <3>4. CASE ReceiveRegistered
      <4>1. /\ mirror' = mirror \cup {<<Head(appBox).at, Head(appBox).type>>}
            /\ clients' = clients \cup {Head(appBox).at}
            /\ Head(appBox).kind = "Registered"
        BY <3>4 DEF ReceiveRegistered, Receive, AddClients
      <4> QED BY <1>t, <1>h, <2>1, <4>1, AppKinds
    <3>5. CASE ReceiveDeregistered
      <4>1. mirror' \subseteq mirror /\ clients' = clients
        BY <3>5 DEF ReceiveDeregistered, MirrorWithout
      <4> QED BY <1>t, <4>1
    <3>6. CASE ReceiveGone
      <4>1. mirror' = mirror /\ clients' \subseteq clients
        BY <3>6 DEF ReceiveGone
      <4> QED BY <1>t, <4>1
    <3>7. CASE ReceiveRegistryGone \/ ReceiveRegistryNew
      BY <1>t, <3>7 DEF ReceiveRegistryGone, ReceiveRegistryNew
    <3> QED BY <1>4, <3>1, <3>2, <3>3, <3>4, <3>5, <3>6, <3>7 DEF AppStep
  <2> HIDE <1>4
  <2> QED BY <1>t, <1>h, <2>1, <2>2, <2>3, <2>4 DEF BridgeTypes, atVars
<1>5. CASE Start
  <2>1. calls' = Append(calls, [kind |-> "Embed"])
        /\ UNCHANGED <<registryVars, appBox, appVars, atVars>>
    BY <1>5 DEF Start
  <2>2. calls' \in Seq(CallMessage)
    BY <1>c, <2>1, CallKinds
  <2> QED BY <1>t, <2>1, <2>2 DEF BridgeTypes, registryVars, appVars, atVars
<1>6. CASE Crash
  <2>1. /\ registered' = {} /\ calls' = <<>> /\ keyCalls' = 0
        /\ notices' = [at \in AT |-> IF connected[at] THEN Append(notices[at], "gone") ELSE <<>>]
        /\ UNCHANGED <<appVars, connected, listening, atLost>>
    BY <1>6 DEF Crash
  <2>2. PICK order \in InOrder(Unanswered) :
          ToApp(<<[kind |-> "RegistryGone"]>> \o ErrorReplies(order))
    BY <1>6, Zenon DEF Crash
  <2>3. <<[kind |-> "RegistryGone"]>> \in Seq(AppMessage)
    BY AppKinds
  <2>4. ErrorReplies(order) \in Seq(AppMessage)
    BY ErrorsAreMessages
  <2>5. appBox' \in Seq(AppMessage)
    BY <1>t, <2>2, <2>3, <2>4 DEF ToApp
  <2>6. notices' \in [AT -> Seq({"gone", "new"})] /\ calls' \in Seq(CallMessage)
    BY <1>t, <2>1
  <2> QED BY <1>t, <2>1, <2>5, <2>6 DEF BridgeTypes, appVars
<1>7. ASSUME NEW at \in AT, Die(at) PROVE BridgeTypes'
  <2>1. /\ connected' = [connected EXCEPT ![at] = FALSE]
        /\ listening' = [listening EXCEPT ![at] = {}]
        /\ notices' = [notices EXCEPT ![at] = <<>>]
        /\ calls' = calls \/ calls' = Append(calls, [kind |-> "Gone", at |-> at])
        /\ UNCHANGED <<registryVars, appVars, atLost>>
    BY <1>7 DEF Die
  <2>2. ToApp(<<>>) \/ ToApp(<<[kind |-> "Gone", at |-> at]>>)
    BY <1>7 DEF Die
  <2>3. appBox' \in Seq(AppMessage)
    <3>1. CASE ToApp(<<>>)
      BY <1>t, <3>1 DEF ToApp
    <3>2. CASE ToApp(<<[kind |-> "Gone", at |-> at]>>)
      BY <1>b, <3>2, AppKinds
    <3> QED BY <2>2, <3>1, <3>2
  <2>4. calls' \in Seq(CallMessage)
    <3>1. [kind |-> "Gone", at |-> at] \in CallMessage
      BY CallKinds
    <3>2. Append(calls, [kind |-> "Gone", at |-> at]) \in Seq(CallMessage)
      BY <1>c, <3>1
    <3> QED BY <1>t, <2>1, <3>2
  <2>5. /\ listening' \in [AT -> SUBSET EventType] /\ connected' \in [AT -> BOOLEAN]
        /\ notices' \in [AT -> Seq({"gone", "new"})]
    BY <1>t, <2>1
  <2>6. \A a \in AT : IsFiniteSet(listening'[a])
    BY <1>t, <2>1, FS_EmptySet
  <2> QED BY <1>t, <2>1, <2>3, <2>4, <2>5, <2>6 DEF BridgeTypes, registryVars, appVars
<1>8. ASSUME NEW at \in AT, NEW type \in EventType, Listen(at, type) \/ Withdraw(at, type)
       PROVE  BridgeTypes'
  <2>1. UNCHANGED <<registryVars, appBox, appVars, connected, atLost, notices>>
    BY <1>8 DEF Listen, Withdraw
  <2>2. \/ /\ listening' = [listening EXCEPT ![at] = @ \cup {type}]
           /\ calls' = Append(calls, [kind |-> "RegisterEvent", at |-> at, type |-> type])
        \/ /\ listening' = [listening EXCEPT ![at] = @ \ {type}]
           /\ calls' = Append(calls, [kind |-> "DeregisterEvent", at |-> at, type |-> type])
    BY <1>8 DEF Listen, Withdraw
  <2>3. calls' \in Seq(CallMessage)
    <3>1. PICK c \in CallMessage : calls' = Append(calls, c)
      BY <2>2, CallKinds
    <3> QED BY <1>c, <3>1
  <2>4. IsFiniteSet(listening[at] \cup {type}) /\ IsFiniteSet(listening[at] \ {type})
    BY <1>t, FS_AddElement, FS_RemoveElement
  <2>5. listening' \in [AT -> SUBSET EventType] /\ \A a \in AT : IsFiniteSet(listening'[a])
    BY <1>t, <2>2, <2>4
  <2> QED BY <1>t, <2>1, <2>3, <2>5 DEF BridgeTypes, registryVars, appVars
<1>9. ASSUME NEW at \in AT, Notice(at) PROVE BridgeTypes'
  <2>1. /\ notices[at] # <<>> /\ notices' = [notices EXCEPT ![at] = Tail(@)]
        /\ calls' = calls \/ calls' = calls \o Reregister(at)
        /\ \/ atLost' = [atLost EXCEPT ![at] = FALSE]
           \/ atLost' = [atLost EXCEPT ![at] = @ \/ Head(notices[at]) = "gone"]
        /\ UNCHANGED <<registryVars, appBox, appVars, connected, listening>>
    BY <1>9 DEF Notice
  <2>2. calls' \in Seq(CallMessage)
    <3>1. PICK r \in Seq(CallMessage) : r = Reregister(at)
      BY Reregistered
    <3>2. calls \o r \in Seq(CallMessage)
      BY <1>t
    <3> QED BY <1>t, <2>1, <3>1, <3>2
  <2>3. notices' \in [AT -> Seq({"gone", "new"})]
    BY <1>t, <2>1
  <2>4. atLost' \in [AT -> BOOLEAN]
    <3>1. atLost[at] \in BOOLEAN /\ (Head(notices[at]) = "gone") \in BOOLEAN
      BY <1>t
    <3>2. PICK b \in BOOLEAN : b = (atLost[at] \/ Head(notices[at]) = "gone")
      BY <3>1, Zenon
    <3>3. atLost' = [atLost EXCEPT ![at] = FALSE] \/ atLost' = [atLost EXCEPT ![at] = b]
      BY <2>1, <3>2
    <3> QED BY <1>t, <3>3
  <2> QED BY <1>t, <2>1, <2>2, <2>3, <2>4 DEF BridgeTypes, registryVars, appVars
<1>10. CASE UNCHANGED vars
  BY <1>t, <1>10 DEF vars, BridgeTypes, registryVars, appVars, atVars
<1> QED
  BY <1>1, <1>2, <1>3, <1>4, <1>5, <1>6, <1>7, <1>8, <1>9, <1>10
     DEF Next, RegistryStep, Environment

-----------------------------------------------------------------------------
(* What else holds *)

LEMMA NotYetStep ==
  ASSUME BridgeTypes, NotYet, [Next]_vars
  PROVE  NotYet'
<1>1. ASSUME ~started, ~started' PROVE appBox' = <<>> /\ keyCalls' = 0 /\ replies' = 0
  <2>1. appBox = <<>> /\ keyCalls = 0 /\ replies = 0
    BY <1>1 DEF NotYet
  <2>2. ~AppStep
    BY <2>1, AppTakes
  <2>3. CASE RegistryStep
    <3>1. appBox' = appBox /\ replies' = replies /\ (keyCalls' = keyCalls \/ keyCalls > 0)
      BY <1>1, <2>3 DEF RegistryStep, HandleRegisterEvent, HandleDeregisterEvent, HandleGone,
         HandleEmbed, HandleGetRegisteredEvents, HandleGetKeystrokeListeners, Restart, ToApp,
         appVars, registryVars
    <3> QED BY <2>1, <3>1
  <2>4. CASE Environment
    <3>1. appBox' = appBox /\ replies' = replies /\ (keyCalls' = keyCalls \/ keyCalls' = 0)
      BY <1>1, <2>4 DEF Environment, Start, Crash, Die, Listen, Withdraw, ToApp, appVars, registryVars
    <3> QED BY <2>1, <3>1
  <2>5. ASSUME NEW at \in AT, Notice(at) PROVE appBox' = <<>> /\ keyCalls' = 0 /\ replies' = 0
    BY <2>1, <2>5 DEF Notice, appVars, registryVars
  <2>6. CASE UNCHANGED vars
    BY <2>1, <2>6 DEF vars, appVars, registryVars
  <2> QED BY <2>2, <2>3, <2>4, <2>5, <2>6 DEF Next
<1>2. started => started'
  BY DEF Next, RegistryStep, HandleRegisterEvent, HandleDeregisterEvent, HandleGone,
     HandleEmbed, HandleGetRegisteredEvents, HandleGetKeystrokeListeners, Restart,
     AppStep, ReceiveEmbedReply, ReceiveEventsReply, ReceiveKeysReply, ReceiveRegistered,
     ReceiveDeregistered, ReceiveGone, ReceiveRegistryGone, ReceiveRegistryNew,
     Environment, Start, Crash, Die, Listen, Withdraw, Notice, vars
<1>3. ASSUME initialized' PROVE replies' # 0
  <2>1. \/ initialized' = initialized /\ replies' = replies
        \/ replies' = replies + 1
    BY DEF Next, RegistryStep, HandleRegisterEvent, HandleDeregisterEvent, HandleGone,
       HandleEmbed, HandleGetRegisteredEvents, HandleGetKeystrokeListeners, Restart,
       AppStep, ReceiveEmbedReply, ReceiveEventsReply, ReceiveKeysReply, ReceiveRegistered,
       ReceiveDeregistered, ReceiveGone, ReceiveRegistryGone, ReceiveRegistryNew, Tally,
       Environment, Start, Crash, Die, Listen, Withdraw, Notice, vars, appVars
  <2>2. replies \in Nat /\ (initialized => replies # 0)
    BY DEF NotYet, BridgeTypes
  <2>3. replies + 1 # 0
    BY <2>2
  <2> QED BY <1>3, <2>1, <2>2, <2>3
<1> QED BY <1>1, <1>2, <1>3 DEF NotYet

LEMMA LiveClientsStep ==
  ASSUME BridgeTypes, LiveClients, [Next]_vars
  PROVE  LiveClients'
<1> DEFINE C == FalseEnd(CallMessage)
           M == FalseEnd(AppMessage)
<1>c. Clean(calls, C) /\ Clean(appBox, M) /\ \A at \in AT : listening[at] # {} => connected[at]
  BY DEF LiveClients
<1>k. /\ \A c \in CallMessage : c.kind # "Gone" => c \notin C
      /\ \A m \in AppMessage : m.kind # "Gone" => m \notin M
  BY DEF FalseEnd
<1>f. ASSUME \A at \in AT : connected'[at] => connected[at]
      PROVE  C' \subseteq C /\ M' \subseteq M
  <2>1. /\ \A c \in CallMessage : c.kind = "Gone" => c.at \in AT
        /\ \A m \in AppMessage : m.kind = "Gone" => m.at \in AT
    BY CallKinds, AppKinds
  <2> QED BY <1>f, <2>1 DEF FalseEnd
<1>s. \A q, r, s : Clean(q, s) /\ r \subseteq s => Clean(q, r)
  BY DEF Clean
<1>q. ASSUME connected' = connected, \A at \in AT : listening'[at] # {} => connected[at],
             Clean(calls', C), Clean(appBox', M)
      PROVE  LiveClients'
  <2>1. C' = C /\ M' = M
    BY <1>q DEF FalseEnd
  <2> HIDE DEF C, M
  <2>2. Clean(calls', C') /\ Clean(appBox', M')
    BY <1>q, <2>1
  <2> QED BY <1>q, <2>2 DEF LiveClients, C, M
<1>1. CASE HandleRegisterEvent \/ HandleDeregisterEvent \/ HandleGone
           \/ HandleEmbed \/ HandleGetRegisteredEvents
  <2>1. /\ calls # <<>> /\ calls' = Tail(calls) /\ UNCHANGED <<connected, listening>>
        /\ \E m \in AppMessage : m.kind # "Gone" /\ ToApp(<<m>>)
    BY <1>1, RegistryTells DEF atVars
  <2> HIDE DEF C, M
  <2>2. Clean(calls', C)
    BY <1>c, <2>1, CallsClean
  <2>3. Clean(appBox', M)
    BY <1>c, <1>k, <2>1, BoxClean
  <2> QED BY <1>c, <1>q, <2>1, <2>2, <2>3
<1>2. CASE HandleGetKeystrokeListeners \/ Restart
  <2>1. calls' = calls /\ UNCHANGED <<connected, listening>>
    BY <1>2 DEF HandleGetKeystrokeListeners, Restart, atVars
  <2>2. \E m \in AppMessage : m.kind # "Gone" /\ ToApp(<<m>>)
    <3>1. CASE Restart
      <4>1. [kind |-> "RegistryNew"] \in AppMessage /\ ToApp(<<[kind |-> "RegistryNew"]>>)
        BY <3>1, AppKinds DEF Restart
      <4>2. PICK m \in AppMessage : m.kind = "RegistryNew" /\ ToApp(<<m>>)
        BY <4>1
      <4> QED BY <4>2
    <3>2. CASE HandleGetKeystrokeListeners
      <4>1. PICK known \in SUBSET KeyAT : ToApp(<<[kind |-> "KeysReply", clients |-> known]>>)
        BY <3>2, Zenon DEF HandleGetKeystrokeListeners
      <4>2. [kind |-> "KeysReply", clients |-> known] \in AppMessage
        BY AppKinds, KeyAssumption
      <4>3. PICK m \in AppMessage : m.kind = "KeysReply" /\ ToApp(<<m>>)
        BY <4>1, <4>2
      <4> QED BY <4>3
    <3> QED BY <1>2, <3>1, <3>2
  <2> HIDE DEF C, M
  <2>3. Clean(appBox', M)
    BY <1>c, <1>k, <2>2, BoxClean
  <2> QED BY <1>c, <1>q, <2>1, <2>3
<1>3. CASE AppStep
  <2>1. /\ appBox # <<>> /\ appBox' = Tail(appBox) /\ UNCHANGED <<connected, listening>>
        /\ \/ calls' = calls
           \/ \E c \in CallMessage : c.kind # "Gone" /\ calls' = Append(calls, c)
    BY <1>3, AppTakes, CallKinds DEF atVars
  <2> HIDE DEF C, M
  <2>2. Clean(calls', C)
    BY <1>c, <1>k, <2>1, CallsClean
  <2>3. Clean(appBox', M)
    BY <1>c, <2>1, BoxClean
  <2> QED BY <1>c, <1>q, <2>1, <2>2, <2>3
<1>4. CASE Start
  <2>1. appBox' = appBox /\ UNCHANGED <<connected, listening>>
        /\ \E c \in CallMessage : c.kind # "Gone" /\ calls' = Append(calls, c)
    BY <1>4, CallKinds DEF Start, atVars
  <2> HIDE DEF C, M
  <2>2. Clean(calls', C)
    BY <1>c, <1>k, <2>1, CallsClean
  <2> QED BY <1>c, <1>q, <2>1, <2>2
<1>5. CASE Crash
  <2>1. calls' = <<>> /\ UNCHANGED <<connected, listening>>
    BY <1>5 DEF Crash
  <2>2. PICK order \in InOrder(Unanswered) :
          ToApp(<<[kind |-> "RegistryGone"]>> \o ErrorReplies(order))
    BY <1>5, Zenon DEF Crash
  <2>3. PICK e \in Seq(AppMessage) : /\ e = ErrorReplies(order)
                                     /\ \A i \in 1..Len(e) : e[i].kind # "Gone"
    BY ErrorsAreMessages
  <2>4. PICK m \in AppMessage : m = [kind |-> "RegistryGone"]
    BY AppKinds
  <2>5. PICK r : r = <<m>> \o e
    OBVIOUS
  <2>6. /\ r \in Seq(AppMessage) /\ Len(r) = 1 + Len(e) /\ r[1] = m
        /\ \A i \in 1..Len(r) : i = 1 \/ (i - 1 \in 1..Len(e) /\ r[i] = e[i - 1])
    BY <2>3, <2>4, <2>5
  <2>7. \A i \in 1..Len(r) : r[i] \in AppMessage /\ r[i].kind # "Gone"
    <3>1. ASSUME NEW i \in 1..Len(r), i - 1 \in 1..Len(e), r[i] = e[i - 1]
          PROVE  r[i] \in AppMessage /\ r[i].kind # "Gone"
      BY <2>3, <3>1
    <3>2. r[1] \in AppMessage /\ r[1].kind # "Gone"
      BY <2>4, <2>6
    <3> QED BY <2>6, <3>1, <3>2
  <2> HIDE DEF C, M
  <2>8. Clean(r, M)
    BY <1>k, <2>7 DEF Clean
  <2>9. Clean(appBox \o r, M)
    BY <1>c, <2>6, <2>8, StaysConcatenated DEF BridgeTypes
  <2>10. ToApp(r)
    BY <2>2, <2>3, <2>4, <2>5
  <2>11. Clean(appBox', M)
    BY <1>c, <2>9, <2>10 DEF ToApp
  <2>12. Clean(calls', C)
    BY <2>1 DEF Clean
  <2> QED BY <1>c, <1>q, <2>1, <2>11, <2>12
<1>6. ASSUME NEW at \in AT, Die(at) PROVE LiveClients'
  <2>1. /\ connected' = [connected EXCEPT ![at] = FALSE]
        /\ listening' = [listening EXCEPT ![at] = {}]
        /\ calls' = calls \/ calls' = Append(calls, [kind |-> "Gone", at |-> at])
        /\ ToApp(<<>>) \/ ToApp(<<[kind |-> "Gone", at |-> at]>>)
    BY <1>6 DEF Die
  <2>2. \A a \in AT : /\ connected'[a] => connected[a]
                      /\ listening'[a] # {} => connected'[a]
    BY <1>c, <2>1 DEF BridgeTypes
  <2>3. C' \subseteq C /\ M' \subseteq M
    BY <1>f, <2>2
  <2>4. ~connected'[at]
    BY <2>1 DEF BridgeTypes
  <2>5. /\ [kind |-> "Gone", at |-> at] \in CallMessage /\ [kind |-> "Gone", at |-> at] \in AppMessage
        /\ [kind |-> "Gone", at |-> at] \notin C' /\ [kind |-> "Gone", at |-> at] \notin M'
    BY <2>4, CallKinds, AppKinds DEF FalseEnd
  <2>6. PICK g : g = [kind |-> "Gone", at |-> at]
    OBVIOUS
  <2>7. Clean(calls, C') /\ Clean(appBox, M')
    <3> HIDE DEF C, M
    <3> QED BY <1>c, <1>s, <2>3
  <2>8. Clean(calls', C')
    <3> HIDE DEF C, M
    <3>1. calls' = calls \/ \E c \in CallMessage : c \notin C' /\ calls' = Append(calls, c)
      BY <2>1, <2>5, <2>6
    <3>2. PICK X : X = C'
      OBVIOUS
    <3> QED BY <2>7, <3>1, <3>2, CallsClean
  <2>9. Clean(appBox', M')
    <3> HIDE DEF C, M
    <3>1. appBox' = appBox \/ \E m \in AppMessage : m \notin M' /\ ToApp(<<m>>)
      <4>1. ToApp(<<>>) => appBox' = appBox
        BY DEF ToApp, BridgeTypes
      <4> QED BY <2>1, <2>5, <2>6, <4>1
    <3>2. PICK X : X = M'
      OBVIOUS
    <3> QED BY <2>7, <3>1, <3>2, BoxClean
  <2> QED BY <2>2, <2>8, <2>9 DEF LiveClients
<1>7. ASSUME NEW at \in AT, NEW type \in EventType, Listen(at, type) \/ Withdraw(at, type)
      PROVE  LiveClients'
  <2>1. /\ UNCHANGED <<appBox, connected>> /\ connected[at]
        /\ \A a \in AT : a # at => listening'[a] = listening[a]
    BY <1>7 DEF Listen, Withdraw, IsFree, BridgeTypes
  <2>2. \E c \in CallMessage : c.kind # "Gone" /\ calls' = Append(calls, c)
    <3>1. \/ calls' = Append(calls, [kind |-> "RegisterEvent", at |-> at, type |-> type])
          \/ calls' = Append(calls, [kind |-> "DeregisterEvent", at |-> at, type |-> type])
      BY <1>7 DEF Listen, Withdraw
    <3> QED BY <3>1, CallKinds
  <2>3. \A a \in AT : listening'[a] # {} => connected[a]
    BY <1>c, <2>1
  <2> HIDE DEF C, M
  <2>4. Clean(calls', C)
    BY <1>c, <1>k, <2>2, CallsClean
  <2> QED BY <1>c, <1>q, <2>1, <2>3, <2>4
<1>8. ASSUME NEW at \in AT, Notice(at) PROVE LiveClients'
  <2>1. /\ UNCHANGED <<appBox, connected, listening>>
        /\ calls' = calls \/ calls' = calls \o Reregister(at)
    BY <1>8 DEF Notice
  <2> HIDE DEF C, M
  <2>2. PICK r : r = Reregister(at)
    OBVIOUS
  <2>3. r \in Seq(CallMessage) /\ \A i \in 1..Len(r) : r[i] \in CallMessage /\ r[i].kind # "Gone"
    BY <2>2, Reregistered
  <2>4. Clean(r, C)
    BY <1>k, <2>3 DEF Clean
  <2>5. Clean(calls \o r, C)
    BY <1>c, <2>3, <2>4, StaysConcatenated DEF BridgeTypes
  <2> QED BY <1>c, <1>q, <2>1, <2>2, <2>5
<1>9. CASE UNCHANGED vars
  <2>1. UNCHANGED <<calls, appBox, connected, listening>>
    BY <1>9 DEF vars, atVars
  <2> HIDE DEF C, M
  <2> QED BY <1>c, <1>q, <2>1
<1> QED
  BY <1>1, <1>2, <1>3, <1>4, <1>5, <1>6, <1>7, <1>8, <1>9 DEF Next, RegistryStep, Environment

LEMMA LastLeft ==
  ASSUME NEW S, NEW n \in Seq(S), n # <<>>
  PROVE  /\ Tail(n) = <<>> => Head(n) = n[Len(n)]
         /\ Tail(n) # <<>> => Tail(n)[Len(Tail(n))] = n[Len(n)]
<1>1. /\ Len(n) \in Nat \ {0} /\ Head(n) = n[1] /\ Len(Tail(n)) = Len(n) - 1
      /\ \A i \in 1..(Len(n) - 1) : Tail(n)[i] = n[i + 1]
  OBVIOUS
<1>2. PICK t \in Seq(S) : t = Tail(n)
  BY Taken
<1>3. t = <<>> <=> Len(t) = 0
  OBVIOUS
<1>4. Len(t) = 0 => n[1] = n[Len(n)]
  BY <1>1, <1>2
<1>5. Len(t) # 0 => t[Len(t)] = n[Len(n)]
  BY <1>1, <1>2
<1> QED BY <1>1, <1>2, <1>3, <1>4, <1>5

LEMMA NoticedStep ==
  ASSUME BridgeTypes, Noticed, [Next]_vars
  PROVE  Noticed'
<1>t. /\ connected \in [AT -> BOOLEAN] /\ atLost \in [AT -> BOOLEAN]
      /\ notices \in [AT -> Seq({"gone", "new"})]
  BY DEF BridgeTypes
<1>1. CASE UNCHANGED <<up, connected, atLost, notices>>
  BY <1>1 DEF Noticed
<1>2. CASE Restart
  <2>1. /\ notices' = [at \in AT |-> IF connected[at] THEN Append(notices[at], "new") ELSE <<>>]
        /\ connected' = connected
    BY <1>2 DEF Restart
  <2>2. ASSUME NEW at \in AT, connected'[at]
        PROVE  notices'[at] # <<>> /\ notices'[at][Len(notices'[at])] = "new"
    <3>1. notices'[at] = Append(notices[at], "new")
      BY <2>1, <2>2
    <3>2. PICK n \in Seq({"gone", "new"}) : n = notices[at]
      BY <1>t
    <3>3. Append(n, "new") # <<>> /\ Append(n, "new")[Len(Append(n, "new"))] = "new"
      OBVIOUS
    <3> QED BY <3>1, <3>2, <3>3
  <2> QED BY <2>2 DEF Noticed
<1>3. CASE Crash
  BY <1>3 DEF Crash, Noticed
<1>4. ASSUME NEW at \in AT, Die(at) PROVE Noticed'
  <2>1. /\ connected' = [connected EXCEPT ![at] = FALSE]
        /\ notices' = [notices EXCEPT ![at] = <<>>]
        /\ up' = up /\ atLost' = atLost
    BY <1>4 DEF Die, registryVars
  <2>2. \A a \in AT : connected'[a] => connected[a] /\ notices'[a] = notices[a]
    BY <1>t, <2>1
  <2> QED BY <2>1, <2>2 DEF Noticed
<1>5. ASSUME NEW at \in AT, Notice(at) PROVE Noticed'
  <2>1. /\ notices' = [notices EXCEPT ![at] = Tail(@)] /\ up' = up /\ connected' = connected
        /\ notices[at] # <<>>
    BY <1>5 DEF Notice, registryVars
  <2>2. \A a \in AT : a # at => notices'[a] = notices[a] /\ atLost'[a] = atLost[a]
    BY <1>t, <1>5 DEF Notice
  <2>3. PICK n \in Seq({"gone", "new"}) : n = notices[at] /\ notices'[at] = Tail(n) /\ n # <<>>
    BY <1>t, <2>1
  <2>4. ASSUME up, connected[at]
        PROVE  IF Tail(n) = <<>> THEN ~atLost'[at] ELSE Tail(n)[Len(Tail(n))] = "new"
    <3>1. n[Len(n)] = "new"
      BY <2>3, <2>4 DEF Noticed
    <3>2. CASE Tail(n) = <<>>
      <4>1. Head(n) = "new"
        BY <2>3, <3>1, <3>2, LastLeft
      <4>2. \/ atLost' = [atLost EXCEPT ![at] = FALSE]
            \/ ~atLost[at] /\ atLost' = [atLost EXCEPT ![at] = @ \/ Head(n) = "gone"]
        BY <1>5, <2>3, <4>1 DEF Notice
      <4>3. atLost' = [atLost EXCEPT ![at] = FALSE] => ~atLost'[at]
        BY <1>t
      <4>4. CASE ~atLost[at] /\ atLost' = [atLost EXCEPT ![at] = @ \/ Head(n) = "gone"]
        <5>1. PICK b : b = (atLost[at] \/ Head(n) = "gone")
          OBVIOUS
        <5>2. ~(Head(n) = "gone") /\ ~atLost[at]
          BY <4>1, <4>4
        <5>3. ~b
          BY <5>1, <5>2
        <5>4. atLost'[at] = b
          BY <1>t, <4>4, <5>1
        <5> QED BY <3>2, <5>3, <5>4
      <4> QED BY <3>2, <4>2, <4>3, <4>4
    <3>3. CASE Tail(n) # <<>>
      BY <2>3, <3>1, <3>3, LastLeft
    <3> QED BY <3>2, <3>3
  <2> QED BY <2>1, <2>2, <2>3, <2>4 DEF Noticed
<1>6. CASE HandleRegisterEvent \/ HandleDeregisterEvent \/ HandleGone
           \/ HandleEmbed \/ HandleGetRegisteredEvents
  BY <1>1, <1>6, RegistryTells DEF atVars
<1>7. CASE AppStep
  BY <1>1, <1>7, AppTakes DEF atVars
<1>8. HandleGetKeystrokeListeners \/ Start \/ UNCHANGED vars
        => UNCHANGED <<up, connected, atLost, notices>>
  BY DEF HandleGetKeystrokeListeners, Start, vars, registryVars, atVars
<1>9. \A at \in AT, type \in EventType : Listen(at, type) \/ Withdraw(at, type)
        => UNCHANGED <<up, connected, atLost, notices>>
  BY DEF Listen, Withdraw, registryVars
<1> QED
  BY <1>1, <1>2, <1>3, <1>4, <1>5, <1>6, <1>7, <1>8, <1>9 DEF Next, RegistryStep, Environment

LEMMA ServedStep ==
  ASSUME BridgeTypes, LiveClients, Served, [Next]_vars
  PROVE  Served'
<1>t. /\ connected \in [AT -> BOOLEAN] /\ mirror \subseteq Registration /\ clients \subseteq AT
      /\ clients # {} => active
      /\ \A e \in mirror : connected[e[1]] => e[1] \in clients
  BY DEF BridgeTypes, Served
<1>1. CASE UNCHANGED <<connected, clients, mirror, active>>
  BY <1>t, <1>1 DEF Served
<1>2. ASSUME NEW names, NEW more, AddClients(names), mirror' = mirror \cup more,
             connected' = connected, \A e \in more : e[1] \in names
      PROVE  Served'
  <2>1. clients' = clients \cup names /\ (clients' # {} => active')
    BY <1>t, <1>2 DEF AddClients
  <2>2. \A e \in mirror' : connected'[e[1]] => e[1] \in clients'
    BY <1>t, <1>2, <2>1
  <2> QED BY <2>1, <2>2 DEF Served
<1>3. CASE AppStep
  <2>1. /\ appBox # <<>> /\ appBox' = Tail(appBox) /\ Head(appBox) \in AppMessage
        /\ connected' = connected
    BY <1>3, AppTakes DEF atVars
  <2>2. CASE ReceiveEmbedReply \/ ReceiveRegistryGone \/ ReceiveRegistryNew
    BY <1>1, <2>1, <2>2 DEF ReceiveEmbedReply, ReceiveRegistryGone, ReceiveRegistryNew, appVars
  <2>3. CASE ReceiveEventsReply
    <3>1. /\ mirror' = mirror \cup Head(appBox).events
          /\ AddClients({e[1] : e \in Head(appBox).events})
      BY <2>3 DEF ReceiveEventsReply
    <3>2. PICK names : names = {e[1] : e \in Head(appBox).events}
      OBVIOUS
    <3>3. \A e \in Head(appBox).events : e[1] \in names
      BY <3>2
    <3> QED BY <1>2, <2>1, <3>1, <3>2, <3>3
  <2>4. CASE ReceiveKeysReply
    <3>1. mirror' = mirror \cup {} /\ AddClients(Head(appBox).clients)
      BY <2>4 DEF ReceiveKeysReply
    <3>2. PICK none : none = {}
      OBVIOUS
    <3>3. \A e \in none : e[1] \in Head(appBox).clients
      BY <3>2
    <3> QED BY <1>2, <2>1, <3>1, <3>2, <3>3
  <2>5. CASE ReceiveRegistered
    <3>1. /\ mirror' = mirror \cup {<<Head(appBox).at, Head(appBox).type>>}
          /\ AddClients({Head(appBox).at})
      BY <2>5 DEF ReceiveRegistered
    <3>2. PICK names, more : names = {Head(appBox).at} /\ more = {<<Head(appBox).at, Head(appBox).type>>}
      OBVIOUS
    <3>3. \A e \in more : e[1] \in names
      BY <3>2
    <3> QED BY <1>2, <2>1, <3>1, <3>2, <3>3
  <2>6. CASE ReceiveDeregistered
    <3>1. mirror' \subseteq mirror /\ UNCHANGED <<clients, active>>
      BY <2>6 DEF ReceiveDeregistered, MirrorWithout
    <3> QED BY <1>t, <2>1, <3>1 DEF Served
  <2>7. CASE ReceiveGone
    <3>1. /\ clients' = clients \ {Head(appBox).at} /\ mirror' = mirror
          /\ active' = (active /\ (Head(appBox).at \in clients => clients' # {}))
          /\ Head(appBox).kind = "Gone"
      BY <2>7 DEF ReceiveGone, Receive
    <3>2. Head(appBox) \notin FalseEnd(AppMessage)
      BY <2>1, StaysTaken DEF BridgeTypes, LiveClients
    <3>3. ~connected[Head(appBox).at]
      BY <2>1, <3>1, <3>2 DEF FalseEnd
    <3>4. \A e \in mirror' : connected'[e[1]] => e[1] \in clients'
      BY <1>t, <2>1, <3>1, <3>3
    <3>5. clients' # {} => active'
      BY <1>t, <3>1
    <3> QED BY <3>4, <3>5 DEF Served
  <2> QED BY <1>3, <2>2, <2>3, <2>4, <2>5, <2>6, <2>7 DEF AppStep
<1>4. ASSUME NEW at \in AT, Die(at) PROVE Served'
  <2>1. connected' = [connected EXCEPT ![at] = FALSE] /\ UNCHANGED <<clients, mirror, active>>
    BY <1>4 DEF Die, appVars
  <2>2. \A e \in mirror : e[1] \in AT
    BY <1>t DEF Registration
  <2>3. \A a \in AT : connected'[a] => connected[a]
    BY <1>t, <2>1
  <2> QED BY <1>t, <2>1, <2>2, <2>3 DEF Served
<1>5. CASE HandleRegisterEvent \/ HandleDeregisterEvent \/ HandleGone
           \/ HandleEmbed \/ HandleGetRegisteredEvents
  BY <1>1, <1>5, RegistryTells DEF atVars, appVars
<1>6. HandleGetKeystrokeListeners \/ Restart \/ Start \/ Crash \/ UNCHANGED vars
        => UNCHANGED <<connected, clients, mirror, active>>
  BY DEF HandleGetKeystrokeListeners, Restart, Start, Crash, vars, appVars, atVars
<1>7. \A at \in AT, type \in EventType : Listen(at, type) \/ Withdraw(at, type)
        => UNCHANGED <<connected, clients, mirror, active>>
  BY DEF Listen, Withdraw, appVars
<1>8. \A at \in AT : Notice(at) => UNCHANGED <<connected, clients, mirror, active>>
  BY DEF Notice, appVars
<1> QED
  BY <1>1, <1>3, <1>4, <1>5, <1>6, <1>7, <1>8 DEF Next, RegistryStep, Environment

-----------------------------------------------------------------------------
(* Every registration reaches the application *)

LEMMA HasConcatenated ==
  ASSUME NEW S, NEW q \in Seq(S), NEW r \in Seq(S), NEW kind, Has(q, kind)
  PROVE  Has(q \o r, kind)
<1> PICK p : p = q \o r
  OBVIOUS
<1>1. \A i \in 1..Len(q) : i \in 1..Len(p) /\ p[i] = q[i]
  OBVIOUS
<1> QED BY <1>1 DEF Has

LEMMA KindsOf ==
  ASSUME NEW at \in AT, NEW type \in EventType
  PROVE  /\ \A c \in Undo(at, type) : c.kind = "DeregisterEvent" /\ c.at = at
         /\ \A c \in Ask(at, type) : c.kind = "RegisterEvent"
         /\ \A m \in Untold(at, type) : m.kind = "Deregistered" /\ m.at = at
         /\ \A m \in Told(at, type) : m.kind \in {"Registered", "EventsReply"}
         /\ \A m \in Answer : m.kind \in {"EventsReply", "KeysReply"}
BY DEF Undo, Ask, Untold, Told, Answer

\* Nothing is taken from a queue, and nothing bad is added.
LEMMA ReachesKept ==
  ASSUME BridgeTypes, NEW at \in AT, NEW type \in EventType, Reaches(at, type),
         Lost(at) => Lost(at)',
         \/ calls' = calls
         \/ \E c \in CallMessage : c \notin Undo(at, type) /\ calls' = Append(calls, c)
         \/ \E r \in Seq(CallMessage) : Clean(r, Undo(at, type)) /\ calls' = calls \o r,
         \/ appBox' = appBox
         \/ \E m \in AppMessage : m \notin Untold(at, type) /\ m \notin Answer /\ ToApp(<<m>>),
         UNCHANGED <<started, registered, replies, keyCalls, mirror>>
  PROVE  Reaches(at, type)'
<1> DEFINE U == Undo(at, type)
           A == Ask(at, type)
           D == Untold(at, type)
           T == Told(at, type)
<1> HIDE DEF U, A, D, T
<1>t. calls \in Seq(CallMessage) /\ appBox \in Seq(AppMessage)
  BY DEF BridgeTypes
<1>1. /\ Clean(calls, U) => Clean(calls', U)
      /\ Stays(calls, A, U) => Stays(calls', A, U)
      /\ Has(calls, "Embed") => Has(calls', "Embed")
      /\ Has(calls, "GetRegisteredEvents") => Has(calls', "GetRegisteredEvents")
  <2>1. ASSUME NEW c \in CallMessage, c \notin U, calls' = Append(calls, c)
        PROVE  /\ Clean(calls, U) => Clean(calls', U)
               /\ Stays(calls, A, U) => Stays(calls', A, U)
               /\ Has(calls, "Embed") => Has(calls', "Embed")
               /\ Has(calls, "GetRegisteredEvents") => Has(calls', "GetRegisteredEvents")
    <3> PICK p : p = Append(calls, c)
      OBVIOUS
    <3>1. /\ Clean(calls, U) => Clean(p, U)
          /\ Stays(calls, A, U) => Stays(p, A, U)
      BY <1>t, <2>1, StaysAppended
    <3>2. \A k : Has(calls, k) => Has(p, k)
      BY <1>t, HasMore
    <3> QED BY <2>1, <3>1, <3>2
  <2>2. ASSUME NEW r \in Seq(CallMessage), Clean(r, U), calls' = calls \o r
        PROVE  /\ Clean(calls, U) => Clean(calls', U)
               /\ Stays(calls, A, U) => Stays(calls', A, U)
               /\ Has(calls, "Embed") => Has(calls', "Embed")
               /\ Has(calls, "GetRegisteredEvents") => Has(calls', "GetRegisteredEvents")
    <3> PICK p : p = calls \o r
      OBVIOUS
    <3>1. /\ Clean(calls, U) => Clean(p, U)
          /\ Stays(calls, A, U) => Stays(p, A, U)
      BY <1>t, <2>2, StaysConcatenated
    <3>2. \A k : Has(calls, k) => Has(p, k)
      BY <1>t, HasConcatenated
    <3> QED BY <2>2, <3>1, <3>2
  <2> QED BY <2>1, <2>2 DEF U
<1>2. /\ Clean(appBox, D) => Clean(appBox', D)
      /\ Clean(appBox, Answer) => Clean(appBox', Answer)
      /\ Stays(appBox, T, D) => Stays(appBox', T, D)
      /\ Has(appBox, "EmbedReply") => Has(appBox', "EmbedReply")
  <2>1. ASSUME NEW m \in AppMessage, m \notin D, m \notin Answer, ToApp(<<m>>)
        PROVE  /\ Clean(appBox, D) => Clean(appBox', D)
               /\ Clean(appBox, Answer) => Clean(appBox', Answer)
               /\ Stays(appBox, T, D) => Stays(appBox', T, D)
               /\ Has(appBox, "EmbedReply") => Has(appBox', "EmbedReply")
    <3>1. /\ Clean(appBox, D) => Clean(appBox', D)
          /\ Stays(appBox, T, D) => Stays(appBox', T, D)
      BY <2>1, HeardBox
    <3>2. Clean(appBox, Answer) => Clean(appBox', Answer)
      BY <2>1, HeardBox
    <3>3. PICK p : p = Append(appBox, m)
      OBVIOUS
    <3>4. Has(appBox, "EmbedReply") => Has(p, "EmbedReply")
      BY <1>t, <3>3, HasMore
    <3>5. appBox' = appBox \/ appBox' = p
      BY <2>1, <3>3, AppHears
    <3> QED BY <3>1, <3>2, <3>4, <3>5
  <2> QED BY <2>1 DEF D
<1>3. WillAsk => WillAsk'
  BY <1>1, <1>2 DEF WillAsk, Quiet
<1> QED BY <1>1, <1>2, <1>3 DEF Reaches, U, A, D, T

\* The registry handles a call and tells the application.
LEMMA ReachesHandled ==
  ASSUME BridgeTypes, NEW at \in AT, NEW type \in EventType, Reaches(at, type),
         calls # <<>>, calls' = Tail(calls), NEW m \in AppMessage, ToApp(<<m>>),
         UNCHANGED <<started, atLost, notices, mirror, replies, keyCalls>>,
         <<at, type>> \in registered => <<at, type>> \in registered',
         m \in Untold(at, type) => Head(calls) \in Undo(at, type),
         Head(calls) \in Ask(at, type) => <<at, type>> \in registered' /\ m \in Told(at, type),
         Head(calls).kind = "Embed" => m.kind = "EmbedReply",
         Head(calls).kind = "GetRegisteredEvents" /\ <<at, type>> \in registered
           => m \in Told(at, type),
         m \in Answer => Head(calls).kind = "GetRegisteredEvents"
  PROVE  Reaches(at, type)'
<1> DEFINE U == Undo(at, type)
           A == Ask(at, type)
           D == Untold(at, type)
           T == Told(at, type)
<1> HIDE DEF U, A, D, T
<1> PICK h, t, p : h = Head(calls) /\ t = Tail(calls) /\ p = Append(appBox, m)
  OBVIOUS
<1>t. calls \in Seq(CallMessage) /\ appBox \in Seq(AppMessage)
  BY DEF BridgeTypes
<1>r. Reaches(at, type)' <=>
        \/ Lost(at)'
        \/ Stays(t, A, U)
        \/ /\ Clean(t, U)
           /\ \/ <<at, type>> \in registered' /\ WillAsk'
              \/ Stays(appBox', T, D)
              \/ <<at, type>> \in mirror' /\ Clean(appBox', D)
  BY DEF Reaches, U, A, D, T
<1>1. Lost(at) => Lost(at)'
  BY DEF Lost
<1>2. /\ Clean(calls, U) => Clean(t, U) /\ h \notin U
      /\ Stays(calls, A, U) => Stays(t, A, U) \/ (h \in A /\ Clean(t, U))
  BY <1>t, StaysTaken
<1>3. appBox' = appBox \/ appBox' = p
  BY AppHears
<1>4. m \in T /\ started => Stays(appBox', T, D)
  <2>1. m \in T => Stays(p, T, D)
    BY <1>t, StaysAppended
  <2>2. started => appBox' = p
    BY AppHears
  <2> QED BY <2>1, <2>2
<1>5. ~started => WillAsk'
  BY DEF WillAsk
<1>6. CASE h \in A /\ Clean(t, U)
  <2>1. <<at, type>> \in registered' /\ m \in T
    BY <1>6 DEF A, T
  <2> QED BY <1>r, <1>4, <1>5, <1>6, <2>1
<1>7. ASSUME Clean(calls, U), <<at, type>> \in registered, WillAsk, started,
             ~Stays(appBox', T, D)
      PROVE  WillAsk'
  <2>1. h.kind # "GetRegisteredEvents" /\ m \notin Answer
    BY <1>4, <1>7 DEF T
  <2>2. Has(calls, "GetRegisteredEvents") => Has(t, "GetRegisteredEvents")
    BY <1>t, <2>1, HasTaken
  <2>3. /\ Has(appBox, "EmbedReply") \/ m.kind = "EmbedReply" => Has(appBox', "EmbedReply")
        /\ Clean(appBox, Answer) => Clean(appBox', Answer)
    <3>1. Has(appBox, "EmbedReply") \/ m.kind = "EmbedReply" => Has(p, "EmbedReply")
      BY <1>t, HasMore
    <3>2. appBox' = p
      BY <1>7, AppHears
    <3>3. Clean(appBox, Answer) => Clean(p, Answer)
      BY <1>t, <2>1, StaysAppended
    <3> QED BY <3>1, <3>2, <3>3
  <2>4. Has(calls, "Embed") => Has(t, "Embed") \/ m.kind = "EmbedReply"
    BY <1>t, HasTaken
  <2> QED BY <1>7, <2>2, <2>3, <2>4 DEF WillAsk, Quiet
<1>8. ASSUME Clean(calls, U)
      PROVE  /\ Stays(appBox, T, D) => Stays(appBox', T, D)
             /\ Clean(appBox, D) => Clean(appBox', D)
  <2>1. m \notin D
    BY <1>2, <1>8 DEF D, U
  <2> QED BY <2>1, HeardBox
<1>9. CASE Clean(calls, U) /\
             \/ <<at, type>> \in registered /\ WillAsk
             \/ Stays(appBox, T, D)
             \/ <<at, type>> \in mirror /\ Clean(appBox, D)
  BY <1>r, <1>2, <1>5, <1>7, <1>8, <1>9
<1> QED BY <1>r, <1>1, <1>2, <1>6, <1>9 DEF Reaches, U, A, D, T

\* The application handles a message.
LEMMA ReachesReceived ==
  ASSUME BridgeTypes, NotYet, NEW at \in AT, NEW type \in EventType, Reaches(at, type),
         appBox # <<>>, appBox' = Tail(appBox),
         UNCHANGED <<registered, started, atLost, notices>>,
         \/ calls' = calls
         \/ \E c \in CallMessage : c.kind # "DeregisterEvent" /\ calls' = Append(calls, c),
         Head(appBox) \in Told(at, type) => <<at, type>> \in mirror',
         <<at, type>> \in mirror /\ Head(appBox) \notin Untold(at, type)
           => <<at, type>> \in mirror',
         Head(appBox) \notin Answer => replies' = replies,
         Head(appBox) \notin Answer =>
           keyCalls' = keyCalls \/ Has(calls', "GetRegisteredEvents"),
         Head(appBox).kind = "EmbedReply" /\ replies = 0 => Has(calls', "GetRegisteredEvents")
  PROVE  Reaches(at, type)'
<1> DEFINE U == Undo(at, type)
           A == Ask(at, type)
           D == Untold(at, type)
           T == Told(at, type)
<1> HIDE DEF U, A, D, T
<1> PICK h, t : h = Head(appBox) /\ t = Tail(appBox)
  OBVIOUS
<1>t. calls \in Seq(CallMessage) /\ appBox \in Seq(AppMessage) /\ started
  BY DEF BridgeTypes, NotYet
<1>r. Reaches(at, type)' <=>
        \/ Lost(at)'
        \/ Stays(calls', A, U)
        \/ /\ Clean(calls', U)
           /\ \/ <<at, type>> \in registered' /\ WillAsk'
              \/ Stays(t, T, D)
              \/ <<at, type>> \in mirror' /\ Clean(t, D)
  BY DEF Reaches, U, A, D, T
<1>1. Lost(at) => Lost(at)'
  BY DEF Lost
<1>2. /\ Clean(calls, U) => Clean(calls', U)
      /\ Stays(calls, A, U) => Stays(calls', A, U)
      /\ Has(calls, "Embed") => Has(calls', "Embed")
      /\ Has(calls, "GetRegisteredEvents") => Has(calls', "GetRegisteredEvents")
  <2>1. ASSUME NEW c \in CallMessage, c.kind # "DeregisterEvent", calls' = Append(calls, c)
        PROVE  /\ Clean(calls, U) => Clean(calls', U)
               /\ Stays(calls, A, U) => Stays(calls', A, U)
               /\ Has(calls, "Embed") => Has(calls', "Embed")
               /\ Has(calls, "GetRegisteredEvents") => Has(calls', "GetRegisteredEvents")
    <3> PICK p : p = Append(calls, c)
      OBVIOUS
    <3>1. c \notin U
      BY <2>1, KindsOf DEF U
    <3>2. /\ Clean(calls, U) => Clean(p, U)
          /\ Stays(calls, A, U) => Stays(p, A, U)
      BY <1>t, <3>1, StaysAppended
    <3>3. \A k : Has(calls, k) => Has(p, k)
      BY <1>t, HasMore
    <3> QED BY <2>1, <3>2, <3>3
  <2> QED BY <2>1
<1>3. /\ Clean(appBox, D) => Clean(t, D) /\ h \notin D
      /\ Stays(appBox, T, D) => Stays(t, T, D) \/ (h \in T /\ Clean(t, D))
  BY <1>t, StaysTaken
<1>4. WillAsk => WillAsk'
  <2>1. ASSUME Quiet PROVE Quiet' \/ Has(calls', "GetRegisteredEvents")
    <3>1. Clean(t, Answer) /\ h \notin Answer
      BY <1>t, <2>1, StaysTaken DEF Quiet
    <3> QED BY <2>1, <3>1 DEF Quiet
  <2>2. ASSUME Quiet, Has(appBox, "EmbedReply")
        PROVE  Has(t, "EmbedReply") \/ Has(calls', "GetRegisteredEvents")
    <3>1. replies = 0
      BY <2>2 DEF Quiet
    <3>2. h.kind # "EmbedReply" => Has(t, "EmbedReply")
      BY <1>t, <2>2, HasTaken
    <3> QED BY <3>1, <3>2
  <2> QED BY <1>t, <1>2, <2>1, <2>2 DEF WillAsk
<1>5. h \in T => <<at, type>> \in mirror'
  BY DEF T
<1>6. <<at, type>> \in mirror /\ h \notin D => <<at, type>> \in mirror'
  BY DEF D
<1> QED BY <1>r, <1>1, <1>2, <1>3, <1>4, <1>5, <1>6 DEF Reaches, U, A, D, T

LEMMA RegistryKeepsReach ==
  ASSUME BridgeTypes, LiveClients, NEW at \in AT, NEW type \in listening[at], Reaches(at, type),
         HandleRegisterEvent \/ HandleDeregisterEvent \/ HandleGone
           \/ HandleEmbed \/ HandleGetRegisteredEvents
  PROVE  Reaches(at, type)'
<1>t. /\ type \in EventType /\ type \in Seq(STRING)
  BY TypeAssumption DEF BridgeTypes
<1>1. /\ calls # <<>> /\ calls' = Tail(calls)
      /\ UNCHANGED <<started, atLost, notices, mirror, replies, keyCalls>>
  BY RegistryTells DEF atVars, appVars
<1> PICK h \in CallMessage : h = Head(calls)
  BY RegistryTells
<1>k. /\ h \in Undo(at, type) => h.kind = "DeregisterEvent"
      /\ h \in Ask(at, type) => h.kind = "RegisterEvent"
      /\ \A m \in AppMessage : /\ m \in Untold(at, type) => m.kind = "Deregistered"
                               /\ m \in Answer => m.kind \in {"EventsReply", "KeysReply"}
  BY <1>t, KindsOf
<1>2. CASE HandleRegisterEvent
  <2>1. /\ h.kind = "RegisterEvent" /\ registered' = registered \cup {<<h.at, h.type>>}
        /\ ToApp(<<[h EXCEPT !.kind = "Registered"]>>)
    BY <1>2 DEF HandleRegisterEvent, Called
  <2>2. PICK m \in AppMessage : /\ ToApp(<<m>>) /\ m.kind = "Registered"
                                /\ m.at = h.at /\ m.type = h.type
    BY <2>1, Answers
  <2>3. h \in Ask(at, type) => <<at, type>> \in registered' /\ m \in Told(at, type)
    BY <2>1, <2>2 DEF Ask, Told
  <2> QED BY <1>t, <1>1, <1>k, <2>1, <2>2, <2>3, ReachesHandled
<1>3. CASE HandleDeregisterEvent
  <2>1. /\ h.kind = "DeregisterEvent" /\ registered' = registered
        /\ ToApp(<<[h EXCEPT !.kind = "Deregistered"]>>)
    BY <1>3 DEF HandleDeregisterEvent, Called, registryVars
  <2>2. PICK m \in AppMessage : /\ ToApp(<<m>>) /\ m.kind = "Deregistered"
                                /\ m.at = h.at /\ m.type = h.type
    BY <2>1, Answers
  <2>3. m \in Untold(at, type) => h \in Undo(at, type)
    BY <2>1, <2>2 DEF Untold, Undo
  <2> QED BY <1>t, <1>1, <1>k, <2>1, <2>2, <2>3, ReachesHandled
<1>4. CASE HandleGone
  <2>1. /\ h.kind = "Gone" /\ registered' = {r \in registered : r[1] # h.at}
        /\ ToApp(<<Ending(h.at)>>)
    BY <1>4 DEF HandleGone, Called, AnnouncedGone, Ending
  <2>2. PICK m \in AppMessage : ToApp(<<m>>) /\ m.kind = "Deregistered" /\ m.at = h.at
    BY <2>1, CallKinds, AppKinds DEF Ending
  <2>3. h \notin FalseEnd(CallMessage)
    BY <1>1, StaysTaken DEF BridgeTypes, LiveClients
  <2>4. h.at # at
    BY <2>1, <2>3 DEF FalseEnd, LiveClients
  <2>5. m \notin Untold(at, type)
    BY <2>2, <2>4 DEF Untold
  <2>6. <<at, type>> \in registered => <<at, type>> \in registered'
    BY <2>1, <2>4
  <2> QED BY <1>t, <1>1, <1>k, <2>1, <2>2, <2>5, <2>6, ReachesHandled
<1>5. CASE HandleEmbed
  <2>1. /\ h.kind = "Embed" /\ registered' = registered /\ ToApp(<<[kind |-> "EmbedReply"]>>)
    BY <1>5 DEF HandleEmbed, Called, registryVars
  <2>2. PICK m \in AppMessage : ToApp(<<m>>) /\ m.kind = "EmbedReply"
    BY <2>1, AppKinds
  <2> QED BY <1>t, <1>1, <1>k, <2>1, <2>2, ReachesHandled
<1>6. CASE HandleGetRegisteredEvents
  <2>1. /\ h.kind = "GetRegisteredEvents" /\ registered' = registered
        /\ ToApp(<<[kind |-> "EventsReply", events |-> registered]>>)
    BY <1>6 DEF HandleGetRegisteredEvents, Called, registryVars
  <2>2. PICK m \in AppMessage : ToApp(<<m>>) /\ m.kind = "EventsReply" /\ m.events = registered
    <3>1. [kind |-> "EventsReply", events |-> registered] \in AppMessage
      BY AppKinds DEF BridgeTypes
    <3> QED BY <2>1, <3>1
  <2>3. <<at, type>> \in registered => m \in Told(at, type)
    BY <2>2 DEF Told
  <2> QED BY <1>t, <1>1, <1>k, <2>1, <2>2, <2>3, ReachesHandled
<1> QED BY <1>2, <1>3, <1>4, <1>5, <1>6

LEMMA AppKeepsReach ==
  ASSUME BridgeTypes, NotYet, NEW at \in AT, NEW type \in listening[at], Reaches(at, type), AppStep
  PROVE  Reaches(at, type)'
<1>t. type \in EventType
  BY DEF BridgeTypes
<1>1. /\ appBox # <<>> /\ appBox' = Tail(appBox)
      /\ UNCHANGED <<registered, started, atLost, notices>>
      /\ \/ calls' = calls
         \/ \E c \in CallMessage : c.kind # "DeregisterEvent" /\ calls' = Append(calls, c)
  BY AppTakes, CallKinds DEF atVars
<1> PICK h \in AppMessage : h = Head(appBox)
  BY AppTakes
<1>k. /\ h \in Told(at, type) => h.kind \in {"Registered", "EventsReply"}
      /\ h \in Untold(at, type) => h.kind = "Deregistered"
      /\ h \in Answer <=> h.kind \in {"EventsReply", "KeysReply"}
  BY <1>t, KindsOf DEF Answer
<1>2. CASE ReceiveEmbedReply
  <2>1. /\ h.kind = "EmbedReply" /\ mirror' = mirror /\ replies' = replies
        /\ \/ initialized /\ keyCalls' = keyCalls
           \/ calls' = Append(calls, [kind |-> "GetRegisteredEvents"])
    BY <1>2 DEF ReceiveEmbedReply, Receive, appVars
  <2>2. calls' = Append(calls, [kind |-> "GetRegisteredEvents"])
          => Has(calls', "GetRegisteredEvents")
    <3>1. PICK c \in CallMessage : c = [kind |-> "GetRegisteredEvents"]
      BY CallKinds
    <3>2. Has(Append(calls, c), "GetRegisteredEvents")
      BY <3>1, HasMore DEF BridgeTypes
    <3> QED BY <3>1, <3>2
  <2>3. replies = 0 => ~initialized
    BY DEF NotYet
  <2> QED BY <1>t, <1>1, <1>k, <2>1, <2>2, <2>3, ReachesReceived
<1>3. CASE ReceiveEventsReply
  <2>1. h.kind = "EventsReply" /\ mirror' = mirror \cup h.events
    BY <1>3 DEF ReceiveEventsReply, Receive
  <2>2. h \in Told(at, type) => <<at, type>> \in mirror'
    BY <2>1 DEF Told
  <2> QED BY <1>t, <1>1, <1>k, <2>1, <2>2, ReachesReceived
<1>4. CASE ReceiveKeysReply
  <2>1. h.kind = "KeysReply" /\ mirror' = mirror
    BY <1>4 DEF ReceiveKeysReply, Receive
  <2> QED BY <1>t, <1>1, <1>k, <2>1, ReachesReceived
<1>5. CASE ReceiveRegistered
  <2>1. /\ h.kind = "Registered" /\ mirror' = mirror \cup {<<h.at, h.type>>}
        /\ UNCHANGED <<replies, keyCalls>>
    BY <1>5 DEF ReceiveRegistered, Receive, registryVars
  <2>2. h \in Told(at, type) => <<at, type>> \in mirror'
    BY <2>1 DEF Told
  <2> QED BY <1>t, <1>1, <1>k, <2>1, <2>2, ReachesReceived
<1>6. CASE ReceiveDeregistered
  <2>1. /\ h.kind = "Deregistered" /\ UNCHANGED <<replies, keyCalls>>
        /\ mirror' = {e \in mirror : ~(e[1] = h.at /\ IsSubtype(e[2], h.type))}
    BY <1>6 DEF ReceiveDeregistered, Receive, registryVars, MirrorWithout
  <2>2. <<at, type>> \in mirror /\ h \notin Untold(at, type) => <<at, type>> \in mirror'
    BY <2>1 DEF Untold
  <2> QED BY <1>t, <1>1, <1>k, <2>1, <2>2, ReachesReceived
<1>7. CASE ReceiveGone \/ ReceiveRegistryGone \/ ReceiveRegistryNew
  <2>1. /\ h.kind \in {"Gone", "RegistryGone", "RegistryNew"}
        /\ UNCHANGED <<mirror, replies, keyCalls>>
    BY <1>7 DEF ReceiveGone, ReceiveRegistryGone, ReceiveRegistryNew, Receive, registryVars
  <2> QED BY <1>t, <1>1, <1>k, <2>1, ReachesReceived
<1> QED BY <1>2, <1>3, <1>4, <1>5, <1>6, <1>7 DEF AppStep

\* What the registry's owner is said to have become is heard of in order.
LEMMA NoticeKeepsReach ==
  ASSUME BridgeTypes, NEW at \in AT, Notice(at),
         NEW a \in AT, NEW type \in listening[a], Reaches(a, type)
  PROVE  Reaches(a, type)'
<1>t. /\ type \in EventType /\ notices \in [AT -> Seq({"gone", "new"})]
      /\ atLost \in [AT -> BOOLEAN] /\ calls \in Seq(CallMessage)
  BY DEF BridgeTypes
<1>1. /\ notices' = [notices EXCEPT ![at] = Tail(@)] /\ notices[at] # <<>>
      /\ UNCHANGED <<started, registered, replies, keyCalls, mirror, appBox>>
  BY DEF Notice, registryVars, appVars
<1>2. PICK r \in Seq(CallMessage) :
        /\ r = Reregister(at)
        /\ \A i \in 1..Len(r) : r[i].kind = "RegisterEvent"
        /\ \A t \in listening[at] : \E i \in 1..Len(r) :
             r[i] = [kind |-> "RegisterEvent", at |-> at, type |-> t]
  BY Reregistered
<1>3. Clean(r, Undo(a, type))
  BY <1>t, <1>2, KindsOf DEF Clean
<1>4. calls' = calls \/ calls' = calls \o r
  BY <1>2 DEF Notice
<1>5. CASE Lost(a) => Lost(a)'
  BY <1>t, <1>1, <1>3, <1>4, <1>5, ReachesKept
<1>6. CASE a = at /\ calls' = calls \o r
  <2>1. PICK i \in 1..Len(r) : r[i] = [kind |-> "RegisterEvent", at |-> a, type |-> type]
    BY <1>2, <1>6
  <2>2. [kind |-> "RegisterEvent", at |-> a, type |-> type] \in Ask(a, type)
    BY <1>t, CallKinds DEF Ask
  <2>3. Stays(calls \o r, Ask(a, type), Undo(a, type))
    <3> DEFINE U == Undo(a, type)
               A == Ask(a, type)
    <3>1. Clean(r, U) /\ r[i] \in A
      BY <1>3, <2>1, <2>2
    <3> HIDE DEF U, A
    <3>2. Stays(calls \o r, A, U)
      BY <1>t, <3>1, StaysConcatenated
    <3> QED BY <3>2 DEF U, A
  <2> QED BY <1>6, <2>3 DEF Reaches
<1>7. ASSUME a # at PROVE Lost(a) => Lost(a)'
  <2>1. notices'[a] = notices[a] /\ atLost'[a] = atLost[a]
    BY <1>t, <1>1, <1>7 DEF Notice
  <2> QED BY <2>1 DEF Lost
<1>8. ASSUME a = at, calls' # calls \o r PROVE Lost(a) => Lost(a)'
  <2>1. atLost' = [atLost EXCEPT ![at] = @ \/ Head(notices[at]) = "gone"]
    BY <1>2, <1>8 DEF Notice
  <2>2. PICK b : b = (atLost[at] \/ Head(notices[at]) = "gone")
    OBVIOUS
  <2>3. atLost'[at] = b
    BY <1>t, <2>1, <2>2
  <2>4. PICK n \in Seq({"gone", "new"}) : n = notices[at] /\ n # <<>> /\ notices'[at] = Tail(n)
    BY <1>t, <1>1
  <2>5. ASSUME NEW i \in 1..Len(n), n[i] = "gone"
        PROVE  Head(n) = "gone" \/ \E j \in 1..Len(Tail(n)) : Tail(n)[j] = "gone"
    <3>1. /\ Head(n) = n[1] /\ Len(n) \in Nat \ {0} /\ Len(Tail(n)) = Len(n) - 1
          /\ \A j \in 1..(Len(n) - 1) : Tail(n)[j] = n[j + 1]
      BY <2>4
    <3>2. i # 1 => i - 1 \in 1..(Len(n) - 1) /\ (i - 1) + 1 = i
      BY <3>1
    <3> QED BY <2>5, <3>1, <3>2
  <2>6. Lost(at) => b \/ \E j \in 1..Len(notices'[at]) : notices'[at][j] = "gone"
    BY <2>2, <2>4, <2>5 DEF Lost
  <2> QED BY <1>8, <2>3, <2>6 DEF Lost
<1> QED BY <1>4, <1>5, <1>6, <1>7, <1>8

LEMMA DeathKeepsReach ==
  ASSUME BridgeTypes, NEW a \in AT, Die(a),
         NEW at \in AT, NEW type \in listening'[at], type \in listening[at] => Reaches(at, type)
  PROVE  Reaches(at, type)'
<1>1. /\ listening' = [listening EXCEPT ![a] = {}]
      /\ notices' = [notices EXCEPT ![a] = <<>>]
      /\ calls' = calls \/ calls' = Append(calls, [kind |-> "Gone", at |-> a])
      /\ ToApp(<<>>) \/ ToApp(<<[kind |-> "Gone", at |-> a]>>)
      /\ UNCHANGED <<started, registered, replies, keyCalls, mirror, atLost>>
  BY DEF Die, registryVars, appVars
<1>2. at # a /\ type \in listening[at] /\ type \in EventType /\ notices'[at] = notices[at]
  BY <1>1 DEF BridgeTypes
<1>3. Lost(at) => Lost(at)'
  BY <1>1, <1>2 DEF Lost
<1>4. calls' = calls \/ \E c \in CallMessage : c \notin Undo(at, type) /\ calls' = Append(calls, c)
  <2>1. PICK c \in CallMessage : c = [kind |-> "Gone", at |-> a]
    BY CallKinds
  <2>2. c \notin Undo(at, type)
    BY <2>1 DEF Undo
  <2> QED BY <1>1, <2>1, <2>2
<1>5. \/ appBox' = appBox
      \/ \E m \in AppMessage : m \notin Untold(at, type) /\ m \notin Answer /\ ToApp(<<m>>)
  <2>1. PICK m \in AppMessage : m = [kind |-> "Gone", at |-> a]
    BY AppKinds
  <2>2. m \notin Untold(at, type) /\ m \notin Answer
    BY <2>1 DEF Untold, Answer
  <2>3. ToApp(<<>>) => appBox' = appBox
    BY DEF ToApp, BridgeTypes
  <2> QED BY <1>1, <2>1, <2>2, <2>3
<1> QED BY <1>1, <1>2, <1>3, <1>4, <1>5, ReachesKept

\* A type is withdrawn that covers none the client still listens to.
LEMMA ClientsKeepReach ==
  ASSUME Careful, BridgeTypes, NEW a \in AT, NEW t \in EventType, Listen(a, t) \/ Withdraw(a, t),
         NEW at \in AT, NEW type \in listening'[at], type \in listening[at] => Reaches(at, type)
  PROVE  Reaches(at, type)'
<1>1. UNCHANGED <<started, registered, replies, keyCalls, mirror, atLost, notices, appBox>>
  BY DEF Listen, Withdraw, registryVars, appVars
<1>2. Lost(at) => Lost(at)'
  BY <1>1 DEF Lost
<1>3. CASE Listen(a, t)
  <2>1. /\ listening' = [listening EXCEPT ![a] = @ \cup {t}]
        /\ calls' = Append(calls, [kind |-> "RegisterEvent", at |-> a, type |-> t])
    BY <1>3 DEF Listen
  <2>2. type \in listening[at] \/ (at = a /\ type = t)
    BY <2>1 DEF BridgeTypes
  <2>3. PICK c \in CallMessage : c = [kind |-> "RegisterEvent", at |-> a, type |-> t]
    BY CallKinds
  <2>4. CASE at = a /\ type = t
    <3>1. c \in Ask(at, type)
      BY <2>3, <2>4 DEF Ask
    <3>2. Stays(Append(calls, c), Ask(at, type), Undo(at, type))
      <4> DEFINE U == Undo(at, type)
                 A == Ask(at, type)
      <4>1. c \in A
        BY <3>1
      <4> HIDE DEF U, A
      <4>2. Stays(Append(calls, c), A, U)
        BY <4>1, StaysAppended DEF BridgeTypes
      <4> QED BY <4>2 DEF U, A
    <3> QED BY <2>1, <2>3, <3>2 DEF Reaches
  <2>5. CASE type \in listening[at]
    <3>1. c \notin Undo(at, type) /\ type \in EventType
      BY <2>3, <2>5 DEF Undo, BridgeTypes
    <3> QED BY <1>1, <1>2, <2>1, <2>3, <2>5, <3>1, ReachesKept
  <2> QED BY <2>2, <2>4, <2>5
<1>4. CASE Withdraw(a, t)
  <2>1. /\ listening' = [listening EXCEPT ![a] = @ \ {t}]
        /\ calls' = Append(calls, [kind |-> "DeregisterEvent", at |-> a, type |-> t])
        /\ \A s \in listening[a] \ {t} : ~IsSubtype(s, t)
    BY <1>4 DEF Withdraw
  <2>2. /\ type \in listening[at] /\ type \in EventType
        /\ at = a => type \in listening[a] \ {t}
    BY <2>1 DEF BridgeTypes
  <2>3. PICK c \in CallMessage : c = [kind |-> "DeregisterEvent", at |-> a, type |-> t]
    BY CallKinds
  <2>4. c \notin Undo(at, type)
    BY <2>1, <2>2, <2>3 DEF Undo
  <2> QED BY <1>1, <1>2, <2>1, <2>2, <2>3, <2>4, ReachesKept
<1> QED BY <1>3, <1>4

LEMMA AllReachStep ==
  ASSUME Careful, ReachInv, [Next]_vars
  PROVE  AllReach'
<1> SUFFICES ASSUME NEW at \in AT, NEW type \in listening'[at]
             PROVE  Reaches(at, type)'
  BY DEF AllReach
<1>t. /\ BridgeTypes /\ NotYet /\ LiveClients
      /\ type \in listening[at] => type \in EventType /\ Reaches(at, type)
      /\ notices \in [AT -> Seq({"gone", "new"})]
  BY DEF ReachInv, BridgeTypes, AllReach
<1> HIDE DEF BridgeTypes, NotYet, LiveClients
<1>1. CASE HandleRegisterEvent \/ HandleDeregisterEvent \/ HandleGone
           \/ HandleEmbed \/ HandleGetRegisteredEvents
  <2>1. listening' = listening
    BY <1>t, <1>1, RegistryTells DEF atVars
  <2> QED BY <1>t, <1>1, <2>1, RegistryKeepsReach
<1>2. CASE AppStep
  <2>1. listening' = listening
    BY <1>t, <1>2, AppTakes DEF atVars
  <2> QED BY <1>t, <1>2, <2>1, AppKeepsReach
<1>3. ASSUME NEW a \in AT, Notice(a) PROVE Reaches(at, type)'
  <2>1. listening' = listening
    BY <1>3 DEF Notice
  <2> QED BY <1>t, <1>3, <2>1, NoticeKeepsReach
<1>4. ASSUME NEW a \in AT, Die(a) PROVE Reaches(at, type)'
  BY <1>t, <1>4, DeathKeepsReach
<1>5. ASSUME NEW a \in AT, NEW t \in EventType, Listen(a, t) \/ Withdraw(a, t)
      PROVE  Reaches(at, type)'
  BY <1>t, <1>5, ClientsKeepReach
<1>6. CASE HandleGetKeystrokeListeners
  <2>1. /\ keyCalls > 0 /\ listening' = listening
        /\ UNCHANGED <<started, registered, replies, mirror, atLost, notices, calls>>
    BY <1>6 DEF HandleGetKeystrokeListeners, atVars, appVars
  <2>2. PICK known \in SUBSET KeyAT : ToApp(<<[kind |-> "KeysReply", clients |-> known]>>)
    BY <1>6, Zenon DEF HandleGetKeystrokeListeners
  <2>3. PICK m \in AppMessage : m = [kind |-> "KeysReply", clients |-> known]
    BY AppKinds, KeyAssumption
  <2>4. m \notin Untold(at, type)
    BY <2>3 DEF Untold
  <2>5. /\ Clean(appBox, Untold(at, type)) => Clean(appBox', Untold(at, type))
        /\ Stays(appBox, Told(at, type), Untold(at, type))
             => Stays(appBox', Told(at, type), Untold(at, type))
    <3> DEFINE D == Untold(at, type)
               T == Told(at, type)
    <3>1. m \notin D
      BY <2>4
    <3> HIDE DEF D, T
    <3>2. /\ Clean(appBox, D) => Clean(appBox', D)
          /\ Stays(appBox, T, D) => Stays(appBox', T, D)
      BY <1>t, <2>2, <2>3, <3>1, HeardBox
    <3> QED BY <3>2 DEF D, T
  <2>6. WillAsk => WillAsk'
    <3>1. ~Quiet
      BY <2>1 DEF Quiet
    <3> QED BY <2>1, <3>1 DEF WillAsk
  <2>7. Lost(at) => Lost(at)'
    BY <2>1 DEF Lost
  <2> QED BY <1>t, <2>1, <2>5, <2>6, <2>7 DEF Reaches
<1>7. CASE Restart
  <2>1. /\ notices' = [x \in AT |-> IF connected[x] THEN Append(notices[x], "new") ELSE <<>>]
        /\ listening' = listening /\ ToApp(<<[kind |-> "RegistryNew"]>>)
        /\ UNCHANGED <<started, registered, replies, keyCalls, mirror, atLost, calls>>
    BY <1>7 DEF Restart, appVars
  <2>2. PICK m \in AppMessage : m = [kind |-> "RegistryNew"]
    BY AppKinds
  <2>3. m \notin Untold(at, type) /\ m \notin Answer
    BY <2>2 DEF Untold, Answer
  <2>4. connected[at]
    BY <1>t, <2>1 DEF LiveClients
  <2>5. PICK n \in Seq({"gone", "new"}) : n = notices[at]
    BY <1>t
  <2>6. notices'[at] = Append(n, "new")
    BY <2>1, <2>4, <2>5
  <2>7. \A i \in 1..Len(n) : i \in 1..Len(Append(n, "new")) /\ Append(n, "new")[i] = n[i]
    OBVIOUS
  <2>8. Lost(at) => Lost(at)'
    BY <2>1, <2>5, <2>6, <2>7 DEF Lost
  <2> QED BY <1>t, <2>1, <2>2, <2>3, <2>8, ReachesKept
<1>8. CASE Start
  <2>1. /\ calls' = Append(calls, [kind |-> "Embed"]) /\ listening' = listening /\ ~started
        /\ UNCHANGED <<registered, replies, keyCalls, mirror, atLost, notices, appBox>>
    BY <1>8 DEF Start, atVars, registryVars, appVars
  <2>2. PICK c \in CallMessage : c = [kind |-> "Embed"]
    BY CallKinds
  <2>3. c \notin Undo(at, type)
    BY <2>2 DEF Undo
  <2>4. /\ Clean(calls, Undo(at, type)) => Clean(calls', Undo(at, type))
        /\ Stays(calls, Ask(at, type), Undo(at, type))
             => Stays(calls', Ask(at, type), Undo(at, type))
    <3> DEFINE U == Undo(at, type)
               A == Ask(at, type)
               p == Append(calls, c)
    <3>1. c \notin U
      BY <2>3
    <3> HIDE DEF U, A, p
    <3>2. /\ Clean(calls, U) => Clean(p, U)
          /\ Stays(calls, A, U) => Stays(p, A, U)
      BY <1>t, <3>1, StaysAppended DEF BridgeTypes, p
    <3>3. calls' = p
      BY <2>1, <2>2 DEF p
    <3> QED BY <3>2, <3>3 DEF U, A
  <2>5. WillAsk'
    <3>1. Has(Append(calls, c), "Embed")
      BY <1>t, <2>2, HasMore DEF BridgeTypes
    <3>2. Quiet'
      BY <1>t, <2>1 DEF NotYet, Quiet, Clean
    <3> QED BY <2>1, <2>2, <3>1, <3>2 DEF WillAsk
  <2>6. Lost(at) => Lost(at)'
    BY <2>1 DEF Lost
  <2> QED BY <1>t, <2>1, <2>4, <2>5, <2>6 DEF Reaches
<1>9. CASE Crash
  <2>1. /\ listening' = listening
        /\ notices' = [x \in AT |-> IF connected[x] THEN Append(notices[x], "gone") ELSE <<>>]
    BY <1>9 DEF Crash
  <2>2. connected[at]
    BY <1>t, <2>1 DEF LiveClients
  <2>3. PICK n \in Seq({"gone", "new"}) : n = notices[at]
    BY <1>t
  <2>4. notices'[at] = Append(n, "gone")
    BY <2>1, <2>2, <2>3
  <2>5. /\ Len(n) + 1 \in 1..Len(Append(n, "gone"))
        /\ Append(n, "gone")[Len(n) + 1] = "gone"
    OBVIOUS
  <2> QED BY <2>4, <2>5 DEF Reaches, Lost
<1>10. CASE UNCHANGED vars
  <2>1. /\ listening' = listening
        /\ UNCHANGED <<started, registered, replies, keyCalls, mirror, atLost, notices, calls, appBox>>
    BY <1>10 DEF vars, atVars, registryVars, appVars
  <2>2. Lost(at) => Lost(at)'
    BY <2>1 DEF Lost
  <2> QED BY <1>t, <2>1, <2>2, ReachesKept
<1> QED
  BY <1>1, <1>2, <1>3, <1>4, <1>5, <1>6, <1>7, <1>8, <1>9, <1>10 DEF Next, RegistryStep, Environment

\* If nobody withdraws a type that covers another one it listens to, every event that
\* is listened to is emitted once what was sent is handled: the registrations,
\* the application's start and its requests, deaths, and losses of the registry, with
\* the calls that are lost or fail and the registrations that are repeated, may
\* come in any order.
THEOREM WantedGetsSent ==
  ASSUME Careful
  PROVE  Spec => []WantedIsSent
<1>1. Init => ReachInv
  <2> SUFFICES ASSUME Init PROVE ReachInv
    OBVIOUS
  <2>1. BridgeTypes
    <3>1. /\ calls \in Seq(CallMessage) /\ appBox \in Seq(AppMessage)
          /\ keyCalls \in Nat /\ replies \in Nat
          /\ registered \subseteq Registration /\ mirror \subseteq Registration /\ clients \subseteq AT
      BY DEF Init
    <3>2. /\ listening \in [AT -> SUBSET EventType] /\ connected \in [AT -> BOOLEAN]
          /\ atLost \in [AT -> BOOLEAN] /\ notices \in [AT -> Seq({"gone", "new"})]
      BY DEF Init
    <3>3. \A at \in AT : IsFiniteSet(listening[at])
      BY FS_EmptySet DEF Init
    <3> QED BY <3>1, <3>2, <3>3 DEF BridgeTypes
  <2>2. NotYet /\ LiveClients /\ Served /\ AllReach
    BY DEF Init, NotYet, LiveClients, Served, AllReach, Clean
  <2>3. Noticed
    BY DEF Init, Noticed
  <2> QED BY <2>1, <2>2, <2>3 DEF ReachInv
<1>2. ReachInv => WantedIsSent
  <2> SUFFICES ASSUME ReachInv, Settled, NEW event, NEW at \in AT, NEW type \in listening[at],
                      IsSubtype(event, type)
               PROVE  IsSent(event)
    BY DEF WantedIsSent, Wanted
  <2>1. connected[at] /\ ~Lost(at)
    <3>1. connected[at]
      BY DEF ReachInv, LiveClients
    <3>2. ~atLost[at] /\ notices[at] = <<>>
      BY <3>1 DEF ReachInv, Noticed, Settled
    <3> QED BY <3>1, <3>2 DEF Lost
  <2>2. /\ \A g, b : ~Stays(calls, g, b) /\ ~Stays(appBox, g, b)
        /\ \A k : ~Has(calls, k) /\ ~Has(appBox, k)
    <3>1. calls = <<>> /\ appBox = <<>>
      BY DEF Settled
    <3>2. \A q : q = <<>> => 1..Len(q) = {}
      OBVIOUS
    <3> QED BY <3>1, <3>2 DEF Stays, Has
  <2>3. <<at, type>> \in mirror
    BY <2>1, <2>2 DEF ReachInv, AllReach, Reaches, WillAsk, Settled
  <2>4. at \in clients
    BY <2>1, <2>3 DEF ReachInv, Served
  <2> QED BY <2>3, <2>4 DEF ReachInv, Served, IsSent
<1>3. ReachInv /\ [Next]_vars => ReachInv'
  BY BridgeTypesStep, NotYetStep, LiveClientsStep, NoticedStep, ServedStep, AllReachStep DEF ReachInv
<1> QED
  BY <1>1, <1>2, <1>3, PTL DEF Spec
=============================================================================

------------------------ MODULE EventListenerProofs ------------------------
(***************************************************************************)
(* What the dispatch of events promises for any number of listeners,       *)
(* however deep callbacks nest, and for clients that are not careful; and  *)
(* what careful clients leave on the message bus.                          *)
(***************************************************************************)
EXTENDS EventListener, SequenceTheorems, WellFoundedInduction,
        FiniteSetTheorems, TLAPS

-----------------------------------------------------------------------------
(* Ids *)

\* Every set of ids has a largest one.
LEMMA LargestOf ==
  ASSUME NEW S \in SUBSET Id
  PROVE  /\ S = {} => Largest(S) = 0
         /\ S # {} => Largest(S) \in S
         /\ \A j \in S : j <= Largest(S)
         /\ Largest(S) \in Id \cup {0}
<1> DEFINE T == {MaxListeners - s : s \in S}
<1>1. MaxListeners \in Nat
  BY BoundAssumption
<1>2. CASE S = {}
  BY <1>2 DEF Largest
<1>3. CASE S # {}
  <2>1. \A s \in S : s \in Nat /\ MaxListeners - s \in Nat
    BY <1>1 DEF Id
  <2>2. T \subseteq Nat /\ T # {}
    BY <2>1, <1>3
  <2>3. \E x \in T : \A y \in T : ~ (<<y, x>> \in OpToRel(<, Nat))
    <3> HIDE DEF T
    <3> QED
      BY <2>2, NatLessThanWellFounded, WFMin
  <2>4. \A x, y \in T : <<y, x>> \in OpToRel(<, Nat) <=> y < x
    BY <2>2 DEF OpToRel
  <2>5. PICK x \in T : \A y \in T : ~(y < x)
    BY <2>3, <2>4
  <2>6. PICK k \in S : x = MaxListeners - k
    BY <2>5
  <2>7. \A j \in S : j <= k
    BY <2>1, <2>5, <2>6, <1>1
  <2>8. Largest(S) \in S /\ \A j \in S : j <= Largest(S)
    BY <1>3, <2>7 DEF Largest
  <2> QED
    BY <1>3, <2>8
<1> QED
  BY <1>2, <1>3

\* Ids, the next one, and the entry of one.
LEMMA IdFacts ==
  ASSUME TypeOK
  PROVE  /\ Ids \subseteq Id
         /\ \A id \in Id : After(id) \in Ids \cup {0} /\ After(id) < id
         /\ \A id \in Id : \A j \in Ids : j <= After(id) \/ id <= j
         /\ \A id \in Ids : EntryOf(id) \in listeners /\ EntryOf(id).id = id
         /\ \A e \in listeners : EntryOf(e.id) = e
<1>1. \A e \in listeners : e.id \in Id
  BY DEF TypeOK, Entry
<1>2. Ids \subseteq Id
  BY <1>1 DEF Ids
<1>3. ASSUME NEW id \in Id
      PROVE  /\ After(id) \in Ids \cup {0} /\ After(id) < id
             /\ \A j \in Ids : j <= After(id) \/ id <= j
  <2> DEFINE S == {i \in Ids : i < id}
  <2>1. S \in SUBSET Id
    BY <1>2
  <2>2. /\ S = {} => Largest(S) = 0
        /\ S # {} => Largest(S) \in S
        /\ \A j \in S : j <= Largest(S)
    BY <2>1, LargestOf
  <2>3. After(id) = Largest(S)
    BY DEF After
  <2>4. id > 0 /\ \A j \in Ids : j \in Int
    BY <1>2 DEF Id
  <2>5. id \in Int
    BY DEF Id
  <2> QED
    BY <2>2, <2>3, <2>4, <2>5
<1>4. \A id \in Ids : EntryOf(id) \in listeners /\ EntryOf(id).id = id
  BY DEF Ids, EntryOf
<1>5. \A e \in listeners : EntryOf(e.id) = e
  BY <1>4 DEF Ids, TypeOK
<1> QED
  BY <1>2, <1>3, <1>4, <1>5

-----------------------------------------------------------------------------
(* The stack *)

\* Above j frames that a step replaces by k others, the stack stays.
Kept(k, j) ==
  /\ stack \in Seq(Frame) /\ stack' \in Seq(Frame)
  /\ Len(stack) >= j /\ Len(stack') = Len(stack) - j + k
  /\ \A i \in DOMAIN stack' : i > k => i - k + j \in DOMAIN stack /\ stack'[i] = stack[i - k + j]
  /\ \A i \in DOMAIN stack : i > j => i - j + k \in DOMAIN stack' /\ stack'[i - j + k] = stack[i]

LEMMA PushKeeps ==
  ASSUME stack \in Seq(Frame), NEW f \in Frame, Push(f)
  PROVE  Kept(1, 0) /\ stack'[1] = f
BY DEF Push, Kept

LEMMA PopKeeps ==
  ASSUME stack \in Seq(Frame), stack # <<>>, Pop
  PROVE  Kept(0, 1)
BY DEF Pop, Kept

LEMMA ChangeKeeps ==
  ASSUME stack \in Seq(Frame), stack # <<>>, NEW f \in Frame,
         stack' = [stack EXCEPT ![1] = f]
  PROVE  Kept(1, 1) /\ stack'[1] = f
BY DEF Kept

\* What a frame holds, by its kind.
LEMMA FrameFields ==
  ASSUME NEW f \in Frame
  PROVE  /\ f.kind = "dispatch" =>
              /\ f.event \in Event /\ f.at \in Id \cup {0} /\ f.called \subseteq Callback
              /\ \A id \in Id \cup {0} :
                   /\ [f EXCEPT !.at = id] \in Frame
                   /\ [f EXCEPT !.at = id].kind = "dispatch"
                   /\ [f EXCEPT !.at = id].at = id
                   /\ [f EXCEPT !.at = id].event = f.event
                   /\ [f EXCEPT !.at = id].called = f.called
                   /\ [f EXCEPT !.at = id].begun = f.begun
              /\ f.begun \in 1..(MaxListeners + 1)
         /\ f.kind = "callback" => f.id \in Id /\ f.callback \in Callback
         /\ f.kind = "deregister" =>
              /\ f.callback \in Callback /\ f.type \in EventType
              /\ f.next \in Id \cup {0} /\ f.covers \subseteq Id
<1>1. f.kind = "dispatch" => f \in [kind : {"dispatch"}, event : Event, at : Id \cup {0},
                                    called : SUBSET Callback, begun : 1..(MaxListeners + 1)]
  BY DEF Frame
<1>2. f.kind = "callback" => f \in [kind : {"callback"}, id : Id, callback : Callback]
  BY DEF Frame
<1>3. f.kind = "deregister" =>
        f \in [kind : {"deregister"}, callback : Callback, type : EventType,
               next : Id \cup {0}, waiting : BOOLEAN, covers : SUBSET Id]
  BY DEF Frame
<1>4. ASSUME f.kind = "dispatch", NEW id \in Id \cup {0}
      PROVE  /\ [f EXCEPT !.at = id] \in Frame
             /\ [f EXCEPT !.at = id].kind = "dispatch"
             /\ [f EXCEPT !.at = id].at = id
             /\ [f EXCEPT !.at = id].event = f.event
             /\ [f EXCEPT !.at = id].called = f.called
             /\ [f EXCEPT !.at = id].begun = f.begun
  BY <1>1, <1>4 DEF Frame
<1> QED
  BY <1>1, <1>2, <1>3, <1>4

\* The frame of a dispatch that begins.
LEMMA SendEventFrame ==
  ASSUME TypeOK, NEW e \in Event
  PROVE  /\ SendEvent(e) \in Frame
         /\ SendEvent(e).kind = "dispatch"
         /\ SendEvent(e).event = e
         /\ SendEvent(e).begun = nextId
         /\ SendEvent(e).at \in Ids \cup {0}
         /\ \A d \in listeners : d.id <= SendEvent(e).at
<1>1. Ids \in SUBSET Id
  BY IdFacts
<1>2. Largest(Ids) \in Ids \cup {0} /\ Largest(Ids) \in Id \cup {0}
  BY <1>1, LargestOf
<1>3. \A d \in listeners : d.id <= Largest(Ids)
  BY <1>1, LargestOf DEF Ids
<1>4. nextId \in 1..(MaxListeners + 1)
  BY DEF TypeOK
<1> QED
  BY <1>2, <1>3, <1>4 DEF SendEvent, Frame

\* The steps of a walk: what WalkRemoves takes and where it goes on.
LEMMA WalkFacts ==
  ASSUME TypeOK, WalkRemoves
  PROVE  \E e \in listeners :
           /\ stack # <<>> /\ stack[1].kind = "deregister"
           /\ e \in Matched(stack[1].callback, stack[1].type) /\ e.id <= stack[1].next
           /\ \A d \in Matched(stack[1].callback, stack[1].type) :
                d.id <= e.id \/ stack[1].next < d.id
           /\ TakeOut(e)
           /\ Kept(1, 1) /\ stack'[1].kind = "deregister"
           /\ stack'[1].callback = stack[1].callback /\ stack'[1].type = stack[1].type
           /\ stack'[1].covers = stack[1].covers /\ stack'[1].next = After(e.id)
<1> DEFINE f == stack[1]
           left == {e.id : e \in {d \in Matched(f.callback, f.type) : d.id <= f.next}}
           e == EntryOf(Largest(left))
           g == [f EXCEPT !.next = After(e.id), !.waiting = TRUE]
<1>1. stack # <<>> /\ stack \in Seq(Frame) /\ Head(stack) = f /\ f \in Frame
  BY DEF WalkRemoves, Running, TypeOK
<1>2. f.kind = "deregister"
  BY <1>1 DEF WalkRemoves, Running
<1>3. left # {} /\ TakeOut(e) /\ f.next \in Ids
      /\ stack' = [stack EXCEPT ![1].next = After(e.id), ![1].waiting = TRUE]
  BY <1>1 DEF WalkRemoves
<1>4. Matched(f.callback, f.type) \subseteq listeners
  BY DEF Matched
<1>5. left \subseteq Ids /\ left \in SUBSET Id
  BY <1>4, IdFacts DEF Ids
<1>6. Largest(left) \in left /\ \A j \in left : j <= Largest(left)
  BY <1>3, <1>5, LargestOf
<1>7. PICK d \in Matched(f.callback, f.type) : d.id <= f.next /\ d.id = Largest(left)
  BY <1>6
<1>8. e = d
  BY <1>4, <1>7, IdFacts
<1>9. e \in listeners /\ e \in Matched(f.callback, f.type) /\ e.id <= f.next
  BY <1>4, <1>7, <1>8
<1>10. \A c \in Matched(f.callback, f.type) : c.id <= e.id \/ f.next < c.id
  <2>1. \A c \in Matched(f.callback, f.type) : c.id \in Int
    BY <1>4, IdFacts DEF Ids, Id
  <2>2. f.next \in Int
    BY <1>3, IdFacts DEF Id
  <2>3. \A c \in Matched(f.callback, f.type) : c.id <= f.next => c.id \in left
    OBVIOUS
  <2> QED
    BY <1>6, <1>7, <1>8, <2>1, <2>2, <2>3
<1>11. After(e.id) \in Id \cup {0}
  BY <1>9, IdFacts DEF Ids
<1>12. f \in [kind : {"deregister"}, callback : Callback, type : EventType,
              next : Id \cup {0}, waiting : BOOLEAN, covers : SUBSET Id]
  BY <1>1, <1>2 DEF Frame
<1> HIDE DEF e, left
<1>13. /\ g \in [kind : {"deregister"}, callback : Callback, type : EventType,
                 next : Id \cup {0}, waiting : BOOLEAN, covers : SUBSET Id]
       /\ g.callback = f.callback /\ g.type = f.type /\ g.covers = f.covers
       /\ g.next = After(e.id)
  BY <1>11, <1>12
<1>14. g \in Frame /\ g.kind = "deregister"
  BY <1>13 DEF Frame
<1>15. stack' = [stack EXCEPT ![1] = g]
  BY <1>1, <1>3
<1> HIDE DEF g
<1>16. Kept(1, 1) /\ stack'[1] = g
  BY <1>1, <1>14, <1>15, ChangeKeeps
<1> QED
  BY <1>1, <1>2, <1>3, <1>9, <1>10, <1>13, <1>14, <1>16

-----------------------------------------------------------------------------
(* The shape of the stack: callbacks are called by dispatches, and whoever   *)
(* deregisters is a callback or the client's own code.  While something      *)
(* waits to be removed, an event is being dispatched.                        *)

CalledRight(i) ==
  /\ stack[i].kind = "callback" => i < Len(stack) /\ stack[i + 1].kind = "dispatch"
  /\ stack[i].kind = "deregister" /\ i < Len(stack) => stack[i + 1].kind = "callback"

InnerCalls == \A i \in DOMAIN stack : CalledRight(i)

RemovalsWait == pending # {} => InSend

\* The other steps that change the top of the stack.
LEMMA DeregisterFacts ==
  ASSUME TypeOK, NEW c \in Callback, NEW t \in EventType, Deregister(c, t)
  PROVE  /\ Kept(1, 0) /\ stack'[1].kind = "deregister"
         /\ stack'[1].callback = c /\ stack'[1].type = t
         /\ stack'[1].next = Largest(Ids) /\ Largest(Ids) \in Ids \cup {0}
         /\ \A d \in listeners : d.id <= Largest(Ids)
         /\ stack'[1].covers = {e.id : e \in Matched(c, t)}
         /\ stack'[1].covers \subseteq Ids
         /\ stack # <<>> => stack[1].kind = "callback"
<1> DEFINE f == [kind |-> "deregister", callback |-> c, type |-> t,
                 next |-> Largest(Ids), waiting |-> FALSE,
                 covers |-> {e.id : e \in Matched(c, t)}]
<1>1. Ids \in SUBSET Id
  BY IdFacts
<1>2. Largest(Ids) \in Ids \cup {0} /\ Largest(Ids) \in Id \cup {0}
  BY <1>1, LargestOf
<1>3. \A d \in listeners : d.id <= Largest(Ids)
  BY <1>1, LargestOf DEF Ids
<1>4. {e.id : e \in Matched(c, t)} \subseteq Ids
  BY DEF Matched, Ids
<1>5. f \in Frame
  BY <1>1, <1>2, <1>4 DEF Frame
<1>6. Push(f) /\ stack \in Seq(Frame)
  BY DEF Deregister, TypeOK
<1>7. Kept(1, 0) /\ stack'[1] = f
  <2> HIDE DEF f
  <2> QED
    BY <1>5, <1>6, PushKeeps
<1>8. stack # <<>> => stack[1].kind = "callback"
  BY <1>6 DEF Deregister, MayCall
<1> QED
  BY <1>2, <1>3, <1>4, <1>7, <1>8

LEMMA ReplyFacts ==
  ASSUME TypeOK, ReplyArrives
  PROVE  \E k \in {1, 2} :
           /\ Kept(k, 1) /\ stack # <<>> /\ stack[1].kind = "deregister"
           /\ k = 2 => stack'[1].kind = "process"
           /\ stack'[k].kind = "deregister"
           /\ stack'[k].callback = stack[1].callback /\ stack'[k].type = stack[1].type
           /\ stack'[k].covers = stack[1].covers /\ stack'[k].next = stack[1].next
           /\ k = 2 => ~InProcess
<1> DEFINE f == stack[1]
           g == [f EXCEPT !.waiting = FALSE]
           resumed == [stack EXCEPT ![1] = g]
           p == [kind |-> "process"]
<1>1. stack # <<>> /\ stack \in Seq(Frame) /\ f \in Frame /\ f.kind = "deregister"
  BY DEF ReplyArrives, Running, TypeOK
<1>2. f \in [kind : {"deregister"}, callback : Callback, type : EventType,
             next : Id \cup {0}, waiting : BOOLEAN, covers : SUBSET Id]
  BY <1>1 DEF Frame
<1>3. /\ g \in [kind : {"deregister"}, callback : Callback, type : EventType,
                next : Id \cup {0}, waiting : BOOLEAN, covers : SUBSET Id]
      /\ g.callback = f.callback /\ g.type = f.type /\ g.covers = f.covers
      /\ g.next = f.next
  BY <1>2
<1>4. g \in Frame /\ g.kind = "deregister" /\ p \in Frame /\ p.kind = "process"
  BY <1>3 DEF Frame
<1>5. resumed = [stack EXCEPT ![1].waiting = FALSE]
  BY <1>1
<1>6. stack' = resumed \/ (stack' = <<p>> \o resumed /\ ~InProcess)
  <2> DEFINE r == [stack EXCEPT ![1].waiting = FALSE]
  <2>1. stack' = IF InProcess \/ deferred = <<>> THEN r ELSE <<p>> \o r
    BY ZenonT(30) DEF ReplyArrives
  <2>2. r = resumed
    BY <1>5
  <2> HIDE DEF r, resumed, p
  <2> QED
    BY <2>1, <2>2
<1> HIDE DEF g, p
<1>7. /\ resumed \in Seq(Frame) /\ Len(resumed) = Len(stack) /\ resumed[1] = g
      /\ \A i \in DOMAIN stack : i > 1 => resumed[i] = stack[i]
  BY <1>1, <1>4
<1>8. CASE stack' = resumed
  <2>1. Kept(1, 1) /\ stack'[1] = g
    BY <1>1, <1>4, <1>8, ChangeKeeps
  <2> QED
    BY <1>1, <1>3, <1>4, <2>1
<1>9. CASE stack' = <<p>> \o resumed /\ ~InProcess
  <2> HIDE DEF resumed
  <2>1. Kept(2, 1) /\ stack'[1] = p /\ stack'[2] = g
    BY <1>1, <1>4, <1>7, <1>9 DEF Kept
  <2> QED
    BY <1>1, <1>3, <1>4, <1>9, <2>1
<1> QED
  BY <1>6, <1>8, <1>9

LEMMA ProcessNextFacts ==
  ASSUME TypeOK, ProcessNext
  PROVE  /\ Kept(1, 0) /\ stack # <<>> /\ stack[1].kind = "process"
         /\ \E e \in Event : stack'[1] = SendEvent(e)
<1>1. Head(deferred) \in Event /\ stack \in Seq(Frame) /\ stack # <<>>
  BY DEF TypeOK, ProcessNext, Running
<1>2. Push(SendEvent(Head(deferred))) /\ stack[1].kind = "process"
  BY <1>1 DEF ProcessNext, Running
<1> QED
  BY <1>1, <1>2, SendEventFrame, PushKeeps

LEMMA DisposeFacts ==
  ASSUME TypeOK, Dispose
  PROVE  /\ Kept(1, 0) /\ \E e \in Event : stack'[1] = SendEvent(e)
         /\ stack # <<>> => stack[1].kind = "callback"
<1>1. Push(SendEvent(Defunct)) /\ stack \in Seq(Frame) /\ Defunct \in Event
  BY EventAssumption DEF TypeOK, Dispose
<1>2. stack # <<>> => stack[1].kind = "callback"
  BY <1>1 DEF Dispose, MayCall
<1> QED
  BY <1>1, <1>2, SendEventFrame, PushKeeps

LEMMA CallFacts ==
  ASSUME TypeOK, CallCallback
  PROVE  \E e \in listeners :
           /\ stack # <<>> /\ stack[1].kind = "dispatch" /\ Kept(2, 1)
           /\ e \in Callable(stack[1])
           /\ \A d \in Callable(stack[1]) : d.id <= e.id
           /\ stack'[1].kind = "callback" /\ stack'[1].id = e.id
           /\ stack'[1].callback = e.callback
           /\ stack'[2] = [stack[1] EXCEPT !.at = e.id]
<1> DEFINE f == stack[1]
           S == {e.id : e \in Callable(f)}
           id == Largest(S)
           e == EntryOf(id)
           c == [kind |-> "callback", id |-> id, callback |-> EntryOf(id).callback]
           g == [f EXCEPT !.at = id]
<1>1. stack # <<>> /\ stack \in Seq(Frame) /\ Head(stack) = f /\ f \in Frame
  BY DEF CallCallback, Running, TypeOK
<1>2. /\ f.kind = "dispatch" /\ Callable(f) # {}
      /\ stack' = <<c>> \o [stack EXCEPT ![1].at = id]
  BY <1>1 DEF CallCallback, Running
<1>3. Callable(f) \subseteq listeners
  BY DEF Callable
<1>4. S \subseteq Ids /\ S \in SUBSET Id /\ S # {}
  BY <1>2, <1>3, IdFacts DEF Ids
<1>5. id \in S /\ \A j \in S : j <= id
  BY <1>4, LargestOf
<1>6. PICK d \in Callable(f) : d.id = id
  BY <1>5
<1>7. e = d /\ e.id = id /\ e \in listeners /\ e \in Callable(f)
  BY <1>3, <1>6, IdFacts
<1>8. \A b \in Callable(f) : b.id <= e.id
  BY <1>5, <1>7
<1>9. id \in Id /\ e.callback \in Callback
  BY <1>4, <1>5, <1>7 DEF TypeOK, Entry
<1>10. c \in Frame
  BY <1>9 DEF Frame
<1>11. g \in Frame
  BY <1>1, <1>2, <1>9, FrameFields
<1>12. c.kind = "callback" /\ c.id = e.id /\ c.callback = e.callback
  BY <1>7
<1>13. stack' = <<c>> \o [stack EXCEPT ![1] = g]
  BY <1>1, <1>2
<1> HIDE DEF c, g
<1>14. Kept(2, 1) /\ stack'[1] = c /\ stack'[2] = g
  <2> DEFINE s == [stack EXCEPT ![1] = g]
  <2>1. /\ s \in Seq(Frame) /\ Len(s) = Len(stack) /\ s[1] = g
        /\ \A i \in DOMAIN stack : i > 1 => s[i] = stack[i]
    BY <1>1, <1>11
  <2>2. stack' = <<c>> \o s
    BY <1>13
  <2> HIDE DEF s
  <2> QED
    BY <1>1, <1>10, <2>1, <2>2 DEF Kept
<1>15. g = [stack[1] EXCEPT !.at = e.id]
  BY <1>7 DEF g
<1> QED
  BY <1>1, <1>2, <1>7, <1>8, <1>12, <1>14, <1>15

LEMMA ReturnFacts ==
  ASSUME TypeOK, InnerCalls, CallbackReturns
  PROVE  /\ Len(stack) >= 2 /\ Kept(1, 2)
         /\ stack[1].kind = "callback" /\ stack[2].kind = "dispatch"
         /\ stack[1].id \in Id
         /\ stack'[1].kind = "dispatch" /\ stack'[1].at = After(stack[1].id)
         /\ stack'[1].event = stack[2].event /\ stack'[1].begun = stack[2].begun
         /\ stack'[1].called = stack[2].called \cup {stack[1].callback}
<1> DEFINE f == stack[2]
           c == stack[1]
           g == [f EXCEPT !.at = After(c.id), !.called = @ \cup {c.callback}]
<1>1. stack # <<>> /\ stack \in Seq(Frame) /\ Head(stack) = c /\ c \in Frame
  BY DEF CallbackReturns, Running, TypeOK
<1>2. c.kind = "callback"
  BY <1>1 DEF CallbackReturns, Running
<1>3. Len(stack) >= 2 /\ f.kind = "dispatch" /\ f \in Frame
  <2>1. 1 \in DOMAIN stack /\ DOMAIN stack = 1..Len(stack)
    BY <1>1
  <2>2. 1 < Len(stack) /\ stack[1 + 1].kind = "dispatch"
    BY <1>2, <2>1 DEF InnerCalls, CalledRight
  <2> QED
    BY <1>1, <2>2
<1>4. f \in [kind : {"dispatch"}, event : Event, at : Id \cup {0},
             called : SUBSET Callback, begun : 1..(MaxListeners + 1)]
  BY <1>3 DEF Frame
<1>5. c.id \in Id /\ c.callback \in Callback
  BY <1>1, <1>2, FrameFields
<1>6. After(c.id) \in Id \cup {0}
  BY <1>5, IdFacts
<1>7. /\ g \in [kind : {"dispatch"}, event : Event, at : Id \cup {0},
                called : SUBSET Callback, begun : 1..(MaxListeners + 1)]
      /\ g.at = After(c.id) /\ g.called = f.called \cup {c.callback}
      /\ g.event = f.event /\ g.begun = f.begun
  BY <1>4, <1>5, <1>6
<1>8. g \in Frame /\ g.kind = "dispatch"
  BY <1>7 DEF Frame
<1>9. /\ Tail(stack) \in Seq(Frame) /\ Len(Tail(stack)) = Len(stack) - 1
      /\ \A i \in 1..(Len(stack) - 1) : Tail(stack)[i] = stack[i + 1]
  BY <1>1
<1>10. stack' = [Tail(stack) EXCEPT ![1] = g]
  <2>1. stack' = [Tail(stack) EXCEPT ![1].at = After(c.id), ![1].called = @ \cup {c.callback}]
    BY <1>1 DEF CallbackReturns
  <2>2. Tail(stack)[1] = f
    BY <1>3, <1>9
  <2> QED
    BY <1>3, <1>9, <2>1, <2>2
<1> HIDE DEF g
<1>11. Kept(1, 2) /\ stack'[1] = g
  <2> DEFINE s == Tail(stack)
  <2> HIDE DEF s
  <2>1. s \in Seq(Frame) /\ Len(s) = Len(stack) - 1 /\ Len(stack) >= 2
        /\ \A i \in 1..(Len(stack) - 1) : s[i] = stack[i + 1]
    BY <1>3, <1>9 DEF s
  <2>2. stack' = [s EXCEPT ![1] = g]
    BY <1>10 DEF s
  <2>3. /\ stack' \in Seq(Frame) /\ Len(stack') = Len(stack) - 1 /\ stack'[1] = g
        /\ \A i \in 2..(Len(stack) - 1) : stack'[i] = stack[i + 1]
    BY <1>8, <2>1, <2>2
  <2> QED
    BY <1>1, <2>1, <2>3 DEF Kept
<1> QED
  BY <1>2, <1>3, <1>5, <1>7, <1>8, <1>11

-----------------------------------------------------------------------------
(* The list while events are dispatched *)

\* DispatchIsSafe of one frame.
HoldsEntry(i) ==
  /\ stack[i].kind = "dispatch" => stack[i].at \in Ids \cup {0}
  /\ stack[i].kind = "callback" => stack[i].id \in Ids
  /\ stack[i].kind = "deregister" /\ i < Len(stack) => stack[i].next \in Ids \cup {0}

SafeInv == InnerCalls /\ RemovalsWait /\ \A i \in DOMAIN stack : HoldsEntry(i)

\* The frames that a step leaves alone stay right, if it frees no entry.
LEMMA KeptFrames ==
  ASSUME NEW k \in Nat, NEW j \in Nat, SafeInv, Kept(k, j), Ids \subseteq Ids'
  PROVE  \A i \in DOMAIN stack' : i > k => CalledRight(i)' /\ HoldsEntry(i)'
<1> SUFFICES ASSUME NEW i \in DOMAIN stack', i > k
             PROVE  CalledRight(i)' /\ HoldsEntry(i)'
  OBVIOUS
<1> DEFINE b == i - k + j
<1>1. /\ b \in DOMAIN stack /\ stack'[i] = stack[b]
      /\ Len(stack) \in Nat /\ Len(stack') = Len(stack) - j + k
      /\ i \in Int /\ (i < Len(stack') <=> b < Len(stack))
  BY DEF Kept
<1>2. i < Len(stack') => stack'[i + 1] = stack[b + 1]
  <2> SUFFICES ASSUME i < Len(stack') PROVE stack'[i + 1] = stack[b + 1]
    OBVIOUS
  <2>1. i + 1 \in DOMAIN stack' /\ i + 1 > k
    BY <1>1, SMTT(40) DEF Kept
  <2>2. stack'[i + 1] = stack[(i + 1) - k + j]
    BY <2>1 DEF Kept
  <2>3. (i + 1) - k + j = b + 1
    BY <1>1
  <2> QED
    BY <2>2, <2>3
<1>3. CalledRight(b) /\ HoldsEntry(b)
  BY <1>1 DEF SafeInv, InnerCalls
<1> HIDE DEF b
<1>4. CalledRight(i)'
  BY <1>1, <1>2, <1>3 DEF CalledRight
<1>5. HoldsEntry(i)'
  BY <1>1, <1>3 DEF HoldsEntry
<1> QED
  BY <1>4, <1>5

\* Below the outermost dispatch nobody holds an entry but the deregistration that
\* the client's own code called.
LEMMA NobodyHolds ==
  ASSUME stack \in Seq(Frame), InnerCalls, NEW m \in Nat,
         \A i \in DOMAIN stack : i > m => stack[i].kind # "dispatch"
  PROVE  \A i \in DOMAIN stack : i > m =>
           /\ stack[i].kind # "callback"
           /\ stack[i].kind = "deregister" => i = Len(stack)
<1>1. \A i \in DOMAIN stack : i \in 1..Len(stack) /\ (i < Len(stack) => i + 1 \in DOMAIN stack)
  OBVIOUS
<1>2. ASSUME NEW i \in DOMAIN stack, i > m PROVE stack[i].kind # "callback"
  <2>1. i < Len(stack) => i + 1 \in DOMAIN stack /\ i + 1 > m
    BY <1>1, <1>2
  <2>2. CalledRight(i)
    BY DEF InnerCalls
  <2> QED
    BY <2>1, <2>2 DEF CalledRight
<1> QED
  BY <1>1, <1>2 DEF InnerCalls, CalledRight

\* When the entries held by frames below the m-th need not stay.
LEMMA FreedFrames ==
  ASSUME NEW k \in Nat, NEW j \in Nat, InnerCalls, Kept(k, j),
         \A i \in DOMAIN stack : i > j => stack[i].kind # "dispatch"
  PROVE  \A i \in DOMAIN stack' : i > k => CalledRight(i)' /\ HoldsEntry(i)'
<1> SUFFICES ASSUME NEW i \in DOMAIN stack', i > k
             PROVE  CalledRight(i)' /\ HoldsEntry(i)'
  OBVIOUS
<1> DEFINE b == i - k + j
<1>1. /\ b \in DOMAIN stack /\ b > j /\ stack'[i] = stack[b] /\ stack \in Seq(Frame)
      /\ Len(stack) \in Nat /\ Len(stack') = Len(stack) - j + k
      /\ i \in Int /\ (i < Len(stack') <=> b < Len(stack))
  BY SMTT(40) DEF Kept
<1>2. /\ stack[b].kind # "callback" /\ stack[b].kind # "dispatch"
      /\ stack[b].kind = "deregister" => b = Len(stack)
  BY <1>1, NobodyHolds
<1> HIDE DEF b
<1> QED
  BY <1>1, <1>2 DEF CalledRight, HoldsEntry

\* A dispatch in progress that a step does not end.
LEMMA SendGoesOn ==
  ASSUME NEW k \in Nat, NEW j \in Nat, Kept(k, j),
         \E i \in DOMAIN stack : i > j /\ stack[i].kind = "dispatch"
  PROVE  InSend'
<1>1. PICK i \in DOMAIN stack : i > j /\ stack[i].kind = "dispatch"
  OBVIOUS
<1>2. i - j + k \in DOMAIN stack' /\ stack'[i - j + k] = stack[i]
  BY <1>1 DEF Kept
<1> QED
  BY <1>1, <1>2 DEF InSend

\* A step that frees nothing keeps the invariant if the new frames are right and
\* what waits still has a dispatch to wait for.
LEMMA StepIsSafe ==
  ASSUME NEW k \in 0..2, NEW j \in 0..2, SafeInv, Kept(k, j), Ids \subseteq Ids',
         \A i \in DOMAIN stack' : i <= k => CalledRight(i)' /\ HoldsEntry(i)',
         pending' = {} \/ InSend'
  PROVE  SafeInv'
<1>1. \A i \in DOMAIN stack' : i \in Int
  BY DEF Kept
<1>2. \A i \in DOMAIN stack' : CalledRight(i)' /\ HoldsEntry(i)'
  <2> SUFFICES ASSUME NEW i \in DOMAIN stack' PROVE CalledRight(i)' /\ HoldsEntry(i)'
    OBVIOUS
  <2>1. CASE i <= k
    BY <2>1
  <2>2. CASE i > k
    BY <2>2, KeptFrames
  <2> QED
    BY <1>1, <2>1, <2>2
<1> QED
  BY <1>2 DEF SafeInv, InnerCalls, RemovalsWait

\* If a step replaces no dispatch, whatever waited still does.
LEMMA StillWaits ==
  ASSUME NEW k \in 0..2, NEW j \in 0..2, SafeInv, Kept(k, j), pending' = pending,
         \A i \in DOMAIN stack : i <= j => stack[i].kind # "dispatch"
  PROVE  pending' = {} \/ InSend'
<1>1. \A i \in DOMAIN stack : i \in Int
  BY DEF Kept
<1>2. CASE InSend
  <2>1. \E i \in DOMAIN stack : i > j /\ stack[i].kind = "dispatch"
    BY <1>1, <1>2 DEF InSend
  <2> QED
    BY <2>1, SendGoesOn
<1> QED
  BY <1>2 DEF SafeInv, RemovalsWait

LEMMA PushedWaits ==
  ASSUME SafeInv, Kept(1, 0), pending' = pending
  PROVE  pending' = {} \/ InSend'
<1>1. \A i \in DOMAIN stack : i > 0 /\ ~(i <= 0)
  BY DEF Kept
<1>2. \A i \in DOMAIN stack : i <= 0 => stack[i].kind # "dispatch"
  BY <1>1
<1> QED
  BY <1>2, StillWaits

-----------------------------------------------------------------------------
(* Types *)

\* A step of the stack alone, or with the client's counters and messages.
LEMMA ListUntouched ==
  ASSUME TypeOK, UNCHANGED <<listeners, pending, wild, nextId>>,
         stack' \in Seq(Frame), deferred' \in Seq(Event), matches' \in [EventType -> Nat],
         events' \in Nat, withdrawals' \in Nat, withdrawn' \subseteq Id
  PROVE  TypeOK'
BY DEF TypeOK, Ids

\* TakeOut leaves a part of the list, in which everything pending is.
LEMMA TakeOutFacts ==
  ASSUME TypeOK, SafeInv, NEW e \in listeners, TakeOut(e)
  PROVE  /\ listeners' \subseteq listeners /\ pending' \subseteq Ids'
         /\ \A d \in listeners : d # e => d \in listeners'
         /\ pending \subseteq pending'
         /\ e \in listeners' => e.id \in pending'
         /\ InSend => Ids' = Ids
         /\ ~InSend => pending' = {}
<1>1. CASE InSend
  BY <1>1 DEF TakeOut, TypeOK, Ids
<1>2. CASE ~InSend
  <2>1. pending = {}
    BY <1>2 DEF SafeInv, RemovalsWait
  <2> QED
    BY <1>2, <2>1 DEF TakeOut
<1> QED
  BY <1>1, <1>2

\* ResolvePending leaves a part of the list, in which everything pending is.
LEMMA ResolveFacts ==
  ASSUME TypeOK, stack # <<>>, ResolvePending
  PROVE  \/ /\ UNCHANGED <<listeners, pending>>
            /\ \E i \in DOMAIN stack : i > 1 /\ stack[i].kind = "dispatch"
         \/ /\ listeners' = {e \in listeners : e.id \notin pending} /\ pending' = {}
            /\ \A i \in DOMAIN stack : i > 1 => stack[i].kind # "dispatch"
<1>1. /\ stack \in Seq(Frame)
      /\ \A i \in DOMAIN Tail(stack) : i + 1 \in DOMAIN stack /\ i + 1 > 1
                                         /\ Tail(stack)[i] = stack[i + 1]
      /\ \A i \in DOMAIN stack : i > 1 => i - 1 \in DOMAIN Tail(stack)
                                            /\ Tail(stack)[i - 1] = stack[i]
  BY DEF TypeOK
<1> QED
  BY <1>1 DEF ResolvePending

LEMMA TypeStep ==
  ASSUME TypeOK, SafeInv, [Next]_vars
  PROVE  TypeOK'
<1>1. ASSUME NEW c \in Callback, NEW t \in EventType, Register(c, t)
      PROVE  TypeOK'
  <2> DEFINE e == [id |-> nextId, callback |-> c, type |-> t]
  <2>1. /\ nextId \in Id /\ nextId + 1 \in 1..(MaxListeners + 1)
        /\ listeners' = listeners \cup {e} /\ nextId' = nextId + 1
        /\ matches' = [matches EXCEPT ![t] = @ + 1]
    BY <1>1, BoundAssumption DEF Register, TypeOK, Id
  <2>2. e \in Entry /\ e.id = nextId
    BY <2>1 DEF Entry
  <2> HIDE DEF e
  <2>3. \A d \in listeners : d.id \in Int /\ d.id < nextId
    BY DEF TypeOK, Entry, Id
  <2>4. \A d \in listeners' : d.id < nextId'
    BY <2>1, <2>2, <2>3 DEF Id
  <2>5. \A d, b \in listeners' : d.id = b.id => d = b
    BY <2>1, <2>2, <2>3 DEF TypeOK
  <2>6. matches' \in [EventType -> Nat]
    BY <2>1 DEF TypeOK
  <2>7. Ids \subseteq Ids'
    BY <2>1 DEF Ids
  <2> QED
    BY <1>1, <2>1, <2>2, <2>4, <2>5, <2>6, <2>7 DEF Register, TypeOK
<1>2. ASSUME NEW c \in Callback, NEW t \in EventType, Deregister(c, t)
      PROVE  TypeOK'
  <2>1. stack' \in Seq(Frame)
    BY <1>2, DeregisterFacts DEF Kept
  <2>2. UNCHANGED <<listeners, pending, wild, nextId, deferred, matches, events, withdrawn>>
        /\ withdrawals' = withdrawals + 1
    BY <1>2 DEF Deregister
  <2> QED
    BY <2>1, <2>2, ListUntouched DEF TypeOK
<1>3. ASSUME NEW e \in Event, Arrive(e)
      PROVE  TypeOK'
  <2>1. /\ UNCHANGED <<listeners, pending, wild, nextId, stack, matches, withdrawals, withdrawn>>
        /\ deferred' = Append(deferred, e) /\ events' = events + 1
    BY <1>3 DEF Arrive
  <2> QED
    BY <2>1, ListUntouched DEF TypeOK
<1>4. CASE Dispose
  <2>1. stack' \in Seq(Frame)
    BY <1>4, DisposeFacts DEF Kept
  <2>2. /\ UNCHANGED <<listeners, pending, wild, nextId, deferred, matches, withdrawals, withdrawn>>
        /\ events' = events + 1
    BY <1>4 DEF Dispose
  <2> QED
    BY <2>1, <2>2, ListUntouched DEF TypeOK
<1>5. CASE WalkRemoves
  <2>1. PICK e \in listeners : TakeOut(e) /\ Kept(1, 1)
    BY <1>5, WalkFacts
  <2>2. listeners' \subseteq listeners /\ pending' \subseteq Ids'
    BY <2>1, TakeOutFacts
  <2>3. stack' \in Seq(Frame)
    BY <2>1 DEF Kept
  <2>4. matches' \in [EventType -> Nat]
    <3>1. stack # <<>> /\ stack \in Seq(Frame) /\ Head(stack) \in Frame
          /\ Head(stack).kind = "deregister"
      BY <1>5 DEF WalkRemoves, Running, TypeOK
    <3>2. Head(stack).type \in EventType
      BY <3>1, FrameFields
    <3>3. RemoveMatch(Head(stack).type)
      BY <1>5 DEF WalkRemoves
    <3> QED
      BY <3>2, <3>3 DEF RemoveMatch, TypeOK
  <2>5. UNCHANGED <<deferred, wild, bounds, withdrawn>>
    BY <1>5 DEF WalkRemoves
  <2> QED
    BY <2>2, <2>3, <2>4, <2>5 DEF TypeOK, bounds
<1>6. CASE WalkIsLost
  BY <1>6 DEF WalkIsLost, TypeOK, bounds, Ids
<1>7. CASE WalkEnds
  <2>1. stack # <<>> /\ stack \in Seq(Frame) /\ Head(stack) \in Frame
        /\ Head(stack).kind = "deregister" /\ Pop
    BY <1>7 DEF WalkEnds, Running, TypeOK
  <2>2. Head(stack).covers \subseteq Id
    BY <2>1, FrameFields
  <2>3. /\ withdrawn' = withdrawn \cup Head(stack).covers
        /\ UNCHANGED <<listeners, pending, matches, deferred, wild, bounds>>
    BY <1>7 DEF WalkEnds
  <2>4. stack' \in Seq(Frame)
    BY <2>1, PopKeeps DEF Kept
  <2> QED
    BY <2>2, <2>3, <2>4, ListUntouched DEF TypeOK, bounds
<1>8. CASE ReplyArrives
  <2>1. stack' \in Seq(Frame)
    BY <1>8, ReplyFacts DEF Kept
  <2> QED
    BY <1>8, <2>1, ListUntouched DEF ReplyArrives, TypeOK, bounds
<1>9. CASE BeginProcess
  <2>1. stack' \in Seq(Frame)
    <3>1. [kind |-> "process"] \in Frame
      BY DEF Frame
    <3> QED
      BY <1>9, <3>1, PushKeeps DEF BeginProcess, TypeOK, Kept
  <2> QED
    BY <1>9, <2>1, ListUntouched DEF BeginProcess, TypeOK, bounds
<1>10. CASE ProcessNext
  <2>1. stack' \in Seq(Frame)
    BY <1>10, ProcessNextFacts DEF Kept
  <2>2. deferred' \in Seq(Event)
    BY <1>10 DEF ProcessNext, TypeOK
  <2> QED
    BY <1>10, <2>1, <2>2, ListUntouched DEF ProcessNext, TypeOK, bounds
<1>11. CASE ProcessEnds
  <2>1. stack' \in Seq(Frame)
    BY <1>11, PopKeeps DEF ProcessEnds, Running, TypeOK, Kept
  <2> QED
    BY <1>11, <2>1, ListUntouched DEF ProcessEnds, TypeOK, bounds
<1>12. CASE CallCallback
  <2>1. stack' \in Seq(Frame)
    BY <1>12, CallFacts DEF Kept
  <2> QED
    BY <1>12, <2>1, ListUntouched DEF CallCallback, TypeOK, bounds
<1>13. CASE CallbackReturns
  <2>1. stack' \in Seq(Frame)
    BY <1>13, ReturnFacts DEF Kept, SafeInv
  <2> QED
    BY <1>13, <2>1, ListUntouched DEF CallbackReturns, TypeOK, bounds
<1>14. CASE DispatchEnds
  <2>1. stack # <<>> /\ Pop /\ ResolvePending
        /\ UNCHANGED <<matches, deferred, wild, bounds, withdrawn>>
    BY <1>14 DEF DispatchEnds, Running
  <2>2. stack' \in Seq(Frame)
    BY <2>1, PopKeeps DEF TypeOK, Kept
  <2>3. listeners' \subseteq listeners /\ pending' \subseteq Ids'
    BY <2>1, ResolveFacts DEF TypeOK, Ids
  <2> QED
    BY <2>1, <2>2, <2>3 DEF TypeOK, bounds
<1>15. CASE UNCHANGED vars
  BY <1>15 DEF vars, bounds, TypeOK, Ids
<1> QED
  BY <1>1, <1>2, <1>3, <1>4, <1>5, <1>6, <1>7, <1>8, <1>9, <1>10, <1>11, <1>12, <1>13, <1>14,
     <1>15 DEF Next, Client, Library

-----------------------------------------------------------------------------
(* Dispatches are safe *)

\* The other frame that a callback's caller or callee sees below its own.
LEMMA Below ==
  ASSUME NEW k \in Nat, NEW j \in Nat, Kept(k, j)
  PROVE  /\ k < Len(stack') <=> j < Len(stack)
         /\ k < Len(stack') => stack'[k + 1] = stack[j + 1]
<1>1. Len(stack) \in Nat /\ Len(stack') \in Nat /\ DOMAIN stack' = 1..Len(stack')
  BY DEF Kept
<1>2. k < Len(stack') => stack'[k + 1] = stack[(k + 1) - k + j]
  BY <1>1 DEF Kept
<1>3. (k + 1) - k + j = j + 1
  OBVIOUS
<1> QED
  BY <1>1, <1>2, <1>3 DEF Kept

LEMMA SafeStep ==
  ASSUME TypeOK, SafeInv, [Next]_vars
  PROVE  SafeInv'
<1>1. ASSUME NEW c \in Callback, NEW t \in EventType, Register(c, t)
      PROVE  SafeInv'
  <2>1. UNCHANGED <<pending, stack>> /\ Ids \subseteq Ids'
    BY <1>1 DEF Register, Ids
  <2> QED
    BY <2>1 DEF SafeInv, InnerCalls, CalledRight, HoldsEntry, RemovalsWait, InSend
<1>2. ASSUME NEW c \in Callback, NEW t \in EventType, Deregister(c, t)
      PROVE  SafeInv'
  <2>1. /\ Kept(1, 0) /\ stack'[1].kind = "deregister"
        /\ stack'[1].next = Largest(Ids) /\ Largest(Ids) \in Ids \cup {0}
        /\ stack # <<>> => stack[1].kind = "callback"
    BY <1>2, DeregisterFacts
  <2>2. UNCHANGED <<listeners, pending>> /\ Ids' = Ids
    BY <1>2 DEF Deregister, Ids
  <2>3. 1 < Len(stack') => stack'[2].kind = "callback"
    BY <2>1, Below DEF Kept
  <2>4. \A i \in DOMAIN stack' : i <= 1 => CalledRight(i)' /\ HoldsEntry(i)'
    BY <2>1, <2>2, <2>3 DEF CalledRight, HoldsEntry, Kept
  <2>5. pending' = {} \/ InSend'
    BY <2>1, <2>2, PushedWaits
  <2> QED
    BY <2>1, <2>2, <2>4, <2>5, StepIsSafe
<1>3. CASE Dispose \/ ProcessNext
  <2>1. /\ Kept(1, 0) /\ \E e \in Event : stack'[1] = SendEvent(e)
        /\ UNCHANGED <<listeners, pending>> /\ Ids' = Ids
    BY <1>3, DisposeFacts, ProcessNextFacts DEF Dispose, ProcessNext, Ids
  <2>2. stack'[1].kind = "dispatch" /\ stack'[1].at \in Ids \cup {0}
    BY <2>1, SendEventFrame
  <2>3. \A i \in DOMAIN stack' : i <= 1 => CalledRight(i)' /\ HoldsEntry(i)'
    BY <2>1, <2>2 DEF CalledRight, HoldsEntry, Kept
  <2>4. pending' = {} \/ InSend'
    BY <2>1, PushedWaits
  <2> QED
    BY <2>1, <2>3, <2>4, StepIsSafe
<1>4. CASE WalkRemoves
  <2>1. PICK e \in listeners :
          /\ stack # <<>> /\ stack[1].kind = "deregister" /\ TakeOut(e)
          /\ Kept(1, 1) /\ stack'[1].kind = "deregister" /\ stack'[1].next = After(e.id)
    BY <1>4, WalkFacts
  <2>2. e.id \in Id /\ After(e.id) \in Ids \cup {0}
    BY IdFacts DEF Ids
  <2>3. /\ 1 \in DOMAIN stack /\ \A i \in DOMAIN stack : i <= 1 => i = 1
        /\ \A i \in DOMAIN stack' : i <= 1 => i = 1
    BY <2>1 DEF Kept
  <2>4. /\ 1 < Len(stack') <=> 1 < Len(stack)
        /\ 1 < Len(stack') => stack'[2] = stack[2]
    BY <2>1, Below
  <2>5. 1 < Len(stack') => stack'[2].kind = "callback"
    BY <2>1, <2>3, <2>4 DEF SafeInv, InnerCalls, CalledRight
  <2>6. CalledRight(1)'
    BY <2>1, <2>5 DEF CalledRight
  <2>7. CASE InSend
    <3>1. Ids' = Ids
      BY <2>1, <2>7, TakeOutFacts
    <3>2. HoldsEntry(1)'
      BY <2>1, <2>2, <3>1 DEF HoldsEntry
    <3>3. InSend'
      <4>1. \E i \in DOMAIN stack : i > 1 /\ stack[i].kind = "dispatch"
        BY <2>1, <2>7, <2>3 DEF InSend, Kept
      <4> QED
        BY <2>1, <4>1, SendGoesOn
    <3>4. \A i \in DOMAIN stack' : i <= 1 => CalledRight(i)' /\ HoldsEntry(i)'
      BY <2>3, <2>6, <3>2
    <3> QED
      BY <2>1, <3>1, <3>3, <3>4, StepIsSafe
  <2>8. CASE ~InSend
    <3>1. pending' = {}
      BY <2>1, <2>8, TakeOutFacts
    <3>2. \A i \in DOMAIN stack : stack[i].kind # "dispatch"
      BY <2>8 DEF InSend
    <3>3. ~(1 < Len(stack'))
      <4>1. \A i \in DOMAIN stack : i > 0 => stack[i].kind # "dispatch"
        BY <3>2
      <4>2. \A i \in DOMAIN stack : i > 0 => (stack[i].kind = "deregister" => i = Len(stack))
        BY <4>1, NobodyHolds DEF SafeInv, TypeOK
      <4>3. 1 > 0 => 1 = Len(stack)
        BY <2>1, <2>3, <4>2, Zenon
      <4>4. Len(stack) \in Nat /\ Len(stack') \in Nat
        BY <2>1 DEF Kept
      <4>5. 1 = Len(stack)
        BY <4>3
      <4>6. ~(1 < Len(stack))
        BY <4>4, <4>5
      <4> QED
        BY <2>4, <4>6, Zenon
    <3>4. HoldsEntry(1)'
      BY <2>1, <3>3 DEF HoldsEntry
    <3>5. \A i \in DOMAIN stack' : i > 1 => CalledRight(i)' /\ HoldsEntry(i)'
      BY <2>1, <3>2, FreedFrames DEF SafeInv
    <3>6. \A i \in DOMAIN stack' : CalledRight(i)' /\ HoldsEntry(i)'
      BY <2>1, <2>3, <2>6, <3>4, <3>5 DEF Kept
    <3> QED
      BY <3>1, <3>6 DEF SafeInv, InnerCalls, RemovalsWait
  <2> QED
    BY <2>7, <2>8
<1>5. CASE WalkEnds \/ ProcessEnds
  <2>1. /\ stack # <<>> /\ stack[1].kind # "dispatch" /\ Pop
        /\ UNCHANGED <<listeners, pending>> /\ Ids' = Ids
    BY <1>5 DEF WalkEnds, ProcessEnds, Running, Ids
  <2>2. Kept(0, 1)
    BY <2>1, PopKeeps DEF TypeOK
  <2>3. pending' = {} \/ InSend'
    <3>1. \A i \in DOMAIN stack : i <= 1 => i = 1
      BY <2>2 DEF Kept
    <3> QED
      BY <2>1, <2>2, <3>1, StillWaits
  <2>4. \A i \in DOMAIN stack' : i <= 0 => CalledRight(i)' /\ HoldsEntry(i)'
    BY <2>2 DEF Kept
  <2> QED
    BY <2>1, <2>2, <2>3, <2>4, StepIsSafe
<1>6. CASE ReplyArrives
  <2>1. PICK k \in {1, 2} :
          /\ Kept(k, 1) /\ stack # <<>> /\ stack[1].kind = "deregister"
          /\ k = 2 => stack'[1].kind = "process"
          /\ stack'[k].kind = "deregister" /\ stack'[k].next = stack[1].next
    BY <1>6, ReplyFacts
  <2>2. UNCHANGED <<listeners, pending>> /\ Ids' = Ids
    BY <1>6 DEF ReplyArrives, Ids
  <2>3. /\ 1 \in DOMAIN stack /\ \A i \in DOMAIN stack : i <= 1 => i = 1
        /\ \A i \in DOMAIN stack' : i <= k => i = k \/ (i = 1 /\ k = 2)
    BY <2>1 DEF Kept
  <2>4. CalledRight(1) /\ HoldsEntry(1)
    BY <2>3 DEF SafeInv, InnerCalls
  <2>5. /\ k < Len(stack') <=> 1 < Len(stack)
        /\ k < Len(stack') => stack'[k + 1] = stack[2]
    BY <2>1, Below
  <2>6. CalledRight(k)' /\ HoldsEntry(k)'
    BY <2>1, <2>2, <2>4, <2>5 DEF CalledRight, HoldsEntry
  <2>7. \A i \in DOMAIN stack' : i <= k => CalledRight(i)' /\ HoldsEntry(i)'
    BY <2>1, <2>3, <2>6 DEF CalledRight, HoldsEntry
  <2>8. pending' = {} \/ InSend'
    BY <2>1, <2>2, <2>3, StillWaits
  <2> QED
    BY <2>1, <2>2, <2>7, <2>8, StepIsSafe
<1>7. CASE BeginProcess
  <2>1. Push([kind |-> "process"]) /\ UNCHANGED <<listeners, pending>> /\ Ids' = Ids
    BY <1>7 DEF BeginProcess, Ids
  <2>2. [kind |-> "process"] \in Frame
    BY DEF Frame
  <2>3. Kept(1, 0) /\ stack'[1].kind = "process"
    BY <2>1, <2>2, PushKeeps DEF TypeOK
  <2>4. \A i \in DOMAIN stack' : i <= 1 => CalledRight(i)' /\ HoldsEntry(i)'
    BY <2>3 DEF CalledRight, HoldsEntry, Kept
  <2>5. pending' = {} \/ InSend'
    BY <2>1, <2>3, PushedWaits
  <2> QED
    BY <2>1, <2>3, <2>4, <2>5, StepIsSafe
<1>8. CASE CallCallback
  <2>1. PICK e \in listeners :
          /\ stack # <<>> /\ stack[1].kind = "dispatch" /\ Kept(2, 1)
          /\ stack'[1].kind = "callback" /\ stack'[1].id = e.id
          /\ stack'[2] = [stack[1] EXCEPT !.at = e.id]
    BY <1>8, CallFacts
  <2>2. e.id \in Ids /\ e.id \in Id /\ Ids' = Ids
    BY <1>8, IdFacts DEF CallCallback, Ids
  <2>3. stack'[2].kind = "dispatch" /\ stack'[2].at = e.id
    BY <2>1, <2>2, FrameFields DEF TypeOK
  <2>4. 2 \in DOMAIN stack' /\ \A i \in DOMAIN stack' : i <= 2 => i = 1 \/ i = 2
    BY <2>1 DEF Kept
  <2>5. \A i \in DOMAIN stack' : i <= 2 => CalledRight(i)' /\ HoldsEntry(i)'
    <3>1. 1 < Len(stack') /\ 1 + 1 = 2
      BY <2>1 DEF Kept
    <3>2. CalledRight(1)' /\ CalledRight(2)'
      BY <2>1, <2>3, <3>1 DEF CalledRight
    <3>3. HoldsEntry(1)' /\ HoldsEntry(2)'
      BY <2>1, <2>2, <2>3 DEF HoldsEntry
    <3> QED
      BY <2>4, <3>2, <3>3
  <2>6. InSend'
    BY <2>3, <2>4 DEF InSend
  <2> QED
    BY <2>1, <2>2, <2>5, <2>6, StepIsSafe
<1>9. CASE CallbackReturns
  <2>1. /\ Len(stack) >= 2 /\ Kept(1, 2) /\ stack[1].id \in Id
        /\ stack'[1].kind = "dispatch" /\ stack'[1].at = After(stack[1].id)
    BY <1>9, ReturnFacts DEF SafeInv
  <2>2. After(stack[1].id) \in Ids \cup {0} /\ Ids' = Ids
    BY <1>9, <2>1, IdFacts DEF CallbackReturns, Ids
  <2>3. 1 \in DOMAIN stack' /\ \A i \in DOMAIN stack' : i <= 1 => i = 1
    BY <2>1 DEF Kept
  <2>4. \A i \in DOMAIN stack' : i <= 1 => CalledRight(i)' /\ HoldsEntry(i)'
    BY <2>1, <2>2, <2>3 DEF CalledRight, HoldsEntry
  <2>5. InSend'
    BY <2>1, <2>3 DEF InSend
  <2> QED
    BY <2>1, <2>2, <2>4, <2>5, StepIsSafe
<1>10. CASE DispatchEnds
  <2>1. stack # <<>> /\ Pop /\ ResolvePending
    BY <1>10 DEF DispatchEnds, Running
  <2>2. Kept(0, 1)
    BY <2>1, PopKeeps DEF TypeOK
  <2>3. CASE /\ UNCHANGED <<listeners, pending>>
             /\ \E i \in DOMAIN stack : i > 1 /\ stack[i].kind = "dispatch"
    <3>1. InSend' /\ Ids' = Ids
      BY <2>2, <2>3, SendGoesOn DEF Ids
    <3>2. \A i \in DOMAIN stack' : i <= 0 => CalledRight(i)' /\ HoldsEntry(i)'
      BY <2>2 DEF Kept
    <3> QED
      BY <2>2, <3>1, <3>2, StepIsSafe
  <2>4. CASE /\ pending' = {}
             /\ \A i \in DOMAIN stack : i > 1 => stack[i].kind # "dispatch"
    <3>1. \A i \in DOMAIN stack' : i > 0 => CalledRight(i)' /\ HoldsEntry(i)'
      BY <2>2, <2>4, FreedFrames DEF SafeInv
    <3>2. \A i \in DOMAIN stack' : i > 0
      BY <2>2 DEF Kept
    <3> QED
      BY <2>4, <3>1, <3>2 DEF SafeInv, InnerCalls, RemovalsWait
  <2> QED
    BY <2>1, <2>3, <2>4, ResolveFacts
<1>11. CASE UNCHANGED <<listeners, pending, stack>>
  BY <1>11 DEF SafeInv, InnerCalls, CalledRight, HoldsEntry, RemovalsWait, InSend, Ids
<1>12. ASSUME NEW e \in Event, Arrive(e)
       PROVE  UNCHANGED <<listeners, pending, stack>>
  BY <1>12 DEF Arrive
<1>13. WalkIsLost \/ UNCHANGED vars => UNCHANGED <<listeners, pending, stack>>
  BY DEF WalkIsLost, vars
<1> QED
  BY <1>1, <1>2, <1>3, <1>4, <1>5, <1>6, <1>7, <1>8, <1>9, <1>10, <1>11, <1>12, <1>13
     DEF Next, Client, Library

LEMMA SafeInit == Init => TypeOK /\ SafeInv
<1> SUFFICES ASSUME Init PROVE TypeOK /\ SafeInv
  OBVIOUS
<1>1. stack \in Seq(Frame) /\ deferred \in Seq(Event) /\ DOMAIN stack = {} /\ Ids = {}
  BY DEF Init, Ids
<1>2. matches \in [EventType -> Nat]
  BY DEF Init
<1>3. nextId \in 1..(MaxListeners + 1) /\ events \in Nat /\ withdrawals \in Nat
  BY BoundAssumption DEF Init
<1>4. /\ listeners \subseteq Entry /\ pending \subseteq Ids
      /\ wild \in BOOLEAN /\ withdrawn \subseteq Id
  BY DEF Init
<1>5. \A e \in listeners : FALSE
  BY DEF Init
<1>6. TypeOK
  BY <1>1, <1>2, <1>3, <1>4, <1>5 DEF TypeOK
<1>7. SafeInv
  BY <1>1 DEF Init, SafeInv, InnerCalls, RemovalsWait
<1> QED
  BY <1>6, <1>7

LEMMA Invariants == Spec => [](TypeOK /\ SafeInv)
<1>1. TypeOK /\ SafeInv /\ [Next]_vars => (TypeOK /\ SafeInv)'
  BY TypeStep, SafeStep
<1> QED
  BY <1>1, SafeInit, PTL DEF Spec

\* Every registration, removal, call and event keeps the list and the stack well
\* formed: ids are not used twice, and what waits to be removed is still there.
THEOREM TypeCorrect == Spec => []TypeOK
BY Invariants, PTL

\* However deep callbacks, deregistrations and dispatches nest, the entry a dispatch
\* is at, that of a callback that runs, and the next one of a deregistration made in a
\* callback are not freed (_atspi_send_event).  Nothing is said of a deregistration made
\* outside callbacks, which may go on from a freed entry (WalkIsLost).
THEOREM DispatchSafe == Spec => []DispatchIsSafe
<1>1. SafeInv => DispatchIsSafe
  BY DEF SafeInv, HoldsEntry, DispatchIsSafe
<1> QED
  BY <1>1, Invariants, PTL

\* What is withdrawn while events are dispatched is freed by the outermost dispatch as
\* it ends (in_send in _atspi_send_event): nothing waits any more once no event is being
\* dispatched.  The safety part of WithdrawnIsFreed.
THEOREM NothingWaitsInVain == Spec => []RemovalsWait
<1>1. SafeInv => RemovalsWait
  BY DEF SafeInv
<1> QED
  BY <1>1, Invariants, PTL

-----------------------------------------------------------------------------
(* Callbacks that were withdrawn *)

\* What the list does in any step: a new entry has a new id, and what waits to be
\* removed waits until it is.
ListEvolves ==
  /\ nextId \in Int /\ nextId' \in Int /\ nextId <= nextId'
  /\ \A e \in listeners' : e \in listeners \/ e.id >= nextId
  /\ \A e \in listeners' : e.id \in pending => e.id \in pending'

LEMMA Evolution ==
  ASSUME TypeOK, SafeInv, [Next]_vars
  PROVE  ListEvolves
<1>1. nextId \in Int /\ \A id \in pending : \E e \in listeners : e.id = id /\ e.id < nextId
  BY DEF TypeOK, Ids
<1>2. CASE UNCHANGED <<listeners, pending, nextId>>
  BY <1>1, <1>2 DEF ListEvolves
<1>3. ASSUME NEW c \in Callback, NEW t \in EventType, Register(c, t)
      PROVE  ListEvolves
  <2>1. /\ listeners' = listeners \cup {[id |-> nextId, callback |-> c, type |-> t]}
        /\ nextId' = nextId + 1 /\ pending' = pending
    BY <1>3 DEF Register
  <2>2. \A e \in listeners' : e \in listeners \/ e.id = nextId
    BY <2>1
  <2> QED
    BY <1>1, <2>1, <2>2 DEF ListEvolves
<1>4. CASE WalkRemoves
  <2>1. PICK e \in listeners : TakeOut(e)
    BY <1>4, WalkFacts
  <2>2. listeners' \subseteq listeners /\ pending \subseteq pending'
    BY <2>1, TakeOutFacts
  <2>3. nextId' = nextId
    BY <1>4 DEF WalkRemoves, bounds
  <2> QED
    BY <1>1, <2>2, <2>3 DEF ListEvolves
<1>5. CASE DispatchEnds
  <2>1. /\ \/ UNCHANGED <<listeners, pending>>
           \/ listeners' = {e \in listeners : e.id \notin pending} /\ pending' = {}
        /\ nextId' = nextId
    BY <1>5, ResolveFacts DEF DispatchEnds, Running, bounds
  <2> QED
    BY <1>1, <2>1 DEF ListEvolves
<1>6. \/ UNCHANGED <<listeners, pending, nextId>> \/ WalkRemoves \/ DispatchEnds
      \/ \E c \in Callback, t \in EventType : Register(c, t)
  BY DEF Next, Client, Library, Deregister, Arrive, Dispose, WalkIsLost, WalkEnds, ReplyArrives,
         BeginProcess, ProcessNext, ProcessEnds, CallCallback, CallbackReturns, vars, bounds
<1> QED
  BY <1>2, <1>3, <1>4, <1>5, <1>6

\* A deregistration in progress: of the entries it covers, those that it has not
\* come to are the only ones that do not wait yet.
Covers(i) ==
  stack[i].kind = "deregister" =>
    /\ \A id \in stack[i].covers : id < nextId
    /\ \A e \in listeners : e.id \in stack[i].covers =>
         /\ e.callback = stack[i].callback /\ IsSuperset(stack[i].type, e.type)
         /\ e.id \in pending \/ e.id <= stack[i].next

WithdrawnWait == \A id \in withdrawn : id < nextId /\ (id \in Ids => id \in pending)

WithdrawInv == WithdrawnWait /\ \A i \in DOMAIN stack : Covers(i)

LEMMA KeptCovers ==
  ASSUME TypeOK, WithdrawInv, ListEvolves, NEW k \in 0..2, NEW j \in 0..2, Kept(k, j),
         \A i \in DOMAIN stack' : i <= k => Covers(i)'
  PROVE  \A i \in DOMAIN stack' : Covers(i)'
<1> SUFFICES ASSUME NEW i \in DOMAIN stack', i > k
             PROVE  Covers(i)'
  BY DEF Kept
<1> DEFINE b == i - k + j
<1>1. b \in DOMAIN stack /\ stack'[i] = stack[b]
  BY DEF Kept
<1> HIDE DEF b
<1>2. CASE stack[b].kind = "deregister"
  <2>1. stack[b] \in Frame /\ stack[b].covers \subseteq Id
    BY <1>1, <1>2, FrameFields DEF TypeOK
  <2>2. \A id \in stack[b].covers : id \in Int /\ id < nextId
    BY <1>1, <1>2, <2>1 DEF WithdrawInv, Covers, Id
  <2>3. \A id \in stack[b].covers : id < nextId'
    BY <2>2 DEF ListEvolves
  <2>4. \A e \in listeners' : e.id \in stack[b].covers => e \in listeners
    BY <2>2 DEF ListEvolves
  <2>5. \A e \in listeners' : e.id \in stack[b].covers =>
          /\ e.callback = stack[b].callback /\ IsSuperset(stack[b].type, e.type)
          /\ e.id \in pending' \/ e.id <= stack[b].next
    BY <1>1, <1>2, <2>4 DEF WithdrawInv, Covers, ListEvolves
  <2> QED
    BY <1>1, <2>3, <2>5 DEF Covers
<1>3. CASE stack[b].kind # "deregister"
  BY <1>1, <1>3 DEF Covers
<1> QED
  BY <1>2, <1>3

LEMMA WithdrawnStay ==
  ASSUME TypeOK, WithdrawnWait, ListEvolves, withdrawn' = withdrawn
  PROVE  WithdrawnWait'
<1>1. \A id \in withdrawn : id \in Int /\ id < nextId
  BY DEF TypeOK, Id, WithdrawnWait
<1>2. \A id \in withdrawn : id < nextId'
  BY <1>1 DEF ListEvolves
<1>3. ASSUME NEW e \in listeners', e.id \in withdrawn
      PROVE  e.id \in pending'
  <2>1. e \in listeners
    BY <1>1, <1>3 DEF ListEvolves
  <2>2. e.id \in pending
    BY <1>3, <2>1 DEF WithdrawnWait, Ids
  <2> QED
    BY <2>2 DEF ListEvolves
<1> QED
  BY <1>2, <1>3 DEF WithdrawnWait, Ids

LEMMA WithdrawStep ==
  ASSUME TypeOK, SafeInv, WithdrawInv, [Next]_vars
  PROVE  WithdrawInv'
<1>1. ListEvolves
  BY Evolution
<1>2. ASSUME withdrawn' = withdrawn, NEW k \in 0..2, NEW j \in 0..2, Kept(k, j),
             \A i \in DOMAIN stack' : i <= k => stack'[i].kind # "deregister"
      PROVE  WithdrawInv'
  <2>1. \A i \in DOMAIN stack' : i <= k => Covers(i)'
    BY <1>2 DEF Covers
  <2> QED
    BY <1>1, <1>2, <2>1, KeptCovers, WithdrawnStay DEF WithdrawInv
<1>3. CASE UNCHANGED <<stack, withdrawn>>
  <2>1. Kept(0, 0)
    BY <1>3 DEF Kept, TypeOK
  <2>2. \A i \in DOMAIN stack' : i <= 0 => stack'[i].kind # "deregister"
    BY <2>1 DEF Kept
  <2> QED
    BY <1>2, <1>3, <2>1, <2>2
<1>4. ASSUME NEW c \in Callback, NEW t \in EventType, Deregister(c, t)
      PROVE  WithdrawInv'
  <2>1. /\ Kept(1, 0) /\ stack'[1].callback = c /\ stack'[1].type = t
        /\ stack'[1].next = Largest(Ids) /\ \A d \in listeners : d.id <= Largest(Ids)
        /\ stack'[1].covers = {e.id : e \in Matched(c, t)} /\ stack'[1].covers \subseteq Ids
    BY <1>4, DeregisterFacts
  <2>2. UNCHANGED <<listeners, pending, nextId, withdrawn>>
    BY <1>4 DEF Deregister
  <2>3. \A id \in stack'[1].covers : id < nextId
    <3>1. \A id \in Ids : id < nextId
      BY DEF Ids, TypeOK
    <3> QED
      BY <2>1, <3>1
  <2>4. \A e \in listeners : e.id \in stack'[1].covers => e \in Matched(c, t)
    BY <2>1 DEF TypeOK, Matched
  <2>5. Covers(1)'
    BY <2>1, <2>2, <2>3, <2>4 DEF Covers, Matched
  <2>6. \A i \in DOMAIN stack' : i <= 1 => Covers(i)'
    BY <2>1, <2>5 DEF Kept
  <2> QED
    BY <1>1, <2>1, <2>2, <2>6, KeptCovers, WithdrawnStay DEF WithdrawInv
<1>5. CASE WalkRemoves
  <2>1. PICK e \in listeners :
          /\ stack # <<>> /\ stack[1].kind = "deregister"
          /\ e \in Matched(stack[1].callback, stack[1].type) /\ e.id <= stack[1].next
          /\ \A d \in Matched(stack[1].callback, stack[1].type) :
               d.id <= e.id \/ stack[1].next < d.id
          /\ TakeOut(e)
          /\ Kept(1, 1) /\ stack'[1].kind = "deregister"
          /\ stack'[1].callback = stack[1].callback /\ stack'[1].type = stack[1].type
          /\ stack'[1].covers = stack[1].covers /\ stack'[1].next = After(e.id)
    BY <1>5, WalkFacts
  <2>2. 1 \in DOMAIN stack /\ stack[1] \in Frame /\ Covers(1)
    BY <2>1 DEF WithdrawInv, TypeOK
  <2>3. withdrawn' = withdrawn /\ nextId' = nextId
    BY <1>5 DEF WalkRemoves, bounds
  <2>4. ASSUME NEW d \in listeners', d.id \in stack[1].covers
        PROVE  /\ d.callback = stack[1].callback /\ IsSuperset(stack[1].type, d.type)
               /\ d.id \in pending' \/ d.id <= After(e.id)
    <3>1. d \in listeners /\ pending \subseteq pending' /\ (e \in listeners' => e.id \in pending')
      BY <2>1, <2>4, TakeOutFacts
    <3>2. /\ d.callback = stack[1].callback /\ IsSuperset(stack[1].type, d.type)
          /\ d.id \in pending \/ d.id <= stack[1].next
      BY <2>1, <2>2, <2>4, <3>1 DEF Covers
    <3>3. d \in Matched(stack[1].callback, stack[1].type)
      BY <3>1, <3>2 DEF Matched
    <3>4. /\ d.id \in Int /\ e.id \in Int /\ stack[1].next \in Int /\ e.id \in Id
          /\ After(e.id) \in Int
      BY <2>1, <2>2, <3>1, IdFacts, FrameFields DEF Ids, Id
    <3>5. d.id <= After(e.id) \/ e.id <= d.id
      BY <3>1, <3>4, IdFacts DEF Ids
    <3>6. CASE d.id = e.id
      BY <2>1, <2>4, <3>1, <3>2, <3>6 DEF TypeOK
    <3>7. CASE d.id > e.id
      <4>1. ~(d.id <= stack[1].next)
        BY <2>1, <3>3, <3>4, <3>7
      <4> QED
        BY <3>1, <3>2, <4>1
    <3> QED
      BY <3>2, <3>4, <3>5, <3>6, <3>7
  <2>5. Covers(1)'
    BY <2>1, <2>2, <2>3, <2>4 DEF Covers
  <2>6. \A i \in DOMAIN stack' : i <= 1 => Covers(i)'
    BY <2>1, <2>5 DEF Kept
  <2> QED
    BY <1>1, <2>1, <2>3, <2>6, KeptCovers, WithdrawnStay DEF WithdrawInv
<1>6. CASE WalkEnds
  <2>1. /\ stack # <<>> /\ stack[1] \in Frame /\ stack[1].kind = "deregister" /\ Pop
        /\ 1 \in DOMAIN stack /\ Head(stack) = stack[1]
    BY <1>6 DEF WalkEnds, Running, TypeOK
  <2>2. /\ withdrawn' = withdrawn \cup stack[1].covers
        /\ UNCHANGED <<listeners, pending, nextId>>
        /\ \A e \in Matched(stack[1].callback, stack[1].type) : stack[1].next < e.id
    BY <1>6, <2>1 DEF WalkEnds, bounds
  <2>3. Kept(0, 1)
    BY <2>1, PopKeeps DEF TypeOK
  <2>4. Covers(1) /\ \A i \in DOMAIN stack' : i <= 0 => Covers(i)'
    BY <2>1, <2>3 DEF WithdrawInv, Kept
  <2>5. ASSUME NEW e \in listeners, e.id \in stack[1].covers
        PROVE  e.id \in pending
    <3>1. /\ e.callback = stack[1].callback /\ IsSuperset(stack[1].type, e.type)
          /\ e.id \in pending \/ e.id <= stack[1].next
      BY <2>1, <2>4, <2>5 DEF Covers
    <3>2. stack[1].next < e.id
      BY <2>2, <3>1 DEF Matched
    <3>3. e.id \in Int /\ stack[1].next \in Int
      BY <2>1, IdFacts, FrameFields DEF Ids, Id
    <3> QED
      BY <3>1, <3>2, <3>3
  <2>6. \A id \in stack[1].covers : id < nextId
    BY <2>1, <2>4 DEF Covers
  <2>7. WithdrawnWait'
    BY <2>2, <2>5, <2>6 DEF WithdrawnWait, WithdrawInv, Ids
  <2> QED
    BY <1>1, <2>3, <2>4, <2>7, KeptCovers DEF WithdrawInv
<1>7. CASE ReplyArrives
  <2>1. PICK k \in {1, 2} :
          /\ Kept(k, 1) /\ stack # <<>> /\ stack[1].kind = "deregister"
          /\ k = 2 => stack'[1].kind = "process"
          /\ stack'[k].callback = stack[1].callback /\ stack'[k].type = stack[1].type
          /\ stack'[k].covers = stack[1].covers /\ stack'[k].next = stack[1].next
    BY <1>7, ReplyFacts
  <2>2. UNCHANGED <<listeners, pending, nextId, withdrawn>>
    BY <1>7 DEF ReplyArrives, bounds
  <2>3. Covers(1)
    BY <2>1 DEF WithdrawInv, Kept
  <2>4. Covers(k)'
    BY <2>1, <2>2, <2>3 DEF Covers
  <2>5. \A i \in DOMAIN stack' : i <= k => i = k \/ (i = 1 /\ k = 2)
    BY <2>1 DEF Kept
  <2>6. \A i \in DOMAIN stack' : i <= k => Covers(i)'
    BY <2>1, <2>4, <2>5 DEF Covers
  <2> QED
    BY <1>1, <2>1, <2>2, <2>6, KeptCovers, WithdrawnStay DEF WithdrawInv
<1>8. CASE Dispose \/ ProcessNext
  <2>1. Kept(1, 0) /\ \E e \in Event : stack'[1] = SendEvent(e)
    BY <1>8, DisposeFacts, ProcessNextFacts
  <2>2. stack'[1].kind = "dispatch" /\ withdrawn' = withdrawn
    BY <1>8, <2>1, SendEventFrame DEF Dispose, ProcessNext
  <2>3. \A i \in DOMAIN stack' : i <= 1 => stack'[i].kind # "deregister"
    BY <2>1, <2>2 DEF Kept
  <2> QED
    BY <1>2, <2>1, <2>2, <2>3
<1>9. CASE BeginProcess
  <2>1. Push([kind |-> "process"]) /\ [kind |-> "process"] \in Frame /\ withdrawn' = withdrawn
    BY <1>9 DEF BeginProcess, Frame
  <2>2. Kept(1, 0) /\ stack'[1].kind = "process"
    BY <2>1, PushKeeps DEF TypeOK
  <2>3. \A i \in DOMAIN stack' : i <= 1 => stack'[i].kind # "deregister"
    BY <2>2 DEF Kept
  <2> QED
    BY <1>2, <2>1, <2>2, <2>3
<1>10. CASE ProcessEnds \/ DispatchEnds
  <2>1. Kept(0, 1) /\ withdrawn' = withdrawn
    BY <1>10, PopKeeps DEF ProcessEnds, DispatchEnds, Running, TypeOK
  <2>2. \A i \in DOMAIN stack' : i <= 0 => stack'[i].kind # "deregister"
    BY <2>1 DEF Kept
  <2> QED
    BY <1>2, <2>1, <2>2
<1>11. CASE CallCallback
  <2>1. PICK e \in listeners :
          /\ stack # <<>> /\ stack[1].kind = "dispatch" /\ Kept(2, 1)
          /\ stack'[1].kind = "callback" /\ stack'[2] = [stack[1] EXCEPT !.at = e.id]
    BY <1>11, CallFacts
  <2>2. e.id \in Id /\ withdrawn' = withdrawn
    BY <1>11, IdFacts DEF CallCallback, Ids
  <2>3. stack'[2].kind = "dispatch"
    BY <2>1, <2>2, FrameFields DEF TypeOK
  <2>4. \A i \in DOMAIN stack' : i <= 2 => i = 1 \/ i = 2
    BY <2>1 DEF Kept
  <2>5. \A i \in DOMAIN stack' : i <= 2 => stack'[i].kind # "deregister"
    BY <2>1, <2>3, <2>4
  <2> QED
    BY <1>2, <2>1, <2>2, <2>5
<1>12. CASE CallbackReturns
  <2>1. Kept(1, 2) /\ stack'[1].kind = "dispatch" /\ withdrawn' = withdrawn
    BY <1>12, ReturnFacts DEF SafeInv, CallbackReturns
  <2>2. \A i \in DOMAIN stack' : i <= 1 => stack'[i].kind # "deregister"
    BY <2>1 DEF Kept
  <2> QED
    BY <1>2, <2>1, <2>2
<1>13. ASSUME NEW c \in Callback, NEW t \in EventType, Register(c, t)
       PROVE  UNCHANGED <<stack, withdrawn>>
  BY <1>13 DEF Register
<1>14. ASSUME NEW e \in Event, Arrive(e)
       PROVE  UNCHANGED <<stack, withdrawn>>
  BY <1>14 DEF Arrive
<1>15. WalkIsLost \/ UNCHANGED vars => UNCHANGED <<stack, withdrawn>>
  BY DEF WalkIsLost, vars
<1> QED
  BY <1>3, <1>4, <1>5, <1>6, <1>7, <1>8, <1>9, <1>10, <1>11, <1>12, <1>13, <1>14, <1>15
     DEF Next, Client, Library

LEMMA Withdrawals == Spec => []WithdrawInv
<1>1. Init => WithdrawInv
  BY DEF Init, WithdrawInv, WithdrawnWait
<1>2. TypeOK /\ SafeInv /\ WithdrawInv /\ [Next]_vars => WithdrawInv'
  BY WithdrawStep
<1> QED
  BY <1>1, <1>2, Invariants, PTL DEF Spec

\* Only CallCallback calls a callback.
LEMMA WhoCalls ==
  ASSUME TypeOK, SafeInv, [Next]_vars, Calls
  PROVE  CallCallback
<1>1. Len(stack') > Len(stack) /\ Head(stack').kind = "callback" /\ Len(stack) \in Nat
      /\ stack \in Seq(Frame) /\ stack' \in Seq(Frame)
  BY TypeStep DEF Calls, TypeOK
<1>2. stack'[1].kind = "callback" /\ stack' # stack
  BY <1>1
<1>3. \A c \in Callback, t \in EventType : ~Deregister(c, t)
  BY <1>2, DeregisterFacts
<1>4. ~Dispose /\ ~ProcessNext
  BY <1>2, DisposeFacts, ProcessNextFacts, SendEventFrame
<1>5. ~ReplyArrives
  <2> SUFFICES ASSUME ReplyArrives PROVE FALSE
    OBVIOUS
  <2>1. PICK k \in {1, 2} : (k = 2 => stack'[1].kind = "process") /\ stack'[k].kind = "deregister"
    BY ReplyFacts
  <2> QED
    BY <1>2, <2>1
<1>6. ~BeginProcess
  <2>1. [kind |-> "process"] \in Frame
    BY DEF Frame
  <2> QED
    BY <1>1, <1>2, <2>1, PushKeeps DEF BeginProcess
<1>7. ~WalkRemoves
  BY <1>2, WalkFacts
<1>8. ~WalkEnds /\ ~ProcessEnds /\ ~DispatchEnds
  BY <1>1, PopKeeps DEF WalkEnds, ProcessEnds, DispatchEnds, Running, Kept
<1>9. ~CallbackReturns
  BY <1>2, ReturnFacts DEF SafeInv
<1>10. ~WalkIsLost /\ ~(UNCHANGED vars) /\ (\A c \in Callback, t \in EventType : ~Register(c, t))
       /\ \A e \in Event : ~Arrive(e)
  BY <1>2 DEF WalkIsLost, vars, Register, Arrive
<1> QED
  BY <1>3, <1>4, <1>5, <1>6, <1>7, <1>8, <1>9, <1>10 DEF Next, Client, Library

\* A registration whose withdrawal has returned calls nothing any more, whoever
\* withdrew it and whatever is being dispatched.
THEOREM WithdrawnNotCalled == Spec => NotCalledOnceWithdrawn
<1>1. TypeOK /\ SafeInv /\ WithdrawInv /\ [Next]_vars
      => [Calls => Head(stack').id \notin withdrawn]_vars
  <2> SUFFICES ASSUME TypeOK, SafeInv, WithdrawInv, [Next]_vars, Calls
               PROVE  Head(stack').id \notin withdrawn
    OBVIOUS
  <2>1. PICK e \in listeners :
          e \in Callable(stack[1]) /\ stack'[1].id = e.id /\ Kept(2, 1)
    BY WhoCalls, CallFacts
  <2>2. e.id \notin pending /\ e.id \in Ids
    BY <2>1 DEF Callable, Ids
  <2>3. e.id \notin withdrawn
    BY <2>2 DEF WithdrawInv, WithdrawnWait
  <2>4. Head(stack') = stack'[1]
    BY <2>1 DEF Kept
  <2> QED
    BY <2>1, <2>3, <2>4
<1> QED
  BY <1>1, Invariants, Withdrawals, PTL DEF Spec, NotCalledOnceWithdrawn

-----------------------------------------------------------------------------
(* Events reach every callback *)

\* A dispatch in progress: above the entry that it is at, no callback was missed.
Reaches(i) ==
  stack[i].kind = "dispatch" =>
    /\ stack[i].begun <= nextId
    /\ \A e \in listeners :
         (/\ stack[i].at < e.id /\ e.id < stack[i].begun
          /\ IsSuperset(e.type, stack[i].event) /\ e.id \notin pending)
         => e.callback \in stack[i].called

\* A callback in progress: it is that of the entry its dispatch is at.
CalledFor(i) ==
  stack[i].kind = "callback" =>
    /\ stack[i + 1].at = stack[i].id
    /\ \A e \in listeners : e.id = stack[i].id => e.callback = stack[i].callback

ReachInv == \A i \in DOMAIN stack : Reaches(i) /\ CalledFor(i)

LEMMA KeptReaches ==
  ASSUME TypeOK, TypeOK', SafeInv, ReachInv, ListEvolves,
         NEW k \in 0..2, NEW j \in 0..2, Kept(k, j),
         \A i \in DOMAIN stack' : i <= k => Reaches(i)' /\ CalledFor(i)'
  PROVE  ReachInv'
<1> SUFFICES ASSUME NEW i \in DOMAIN stack', i > k
             PROVE  Reaches(i)' /\ CalledFor(i)'
  BY DEF Kept, ReachInv
<1> DEFINE b == i - k + j
<1>1. /\ b \in DOMAIN stack /\ stack'[i] = stack[b] /\ stack[b] \in Frame
      /\ Reaches(b) /\ CalledFor(b) /\ CalledRight(b) /\ HoldsEntry(b)
  BY DEF Kept, TypeOK, ReachInv, SafeInv, InnerCalls
<1>2. b < Len(stack) => stack'[i + 1] = stack[b + 1]
  <2>1. /\ i \in Int /\ Len(stack) \in Nat /\ Len(stack') = Len(stack) - j + k
        /\ DOMAIN stack' = 1..Len(stack')
    BY DEF Kept
  <2> SUFFICES ASSUME b < Len(stack) PROVE stack'[i + 1] = stack[b + 1]
    OBVIOUS
  <2>2. i + 1 \in DOMAIN stack' /\ i + 1 > k
    BY <2>1
  <2>3. stack'[i + 1] = stack[(i + 1) - k + j]
    BY <2>2 DEF Kept
  <2>4. (i + 1) - k + j = b + 1
    BY <2>1
  <2> QED
    BY <2>3, <2>4
<1> HIDE DEF b
<1>3. \A e \in listeners : e.id \in Int
  BY IdFacts DEF Ids, Id
<1>4. CASE stack[b].kind = "dispatch"
  <2>1. stack[b].begun \in Int /\ stack[b].begun <= nextId
    BY <1>1, <1>4, FrameFields DEF Reaches
  <2>2. stack[b].begun <= nextId'
    BY <2>1 DEF ListEvolves
  <2>3. ASSUME NEW e \in listeners',
               stack[b].at < e.id, e.id < stack[b].begun,
               IsSuperset(e.type, stack[b].event), e.id \notin pending'
        PROVE  e.callback \in stack[b].called
    <3>1. e \in listeners
      <4>1. e \in listeners \/ e.id >= nextId
        BY DEF ListEvolves
      <4>2. e.id \in Int
        BY DEF TypeOK, Entry, Id
      <4> QED
        BY <2>1, <2>3, <4>1, <4>2 DEF ListEvolves
    <3>2. e.id \notin pending
      BY <2>3 DEF ListEvolves
    <3> QED
      BY <1>1, <1>4, <2>3, <3>1, <3>2 DEF Reaches
  <2>4. Reaches(i)'
    BY <1>1, <2>2, <2>3 DEF Reaches
  <2>5. CalledFor(i)'
    BY <1>1, <1>4 DEF CalledFor
  <2> QED
    BY <2>4, <2>5
<1>5. CASE stack[b].kind = "callback"
  <2>1. b < Len(stack) /\ stack[b].id \in Ids
    BY <1>1, <1>5 DEF CalledRight, HoldsEntry
  <2>2. stack'[i + 1].at = stack'[i].id
    BY <1>1, <1>2, <1>5, <2>1 DEF CalledFor
  <2>3. stack[b].id \in Int /\ stack[b].id < nextId
    BY <2>1, <1>3 DEF Ids, TypeOK
  <2>4. \A e \in listeners' : e.id = stack[b].id => e \in listeners
    BY <2>3 DEF ListEvolves
  <2>5. CalledFor(i)'
    BY <1>1, <1>5, <2>2, <2>4 DEF CalledFor
  <2>6. Reaches(i)'
    BY <1>1, <1>5 DEF Reaches
  <2> QED
    BY <2>5, <2>6
<1>6. CASE stack[b].kind \notin {"dispatch", "callback"}
  BY <1>1, <1>6 DEF Reaches, CalledFor
<1> QED
  BY <1>4, <1>5, <1>6

\* Comparing part by part is comparing the beginning.
LEMMA MatchesIsSuperset ==
  ASSUME NEW event \in Event, NEW type \in EventType, IsSuperset(type, event)
  PROVE  Matches(event, type)
<1>1. event \in Seq(STRING) /\ type \in Seq(STRING) /\ Len(type) <= Len(event)
      /\ \A i \in 1..Len(type) : type[i] = event[i]
  BY EventAssumption DEF IsSuperset
<1>2. /\ SubSeq(event, 1, Len(type)) \in Seq(STRING)
      /\ Len(SubSeq(event, 1, Len(type))) = Len(type)
      /\ \A i \in 1..Len(type) : SubSeq(event, 1, Len(type))[i] = event[i]
  BY <1>1
<1>3. SubSeq(event, 1, Len(type)) = type
  BY <1>1, <1>2, SeqEqual
<1> QED
  BY <1>1, <1>3 DEF Matches

LEMMA ReachStep ==
  ASSUME TypeOK, SafeInv, ReachInv, [Next]_vars
  PROVE  ReachInv'
<1>1. ListEvolves /\ TypeOK'
  BY Evolution, TypeStep
<1>2. ASSUME NEW k \in 0..2, NEW j \in 0..2, Kept(k, j),
             \A i \in DOMAIN stack' : i <= k => stack'[i].kind \notin {"dispatch", "callback"}
      PROVE  ReachInv'
  <2>1. \A i \in DOMAIN stack' : i <= k => Reaches(i)' /\ CalledFor(i)'
    BY <1>2 DEF Reaches, CalledFor
  <2> QED
    BY <1>1, <1>2, <2>1, KeptReaches
<1>3. CASE stack' = stack
  <2>1. Kept(0, 0)
    BY <1>3 DEF Kept, TypeOK
  <2>2. \A i \in DOMAIN stack' : i <= 0 => stack'[i].kind \notin {"dispatch", "callback"}
    BY <2>1 DEF Kept
  <2> QED
    BY <1>2, <2>1, <2>2
<1>4. ASSUME NEW c \in Callback, NEW t \in EventType, Deregister(c, t)
      PROVE  ReachInv'
  <2>1. Kept(1, 0) /\ stack'[1].kind = "deregister"
    BY <1>4, DeregisterFacts
  <2>2. \A i \in DOMAIN stack' : i <= 1 => stack'[i].kind \notin {"dispatch", "callback"}
    BY <2>1 DEF Kept
  <2> QED
    BY <1>2, <2>1, <2>2
<1>5. CASE WalkRemoves
  <2>1. Kept(1, 1) /\ stack'[1].kind = "deregister"
    BY <1>5, WalkFacts
  <2>2. \A i \in DOMAIN stack' : i <= 1 => stack'[i].kind \notin {"dispatch", "callback"}
    BY <2>1 DEF Kept
  <2> QED
    BY <1>2, <2>1, <2>2
<1>6. CASE WalkEnds \/ ProcessEnds \/ DispatchEnds
  <2>1. Kept(0, 1)
    BY <1>6, PopKeeps DEF WalkEnds, ProcessEnds, DispatchEnds, Running, TypeOK
  <2>2. \A i \in DOMAIN stack' : i <= 0 => stack'[i].kind \notin {"dispatch", "callback"}
    BY <2>1 DEF Kept
  <2> QED
    BY <1>2, <2>1, <2>2
<1>7. CASE ReplyArrives
  <2>1. PICK k \in {1, 2} :
          /\ Kept(k, 1)
          /\ k = 2 => stack'[1].kind = "process"
          /\ stack'[k].kind = "deregister"
    BY <1>7, ReplyFacts
  <2>2. \A i \in DOMAIN stack' : i <= k => i = k \/ (i = 1 /\ k = 2)
    BY <2>1 DEF Kept
  <2>3. \A i \in DOMAIN stack' : i <= k => stack'[i].kind \notin {"dispatch", "callback"}
    BY <2>1, <2>2
  <2> QED
    BY <1>2, <2>1, <2>3
<1>8. CASE BeginProcess
  <2>1. Push([kind |-> "process"]) /\ [kind |-> "process"] \in Frame
    BY <1>8 DEF BeginProcess, Frame
  <2>2. Kept(1, 0) /\ stack'[1].kind = "process"
    BY <2>1, PushKeeps DEF TypeOK
  <2>3. \A i \in DOMAIN stack' : i <= 1 => stack'[i].kind \notin {"dispatch", "callback"}
    BY <2>2 DEF Kept
  <2> QED
    BY <1>2, <2>2, <2>3
<1>9. CASE Dispose \/ ProcessNext
  <2>1. PICK e \in Event : stack'[1] = SendEvent(e) /\ Kept(1, 0)
    BY <1>9, DisposeFacts, ProcessNextFacts
  <2>2. /\ stack'[1].kind = "dispatch" /\ stack'[1].begun = nextId
        /\ \A d \in listeners : d.id <= stack'[1].at
    BY <2>1, SendEventFrame
  <2>3. UNCHANGED <<listeners, pending, nextId>>
    BY <1>9 DEF Dispose, ProcessNext, bounds
  <2>4. \A d \in listeners : d.id \in Int /\ stack'[1].at \in Int
    BY <2>1, SendEventFrame, IdFacts DEF Ids, Id
  <2>5. Reaches(1)' /\ CalledFor(1)'
    <3>1. \A d \in listeners : ~(stack'[1].at < d.id)
      BY <2>2, <2>4
    <3>2. nextId <= nextId
      BY DEF TypeOK
    <3> QED
      BY <2>2, <2>3, <3>1, <3>2 DEF Reaches, CalledFor
  <2>6. \A i \in DOMAIN stack' : i <= 1 => Reaches(i)' /\ CalledFor(i)'
    BY <2>1, <2>5 DEF Kept
  <2> QED
    BY <1>1, <2>1, <2>6, KeptReaches
<1>10. CASE CallCallback
  <2>1. PICK e \in listeners :
          /\ stack # <<>> /\ stack[1].kind = "dispatch" /\ Kept(2, 1)
          /\ \A d \in Callable(stack[1]) : d.id <= e.id
          /\ stack'[1].kind = "callback" /\ stack'[1].id = e.id
          /\ stack'[1].callback = e.callback
          /\ stack'[2] = [stack[1] EXCEPT !.at = e.id]
    BY <1>10, CallFacts
  <2>2. 1 \in DOMAIN stack /\ stack[1] \in Frame /\ e.id \in Id /\ Reaches(1)
    BY <2>1, IdFacts DEF TypeOK, Ids, ReachInv
  <2>3. /\ stack'[2].kind = "dispatch" /\ stack'[2].at = e.id
        /\ stack'[2].event = stack[1].event /\ stack'[2].called = stack[1].called
        /\ stack'[2].begun = stack[1].begun /\ stack[1].event \in Event
        /\ stack[1].at \in Id \cup {0}
    BY <2>1, <2>2, FrameFields
  <2>4. UNCHANGED <<listeners, pending, nextId>>
    BY <1>10 DEF CallCallback, bounds
  <2>5. CalledFor(1)' /\ Reaches(1)'
    <3>1. \A d \in listeners : d.id = e.id => d.callback = e.callback
      BY DEF TypeOK
    <3>2. 1 + 1 = 2
      OBVIOUS
    <3>3. CalledFor(1)'
      BY <2>1, <2>3, <2>4, <3>1, <3>2 DEF CalledFor
    <3> QED
      BY <2>1, <3>3 DEF Reaches
  <2>6. ASSUME NEW d \in listeners,
               e.id < d.id, d.id < stack[1].begun,
               IsSuperset(d.type, stack[1].event), d.id \notin pending
        PROVE  d.callback \in stack[1].called
    <3>1. d.id \in Int /\ e.id \in Int /\ stack[1].at \in Int /\ d.type \in EventType
      BY <2>2, <2>3, IdFacts DEF Ids, Id, TypeOK, Entry
    <3>2. CASE stack[1].at < d.id
      BY <2>1, <2>2, <2>6, <3>2 DEF Reaches
    <3>3. CASE d.id <= stack[1].at
      <4>1. Matches(stack[1].event, d.type)
        BY <2>3, <2>6, <3>1, MatchesIsSuperset
      <4>2. d.callback \notin stack[1].called => d \in Callable(stack[1])
        BY <2>6, <3>3, <4>1 DEF Callable
      <4>3. ~(d.id <= e.id)
        BY <2>6, <3>1
      <4> QED
        BY <2>1, <4>2, <4>3
    <3> QED
      BY <3>1, <3>2, <3>3
  <2>7. Reaches(2)' /\ CalledFor(2)'
    BY <2>1, <2>2, <2>3, <2>4, <2>6 DEF Reaches, CalledFor
  <2>8. \A i \in DOMAIN stack' : i <= 2 => i = 1 \/ i = 2
    BY <2>1 DEF Kept
  <2>9. \A i \in DOMAIN stack' : i <= 2 => Reaches(i)' /\ CalledFor(i)'
    BY <2>5, <2>7, <2>8
  <2> QED
    BY <1>1, <2>1, <2>9, KeptReaches
<1>11. CASE CallbackReturns
  <2>1. /\ Len(stack) >= 2 /\ Kept(1, 2)
        /\ stack[1].kind = "callback" /\ stack[2].kind = "dispatch"
        /\ stack[1].id \in Id
        /\ stack'[1].kind = "dispatch" /\ stack'[1].at = After(stack[1].id)
        /\ stack'[1].event = stack[2].event /\ stack'[1].begun = stack[2].begun
        /\ stack'[1].called = stack[2].called \cup {stack[1].callback}
    BY <1>11, ReturnFacts DEF SafeInv
  <2>2. UNCHANGED <<listeners, pending, nextId>>
    BY <1>11 DEF CallbackReturns, bounds
  <2>3. 1 \in DOMAIN stack /\ 2 \in DOMAIN stack /\ 1 + 1 = 2
    BY <2>1 DEF Kept
  <2>4. Reaches(2) /\ CalledFor(1)
    BY <2>3 DEF ReachInv
  <2>5. ASSUME NEW e \in listeners,
               After(stack[1].id) < e.id, e.id < stack[2].begun,
               IsSuperset(e.type, stack[2].event), e.id \notin pending
        PROVE  e.callback \in stack[2].called \cup {stack[1].callback}
    <3>1. e.id \in Ids /\ e.id \in Int /\ stack[1].id \in Int /\ After(stack[1].id) \in Int
      BY <2>1, IdFacts DEF Ids, Id
    <3>2. stack[1].id <= e.id
      BY <2>1, <2>5, <3>1, IdFacts
    <3>3. CASE e.id = stack[1].id
      BY <2>1, <2>4, <3>3 DEF CalledFor
    <3>4. CASE stack[1].id < e.id
      <4>1. stack[2].at = stack[1].id
        BY <2>1, <2>3, <2>4 DEF CalledFor
      <4> QED
        BY <2>1, <2>4, <2>5, <3>4, <4>1 DEF Reaches
    <3> QED
      BY <3>1, <3>2, <3>3, <3>4
  <2>6. Reaches(1)' /\ CalledFor(1)'
    BY <2>1, <2>2, <2>4, <2>5 DEF Reaches, CalledFor
  <2>7. \A i \in DOMAIN stack' : i <= 1 => Reaches(i)' /\ CalledFor(i)'
    BY <2>1, <2>6 DEF Kept
  <2> QED
    BY <1>1, <2>1, <2>7, KeptReaches
<1>12. ASSUME NEW c \in Callback, NEW t \in EventType, Register(c, t)
       PROVE  stack' = stack
  BY <1>12 DEF Register
<1>13. ASSUME NEW e \in Event, Arrive(e)
       PROVE  stack' = stack
  BY <1>13 DEF Arrive
<1>14. WalkIsLost \/ UNCHANGED vars => stack' = stack
  BY DEF WalkIsLost, vars
<1> QED
  BY <1>3, <1>4, <1>5, <1>6, <1>7, <1>8, <1>9, <1>10, <1>11, <1>12, <1>13, <1>14
     DEF Next, Client, Library

LEMMA Reached == Spec => []ReachInv
<1>1. Init => ReachInv
  BY DEF Init, ReachInv
<1>2. TypeOK /\ SafeInv /\ ReachInv /\ [Next]_vars => ReachInv'
  BY ReachStep
<1> QED
  BY <1>1, <1>2, Invariants, PTL DEF Spec

\* Only DispatchEnds ends a dispatch.
LEMMA WhoEnds ==
  ASSUME TypeOK, SafeInv, [Next]_vars, Ends
  PROVE  DispatchEnds
<1>1. /\ stack # <<>> /\ stack \in Seq(Frame) /\ Head(stack).kind = "dispatch"
      /\ stack[1].kind = "dispatch" /\ Len(stack') = Len(stack) - 1 /\ Len(stack) \in Nat
  BY DEF Ends, TypeOK
<1>2. stack' # stack
  BY <1>1
<1>3. ~MayCall /\ ~Running("deregister") /\ ~Running("process") /\ ~Running("callback")
  BY <1>1 DEF MayCall, Running
<1>4. ~CallCallback
  <2>1. CallCallback => Kept(2, 1)
    BY CallFacts
  <2> QED
    BY <1>1, <2>1 DEF Kept
<1>5. ~BeginProcess /\ ~(UNCHANGED vars)
  BY <1>1, <1>2 DEF BeginProcess, vars
<1> QED
  BY <1>3, <1>4, <1>5
     DEF Next, Client, Library, Register, Deregister, Arrive, Dispose, WalkRemoves, WalkIsLost,
         WalkEnds, ReplyArrives, ProcessNext, ProcessEnds, CallbackReturns

\* When a dispatch ends, it has called every callback with a registration for the
\* event that is as old as the dispatch and was not withdrawn, whatever callbacks
\* registered, withdrew and dispatched meanwhile.
THEOREM EveryCallbackReached == Spec => EventReachesAll
<1> DEFINE NoneMissed ==
      \A e \in listeners :
        (e.id < Head(stack).begun /\ IsSuperset(e.type, Head(stack).event)
           /\ e.id \notin pending) => e.callback \in Head(stack).called
<1>1. TypeOK /\ SafeInv /\ ReachInv /\ [Next]_vars => [Ends => NoneMissed]_vars
  <2> SUFFICES ASSUME TypeOK, SafeInv, ReachInv, [Next]_vars, Ends,
                      NEW e \in listeners,
                      e.id < Head(stack).begun, IsSuperset(e.type, Head(stack).event),
                      e.id \notin pending
               PROVE  e.callback \in Head(stack).called
    OBVIOUS
  <2>1. /\ Callable(Head(stack)) = {} /\ stack # <<>> /\ stack \in Seq(Frame)
        /\ Head(stack).kind = "dispatch"
    BY WhoEnds DEF DispatchEnds, Running, TypeOK
  <2>2. Head(stack) = stack[1] /\ 1 \in DOMAIN stack /\ stack[1] \in Frame /\ Reaches(1)
    BY <2>1 DEF ReachInv
  <2>3. /\ e.id \in Int /\ stack[1].at \in Int /\ e.type \in EventType
        /\ stack[1].event \in Event
    BY <2>1, <2>2, IdFacts, FrameFields DEF Ids, Id, TypeOK, Entry
  <2>4. CASE stack[1].at < e.id
    BY <2>1, <2>2, <2>4 DEF Reaches
  <2>5. CASE e.id <= stack[1].at
    <3>1. Matches(stack[1].event, e.type)
      BY <2>2, <2>3, MatchesIsSuperset
    <3> QED
      BY <2>1, <2>2, <2>5, <3>1 DEF Callable
  <2> QED
    BY <2>3, <2>4, <2>5
<1> QED
  BY <1>1, Invariants, Reached, PTL DEF Spec, EventReachesAll

-----------------------------------------------------------------------------
(* The match rules of careful clients *)

\* A deregistration in progress: the entries that it will come to were registered
\* with its type, and none of them has been withdrawn yet.
WalksWell(i) ==
  stack[i].kind = "deregister" =>
    /\ stack[i].next < nextId
    /\ \A e \in Matched(stack[i].callback, stack[i].type) :
         e.id <= stack[i].next => e.type = stack[i].type /\ e.id \notin pending

\* No two of them are about the same callback.
Rival(f, g) ==
  f.kind = "deregister" /\ g.kind = "deregister" /\ f.callback = g.callback

WalksApart == \A h, i \in DOMAIN stack : Rival(stack[h], stack[i]) => h = i

WalkInv == WalksApart /\ \A i \in DOMAIN stack : WalksWell(i)

\* What a step must show for the frames it puts on the stack, and of what it lets
\* wait to be removed.
LEMMA KeptWalks ==
  ASSUME TypeOK, TypeOK', WalkInv, ListEvolves, NEW k \in 0..2, NEW j \in 0..2, Kept(k, j),
         \A i \in DOMAIN stack : \A e \in listeners' :
           i > j /\ stack[i].kind = "deregister" /\ e.id \in pending'
             => e.id \in pending \/ e.callback # stack[i].callback,
         \A i \in DOMAIN stack' : i <= k =>
           /\ WalksWell(i)'
           /\ \A h \in DOMAIN stack : h > j => ~Rival(stack[h], stack'[i])
           /\ \A h \in DOMAIN stack' : h <= k /\ Rival(stack'[h], stack'[i]) => h = i
  PROVE  WalkInv'
<1>1. /\ \A i \in DOMAIN stack' : i \in Int
      /\ \A i \in DOMAIN stack' : i > k =>
           /\ i - k + j \in DOMAIN stack /\ i - k + j > j
           /\ stack'[i] = stack[i - k + j]
  BY DEF Kept
<1>2. ASSUME NEW i \in DOMAIN stack', i > k
      PROVE  WalksWell(i)'
  <2> DEFINE b == i - k + j
  <2>1. b \in DOMAIN stack /\ b > j /\ stack'[i] = stack[b] /\ WalksWell(b)
    BY <1>1, <1>2 DEF WalkInv
  <2> HIDE DEF b
  <2>2. CASE stack[b].kind = "deregister"
    <3>1. stack[b].next \in Int /\ stack[b].next < nextId
      BY <2>1, <2>2, FrameFields DEF TypeOK, WalksWell, Id
    <3>2. stack[b].next < nextId'
      BY <3>1 DEF ListEvolves
    <3>3. ASSUME NEW e \in listeners', e.callback = stack[b].callback,
                 IsSuperset(stack[b].type, e.type), e.id <= stack[b].next
          PROVE  e.type = stack[b].type /\ e.id \notin pending'
      <4>1. e \in listeners
        <5>1. e \in listeners \/ e.id >= nextId
          BY DEF ListEvolves
        <5>2. e.id \in Int
          BY DEF TypeOK, Entry, Id
        <5> QED
          BY <3>1, <3>3, <5>1, <5>2 DEF ListEvolves
      <4>2. e.type = stack[b].type /\ e.id \notin pending
        BY <2>1, <2>2, <3>3, <4>1 DEF WalksWell, Matched
      <4> QED
        BY <2>1, <2>2, <3>3, <4>2
    <3> QED
      BY <2>1, <3>2, <3>3 DEF WalksWell, Matched
  <2>3. CASE stack[b].kind # "deregister"
    BY <2>1, <2>3 DEF WalksWell
  <2> QED
    BY <2>2, <2>3
<1>3. ASSUME NEW h \in DOMAIN stack', NEW i \in DOMAIN stack', Rival(stack'[h], stack'[i])
      PROVE  h = i
  <2>1. CASE h > k /\ i > k
    <3>1. h - k + j = i - k + j
      BY <1>1, <1>3, <2>1 DEF WalkInv, WalksApart
    <3> QED
      BY <1>1, <3>1
  <2>2. CASE h > k /\ ~(i > k)
    BY <1>1, <1>3, <2>2
  <2>3. CASE ~(h > k) /\ i > k
    BY <1>1, <1>3, <2>3 DEF Rival
  <2>4. CASE ~(h > k) /\ ~(i > k)
    BY <1>1, <1>3, <2>4
  <2> QED
    BY <2>1, <2>2, <2>3, <2>4
<1>4. \A i \in DOMAIN stack' : WalksWell(i)'
  BY <1>1, <1>2
<1> QED
  BY <1>3, <1>4 DEF WalkInv, WalksApart

\* A step of a walk: what it takes was registered with its type, was not withdrawn
\* before, and lies behind it afterwards.
LEMMA WalkTakes ==
  ASSUME TypeOK, TypeOK', SafeInv, WalkInv, WalkRemoves
  PROVE  \E e \in listeners :
           /\ 1 \in DOMAIN stack /\ stack[1].kind = "deregister"
           /\ e.callback = stack[1].callback /\ e.type = stack[1].type /\ e.id \notin pending
           /\ listeners' \subseteq listeners
           /\ \A d \in listeners : d # e =>
                d \in listeners' /\ (d.id \in pending' <=> d.id \in pending)
           /\ e \in listeners' => e.id \in pending'
           /\ Kept(1, 1) /\ stack'[1].kind = "deregister"
           /\ stack'[1].callback = stack[1].callback
           /\ WalksWell(1)'
<1>1. PICK e \in listeners :
        /\ stack # <<>> /\ stack[1].kind = "deregister"
        /\ e \in Matched(stack[1].callback, stack[1].type) /\ e.id <= stack[1].next
        /\ TakeOut(e)
        /\ Kept(1, 1) /\ stack'[1].kind = "deregister"
        /\ stack'[1].callback = stack[1].callback /\ stack'[1].type = stack[1].type
        /\ stack'[1].next = After(e.id)
  BY WalkFacts
<1>2. 1 \in DOMAIN stack /\ WalksWell(1) /\ stack[1] \in Frame
  BY <1>1 DEF TypeOK, WalkInv
<1>3. /\ e.callback = stack[1].callback /\ e.type = stack[1].type /\ e.id \notin pending
      /\ stack[1].next < nextId /\ stack[1].next \in Int
  BY <1>1, <1>2, FrameFields DEF WalksWell, Matched, Id
<1>4. /\ listeners' \subseteq listeners
      /\ \A d \in listeners : d # e => d \in listeners'
      /\ e \in listeners' => e.id \in pending'
  BY <1>1, TakeOutFacts
<1>5. pending' = pending \/ pending' = pending \cup {e.id}
  BY <1>1 DEF TakeOut
<1>6. \A d \in listeners : d # e => d.id # e.id
  BY DEF TypeOK
<1>7. ASSUME NEW d \in listeners, d # e
      PROVE  d.id \in pending' <=> d.id \in pending
  <2>1. d.id # e.id
    BY <1>6, <1>7
  <2>2. CASE pending' = pending
    BY <2>2
  <2>3. CASE pending' = pending \cup {e.id}
    BY <2>1, <2>3
  <2> QED
    BY <1>5, <2>2, <2>3
<1>8. /\ e.id \in Int /\ After(e.id) \in Int /\ After(e.id) < e.id
      /\ \A d \in listeners : d.id \in Int
  <2>1. /\ \A d \in listeners : d.id \in Id
        /\ \A id \in Id : After(id) \in Id \cup {0} /\ After(id) < id
    BY IdFacts DEF Ids
  <2> QED
    BY <2>1 DEF Id
<1>9. nextId' = nextId /\ nextId \in Int
  BY DEF WalkRemoves, bounds, TypeOK
<1>10. WalksWell(1)'
  <2>1. stack'[1].next < nextId'
    BY <1>1, <1>3, <1>8, <1>9
  <2>2. ASSUME NEW d \in listeners', d.callback = stack[1].callback,
               IsSuperset(stack[1].type, d.type), d.id <= After(e.id)
        PROVE  d.type = stack[1].type /\ d.id \notin pending'
    <3>1. d \in listeners /\ d # e /\ d.id <= stack[1].next
      BY <1>1, <1>3, <1>4, <1>8, <2>2
    <3>2. d.type = stack[1].type /\ d.id \notin pending
      BY <1>1, <1>2, <2>2, <3>1 DEF WalksWell, Matched
    <3> QED
      BY <1>7, <3>1, <3>2
  <2>3. (\A d \in Matched(stack[1].callback, stack[1].type) :
           d.id <= stack[1].next => d.type = stack[1].type /\ d.id \notin pending)'
    BY <1>1, <2>2 DEF Matched
  <2> QED
    BY <2>1, <2>3 DEF WalksWell
<1> QED
  BY <1>1, <1>2, <1>3, <1>4, <1>7, <1>10

LEMMA WalkStep ==
  ASSUME Careful, TypeOK, SafeInv, WalkInv, [Next]_vars
  PROVE  WalkInv'
<1>1. ListEvolves /\ TypeOK'
  BY Evolution, TypeStep
<1>2. ASSUME NEW k \in 0..2, NEW j \in 0..2, Kept(k, j), pending' \subseteq pending,
             \A i \in DOMAIN stack' : i <= k => stack'[i].kind # "deregister"
      PROVE  WalkInv'
  <2>1. \A i \in DOMAIN stack' : i <= k => WalksWell(i)'
    BY <1>2 DEF WalksWell
  <2> QED
    BY <1>1, <1>2, <2>1, KeptWalks DEF Rival
<1>3. CASE stack' = stack /\ pending' = pending
  <2>1. Kept(0, 0)
    BY <1>3 DEF Kept, TypeOK
  <2>2. \A i \in DOMAIN stack' : i <= 0 => stack'[i].kind # "deregister"
    BY <2>1 DEF Kept
  <2> QED
    BY <1>2, <1>3, <2>1, <2>2
<1>4. ASSUME NEW c \in Callback, NEW t \in EventType, Deregister(c, t)
      PROVE  WalkInv'
  <2>1. /\ Kept(1, 0) /\ stack'[1].kind = "deregister"
        /\ stack'[1].callback = c /\ stack'[1].type = t
        /\ stack'[1].next = Largest(Ids) /\ Largest(Ids) \in Ids \cup {0}
    BY <1>4, DeregisterFacts
  <2>2. UNCHANGED <<listeners, pending, nextId>> /\ IsCareful(c, t)
    BY <1>4 DEF Deregister
  <2>3. Largest(Ids) < nextId
    BY <2>1 DEF TypeOK, Ids
  <2>4. WalksWell(1)'
    BY <2>1, <2>2, <2>3 DEF WalksWell, IsCareful, Matched
  <2>5. \A h \in DOMAIN stack : ~Rival(stack[h], stack'[1])
    BY <2>1, <2>2 DEF IsCareful, Rival
  <2>6. \A i \in DOMAIN stack' : i <= 1 => i = 1
    BY <2>1 DEF Kept
  <2> QED
    BY <1>1, <2>1, <2>2, <2>4, <2>5, <2>6, KeptWalks
<1>5. CASE WalkRemoves
  <2>1. PICK e \in listeners :
          /\ 1 \in DOMAIN stack /\ stack[1].kind = "deregister"
          /\ e.callback = stack[1].callback
          /\ listeners' \subseteq listeners
          /\ \A d \in listeners : d # e => (d.id \in pending' <=> d.id \in pending)
          /\ Kept(1, 1) /\ stack'[1].kind = "deregister"
          /\ stack'[1].callback = stack[1].callback
          /\ WalksWell(1)'
    BY <1>1, <1>5, WalkTakes
  <2>2. \A h \in DOMAIN stack : h > 1 => ~Rival(stack[h], stack[1])
    BY <2>1 DEF WalkInv, WalksApart
  <2>3. \A h \in DOMAIN stack : h > 1 => ~Rival(stack[h], stack'[1])
    BY <2>1, <2>2 DEF Rival
  <2>4. \A i \in DOMAIN stack : \A d \in listeners' :
          i > 1 /\ stack[i].kind = "deregister" /\ d.id \in pending'
            => d.id \in pending \/ d.callback # stack[i].callback
    BY <2>1, <2>2 DEF Rival
  <2>5. \A i \in DOMAIN stack' : i <= 1 => i = 1
    BY <2>1 DEF Kept
  <2> QED
    BY <1>1, <2>1, <2>3, <2>4, <2>5, KeptWalks
<1>6. CASE WalkEnds \/ ProcessEnds \/ DispatchEnds
  <2>1. Kept(0, 1) /\ stack # <<>>
    BY <1>6, PopKeeps DEF WalkEnds, ProcessEnds, DispatchEnds, Running, TypeOK
  <2>2. \A i \in DOMAIN stack' : i <= 0 => stack'[i].kind # "deregister"
    BY <2>1 DEF Kept
  <2>3. pending' \subseteq pending
    BY <1>6, <2>1, ResolveFacts DEF WalkEnds, ProcessEnds, DispatchEnds
  <2> QED
    BY <1>2, <2>1, <2>2, <2>3
<1>7. CASE ReplyArrives
  <2>1. PICK k \in {1, 2} :
          /\ Kept(k, 1) /\ stack # <<>> /\ stack[1].kind = "deregister"
          /\ k = 2 => stack'[1].kind = "process"
          /\ stack'[k].kind = "deregister"
          /\ stack'[k].callback = stack[1].callback /\ stack'[k].type = stack[1].type
          /\ stack'[k].next = stack[1].next
    BY <1>7, ReplyFacts
  <2>2. UNCHANGED <<listeners, pending, nextId>>
    BY <1>7 DEF ReplyArrives, bounds
  <2>3. 1 \in DOMAIN stack /\ WalksWell(1)
    BY <2>1 DEF TypeOK, WalkInv
  <2>4. WalksWell(k)'
    BY <2>1, <2>2, <2>3 DEF WalksWell, Matched
  <2>5. \A h \in DOMAIN stack : h > 1 => ~Rival(stack[h], stack[1])
    BY <2>3 DEF WalkInv, WalksApart
  <2>6. \A h \in DOMAIN stack : h > 1 => ~Rival(stack[h], stack'[k])
    BY <2>1, <2>5 DEF Rival
  <2>7. \A i \in DOMAIN stack' : i <= k => i = k \/ (i = 1 /\ k = 2)
    BY <2>1 DEF Kept
  <2>8. k = 2 => WalksWell(1)' /\ \A f : ~Rival(f, stack'[1]) /\ ~Rival(stack'[1], f)
    BY <2>1 DEF WalksWell, Rival
  <2>9. \A i \in DOMAIN stack' : i <= k =>
          /\ WalksWell(i)'
          /\ \A h \in DOMAIN stack : h > 1 => ~Rival(stack[h], stack'[i])
          /\ \A h \in DOMAIN stack' : h <= k /\ Rival(stack'[h], stack'[i]) => h = i
    BY <2>4, <2>6, <2>7, <2>8
  <2> QED
    BY <1>1, <2>1, <2>2, <2>9, KeptWalks
<1>8. CASE BeginProcess
  <2>1. Push([kind |-> "process"]) /\ [kind |-> "process"] \in Frame /\ pending' = pending
    BY <1>8 DEF BeginProcess, Frame
  <2>2. Kept(1, 0) /\ stack'[1].kind = "process"
    BY <2>1, PushKeeps DEF TypeOK
  <2>3. \A i \in DOMAIN stack' : i <= 1 => stack'[i].kind # "deregister"
    BY <2>2 DEF Kept
  <2> QED
    BY <1>2, <2>1, <2>2, <2>3
<1>9. CASE Dispose \/ ProcessNext
  <2>1. PICK e \in Event : stack'[1] = SendEvent(e) /\ Kept(1, 0)
    BY <1>9, DisposeFacts, ProcessNextFacts
  <2>2. stack'[1].kind = "dispatch" /\ pending' = pending
    BY <1>9, <2>1, SendEventFrame DEF Dispose, ProcessNext
  <2>3. \A i \in DOMAIN stack' : i <= 1 => stack'[i].kind # "deregister"
    BY <2>1, <2>2 DEF Kept
  <2> QED
    BY <1>2, <2>1, <2>2, <2>3
<1>10. CASE CallCallback
  <2>1. PICK e \in listeners :
          /\ stack # <<>> /\ stack[1].kind = "dispatch" /\ Kept(2, 1)
          /\ stack'[1].kind = "callback"
          /\ stack'[2] = [stack[1] EXCEPT !.at = e.id]
    BY <1>10, CallFacts
  <2>2. stack[1] \in Frame /\ e.id \in Id /\ pending' = pending
    BY <1>10, <2>1, IdFacts DEF TypeOK, Ids, CallCallback
  <2>3. stack'[2].kind = "dispatch"
    BY <2>1, <2>2, FrameFields
  <2>4. \A i \in DOMAIN stack' : i <= 2 => i = 1 \/ i = 2
    BY <2>1 DEF Kept
  <2>5. \A i \in DOMAIN stack' : i <= 2 => stack'[i].kind # "deregister"
    BY <2>1, <2>3, <2>4
  <2> QED
    BY <1>2, <2>1, <2>2, <2>5
<1>11. CASE CallbackReturns
  <2>1. Kept(1, 2) /\ stack'[1].kind = "dispatch" /\ pending' = pending
    BY <1>11, ReturnFacts DEF SafeInv, CallbackReturns
  <2>2. \A i \in DOMAIN stack' : i <= 1 => stack'[i].kind # "deregister"
    BY <2>1 DEF Kept
  <2> QED
    BY <1>2, <2>1, <2>2
<1>12. ASSUME NEW c \in Callback, NEW t \in EventType, Register(c, t)
       PROVE  stack' = stack /\ pending' = pending
  BY <1>12 DEF Register
<1>13. ASSUME NEW e \in Event, Arrive(e)
       PROVE  stack' = stack /\ pending' = pending
  BY <1>13 DEF Arrive
<1>14. WalkIsLost \/ UNCHANGED vars => stack' = stack /\ pending' = pending
  BY DEF WalkIsLost, vars
<1> QED
  BY <1>3, <1>4, <1>5, <1>6, <1>7, <1>8, <1>9, <1>10, <1>11, <1>12, <1>13, <1>14
     DEF Next, Client, Library

\* The entries of a type that are not withdrawn.
Live(t) == {e \in listeners : e.type = t /\ e.id \notin pending}

RulesInv == IsFiniteSet(listeners) /\ \A t \in EventType : matches[t] = Cardinality(Live(t))

LEMMA RulesStep ==
  ASSUME Careful, TypeOK, SafeInv, WalkInv, RulesInv, [Next]_vars
  PROVE  RulesInv'
<1>1. \A t \in EventType : IsFiniteSet(Live(t)) /\ Cardinality(Live(t)) \in Nat
  <2>1. \A t : Live(t) \subseteq listeners
    BY DEF Live
  <2> QED
    BY <2>1, FS_Subset, FS_CardinalityType DEF RulesInv
<1>2. ASSUME NEW c \in Callback, NEW t \in EventType, Register(c, t)
      PROVE  RulesInv'
  <2> DEFINE e == [id |-> nextId, callback |-> c, type |-> t]
  <2>1. /\ listeners' = listeners \cup {e} /\ pending' = pending
        /\ matches' = [matches EXCEPT ![t] = @ + 1]
    BY <1>2 DEF Register
  <2>2. e.id = nextId /\ e.type = t
    OBVIOUS
  <2> HIDE DEF e
  <2>3. nextId \notin Ids /\ nextId \notin pending
    BY DEF TypeOK, Ids, Entry, Id
  <2>4. IsFiniteSet(listeners')
    BY <2>1, FS_AddElement DEF RulesInv
  <2>5. e \notin Live(t) /\ Live(t)' = Live(t) \cup {e}
    BY <2>1, <2>2, <2>3 DEF Live, Ids
  <2>6. Cardinality(Live(t)') = Cardinality(Live(t)) + 1
    BY <1>1, <2>5, FS_AddElement
  <2>7. matches'[t] = matches[t] + 1 /\ \A s \in EventType : s # t => matches'[s] = matches[s]
    BY <2>1 DEF TypeOK
  <2>8. \A s \in EventType : s # t => Live(s)' = Live(s)
    BY <2>1, <2>2 DEF Live
  <2>9. ASSUME NEW s \in EventType
        PROVE  matches'[s] = Cardinality(Live(s)')
    <3>1. CASE s = t
      BY <2>6, <2>7, <3>1 DEF RulesInv
    <3>2. CASE s # t
      BY <2>7, <2>8, <3>2 DEF RulesInv
    <3> QED
      BY <3>1, <3>2
  <2> QED
    BY <2>4, <2>9 DEF RulesInv
<1>3. CASE WalkRemoves
  <2>1. PICK e \in listeners :
          /\ 1 \in DOMAIN stack /\ stack[1].kind = "deregister"
          /\ e.type = stack[1].type /\ e.id \notin pending
          /\ listeners' \subseteq listeners
          /\ \A d \in listeners : d # e =>
               d \in listeners' /\ (d.id \in pending' <=> d.id \in pending)
          /\ e \in listeners' => e.id \in pending'
    <3>1. TypeOK'
      BY TypeStep
    <3>2. TypeOK /\ SafeInv /\ WalkInv /\ WalkRemoves
      BY <1>3
    <3> QED
      BY ONLY <3>1, <3>2, WalkTakes
  <2>2. PICK t \in EventType : t = stack[1].type
    BY <2>1, FrameFields DEF TypeOK
  <2>3. RemoveMatch(t)
    <3>1. Head(stack) = stack[1]
      BY <2>1 DEF TypeOK
    <3> QED
      BY <1>3, <2>2, <3>1 DEF WalkRemoves
  <2>4. e \in Live(t) /\ Live(t)' = Live(t) \ {e}
    BY <2>1, <2>2 DEF Live
  <2>5. \A s \in EventType : s # t => Live(s)' = Live(s)
    BY <2>1, <2>2 DEF Live
  <2>6. Cardinality(Live(t)') = Cardinality(Live(t)) - 1 /\ Cardinality(Live(t)) # 0
    <3>1. Live(t) # {}
      BY <2>4
    <3>2. Cardinality(Live(t)) # 0
      BY <1>1, <2>2, <3>1, FS_EmptySet
    <3>3. Cardinality(Live(t) \ {e}) = Cardinality(Live(t)) - 1
      BY <1>1, <2>2, <2>4, FS_RemoveElement
    <3>4. Cardinality(Live(t)') = Cardinality(Live(t) \ {e})
      BY <2>4
    <3> QED
      BY ONLY <3>2, <3>3, <3>4
  <2>7. /\ matches'[t] = IF matches[t] = 0 THEN 0 ELSE matches[t] - 1
        /\ \A s \in EventType : s # t => matches'[s] = matches[s]
    BY <2>2, <2>3 DEF RemoveMatch, TypeOK
  <2>8. IsFiniteSet(listeners')
    BY <2>1, FS_Subset DEF RulesInv
  <2>9. ASSUME NEW s \in EventType
        PROVE  matches'[s] = Cardinality(Live(s)')
    <3>1. CASE s = t
      BY <2>6, <2>7, <3>1 DEF RulesInv
    <3>2. CASE s # t
      BY <2>5, <2>7, <3>2 DEF RulesInv
    <3> QED
      BY <3>1, <3>2
  <2> QED
    BY <2>8, <2>9 DEF RulesInv
<1>4. CASE DispatchEnds
  <2>1. /\ \/ UNCHANGED <<listeners, pending>>
           \/ listeners' = {e \in listeners : e.id \notin pending} /\ pending' = {}
        /\ matches' = matches
    BY <1>4, ResolveFacts DEF DispatchEnds, Running
  <2>2. \A t : Live(t)' = Live(t)
    BY <2>1 DEF Live
  <2>3. IsFiniteSet(listeners')
    <3>1. listeners' \subseteq listeners
      BY <2>1
    <3> QED
      BY <3>1, FS_Subset DEF RulesInv
  <2> QED
    BY <2>1, <2>2, <2>3 DEF RulesInv
<1>5. CASE UNCHANGED <<listeners, pending, matches>>
  BY <1>5 DEF RulesInv, Live
<1>6. \/ UNCHANGED <<listeners, pending, matches>> \/ WalkRemoves \/ DispatchEnds
      \/ \E c \in Callback, t \in EventType : Register(c, t)
  BY DEF Next, Client, Library, Deregister, Arrive, Dispose, WalkIsLost, WalkEnds, ReplyArrives,
         BeginProcess, ProcessNext, ProcessEnds, CallCallback, CallbackReturns, vars
<1> QED
  BY <1>2, <1>3, <1>4, <1>5, <1>6

\* Clients that withdraw each listener once, as they registered it, leave one match
\* rule on the bus for each listener that is not withdrawn, however their callbacks
\* nest registrations, withdrawals and dispatches, and while removals still wait.
THEOREM OneRulePerListener == ASSUME Careful PROVE Spec => []RulesMatchListeners
<1>1. Init => WalkInv /\ RulesInv
  <2>1. Init => WalkInv
    BY DEF Init, WalkInv, WalksApart
  <2>2. ASSUME Init PROVE RulesInv
    <3>1. \A t : Live(t) = {}
      BY <2>2 DEF Init, Live
    <3>2. IsFiniteSet(listeners) /\ Cardinality({}) = 0
      BY <2>2, FS_EmptySet DEF Init
    <3> QED
      BY <2>2, <3>1, <3>2 DEF Init, RulesInv
  <2> QED
    BY <2>1, <2>2
<1>2. TypeOK /\ SafeInv /\ WalkInv /\ RulesInv /\ [Next]_vars => (WalkInv /\ RulesInv)'
  BY WalkStep, RulesStep
<1>3. RulesInv => RulesMatchListeners
  BY DEF RulesInv, Live, RulesMatchListeners
<1> QED
  BY <1>1, <1>2, <1>3, Invariants, PTL DEF Spec

=============================================================================

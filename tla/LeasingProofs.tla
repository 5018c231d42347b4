---------------------------- MODULE LeasingProofs ----------------------------
(***************************************************************************)
(* What the leases promise for any number of objects, any lease time and   *)
(* any resolution of the clock.                                            *)
(***************************************************************************)
EXTENDS Leasing, TLAPS

-----------------------------------------------------------------------------
(* Queues and seconds *)

\* Where the i-th element of a queue was before the p-th was taken out.
Skip(p, i) == IF i < p THEN i ELSE i + 1

\* The elements of a queue after one was deleted.
LEMMA RemoveAtElements ==
  ASSUME NEW S, NEW s \in Seq(S), NEW p \in 1..Len(s)
  PROVE  /\ RemoveAt(s, p) \in Seq(S)
         /\ Len(RemoveAt(s, p)) = Len(s) - 1
         /\ \A i \in 1..(Len(s) - 1) : RemoveAt(s, p)[i] = s[Skip(p, i)]
<1> DEFINE a == SubSeq(s, 1, p - 1)
           b == SubSeq(s, p + 1, Len(s))
<1>1. /\ a \in Seq(S) /\ Len(a) = p - 1
      /\ \A i \in 1..(p - 1) : a[i] = s[i]
  OBVIOUS
<1>2. /\ b \in Seq(S) /\ Len(b) = Len(s) - p
      /\ \A i \in 1..(Len(s) - p) : b[i] = s[p + i]
  OBVIOUS
<1>3. RemoveAt(s, p) = a \o b
  BY DEF RemoveAt
<1> HIDE DEF a, b
<1>4. /\ a \o b \in Seq(S) /\ Len(a \o b) = Len(s) - 1
  BY <1>1, <1>2
<1>5. \A i \in 1..(Len(s) - 1) : (a \o b)[i] = s[Skip(p, i)]
  <2> SUFFICES ASSUME NEW i \in 1..(Len(s) - 1) PROVE (a \o b)[i] = s[Skip(p, i)]
    OBVIOUS
  <2>1. CASE i < p
    BY <1>1, <1>2, <2>1 DEF Skip
  <2>2. CASE ~(i < p)
    <3>1. (a \o b)[i] = b[i - (p - 1)]
      BY <1>1, <1>2, <2>2
    <3>2. i - (p - 1) \in 1..(Len(s) - p) /\ p + (i - (p - 1)) = i + 1
      BY <2>2
    <3> QED
      BY <1>2, <2>2, <3>1, <3>2 DEF Skip
  <2> QED
    BY <2>1, <2>2
<1> QED
  BY <1>3, <1>4, <1>5

\* Taking the head of a queue is deleting its first element.
LEMMA TailElements ==
  ASSUME NEW S, NEW s \in Seq(S), s # <<>>
  PROVE  /\ Tail(s) \in Seq(S) /\ 1 \in 1..Len(s) /\ s[1] \in S
         /\ Len(Tail(s)) = Len(s) - 1
         /\ \A i \in 1..(Len(s) - 1) : Tail(s)[i] = s[Skip(1, i)]
  BY DEF Skip

\* Skipping an element keeps the order of the others and never yields it.
LEMMA SkipOrder ==
  ASSUME NEW n \in Nat, NEW p \in 1..n
  PROVE  /\ \A i \in 1..(n - 1) : Skip(p, i) \in 1..n /\ Skip(p, i) # p
         /\ \A i, j \in 1..(n - 1) : i < j => Skip(p, i) < Skip(p, j)
         /\ \A k \in 1..n : k # p => \E i \in 1..(n - 1) : Skip(p, i) = k
<1>1. /\ \A i \in 1..(n - 1) : Skip(p, i) \in 1..n /\ Skip(p, i) # p
      /\ \A i, j \in 1..(n - 1) : i < j => Skip(p, i) < Skip(p, j)
  BY DEF Skip
<1>2. ASSUME NEW k \in 1..n, k # p PROVE \E i \in 1..(n - 1) : Skip(p, i) = k
  <2>1. CASE k < p
    BY <2>1 DEF Skip
  <2>2. CASE p < k
    <3>1. k - 1 \in 1..(n - 1) /\ Skip(p, k - 1) = k
      BY <2>2 DEF Skip
    <3> QED
      BY <3>1
  <2> QED
    BY <1>2, <2>1, <2>2
<1> QED
  BY <1>1, <1>2

\* The second a tick lies in.
LEMMA SecondOfTick ==
  ASSUME NEW t \in Nat
  PROVE  /\ Secs(t) \in Nat /\ Second * Secs(t) \in Nat /\ Second \in Nat \ {0}
         /\ Second * Secs(t) <= t /\ t < Second * Secs(t) + Second
<1>1. Secs(t) \in Nat
  BY ClockAssumption DEF Secs
<1> QED
  BY <1>1, ClockAssumption DEF Secs

\* Multiples of the seconds keep their order.
LEMMA Multiples ==
  ASSUME NEW a \in Int, NEW b \in Int
  PROVE  /\ Second * a \in Int /\ Second * b \in Int
         /\ Second * (a + b) = Second * a + Second * b
         /\ Second * (a + 1) = Second * a + Second
         /\ Second * (a - b) = Second * a - Second * b
         /\ a <= b => Second * a <= Second * b
         /\ a < b => Second * a + Second <= Second * b
<1>1. Second \in Nat \ {0}
  BY ClockAssumption
<1>2. ASSUME NEW x \in Int, NEW y \in Int, x <= y PROVE Second * x <= Second * y
  BY <1>1, <1>2
<1>3. /\ Second * a \in Int /\ Second * b \in Int
      /\ Second * (a + b) = Second * a + Second * b
      /\ Second * (a + 1) = Second * a + Second
      /\ Second * (a - b) = Second * a - Second * b
  BY <1>1
<1>4. a < b => Second * (a + 1) <= Second * b
  BY <1>2
<1> QED
  BY <1>2, <1>3, <1>4

\* A later tick lies in the same second or in a later one.
LEMMA SecondsGrow ==
  ASSUME NEW s \in Nat, NEW t \in Nat, s <= t
  PROVE  Secs(s) <= Secs(t)
<1>1. /\ Second * Secs(s) \in Nat /\ Second * Secs(t) \in Nat /\ Second \in Nat
      /\ Second * Secs(s) <= s /\ t < Second * Secs(t) + Second
  BY SecondOfTick
<1>2. Secs(s) \in Int /\ Secs(t) \in Int
  BY SecondOfTick
<1>3. SUFFICES ASSUME Secs(t) < Secs(s) PROVE FALSE
  BY <1>2
<1>4. Second * Secs(t) + Second <= Second * Secs(s)
  BY <1>2, <1>3, Multiples
<1> QED
  BY <1>1, <1>4
-----------------------------------------------------------------------------
(* The inductive invariant *)

\* Each lease runs from the last time its object was sent.
ExpiryIsFromTaken ==
  \A i \in DOMAIN queue : queue[i].expiry = Secs(taken[queue[i].object]) + ExpiryTime

\* The clock never runs backwards, expiry_func runs for at most MaxPause, and
\* only while the SpiLeasing is live.
ClockInv ==
  /\ \A o \in Object : taken[o] <= now
  /\ began # Never => phase = "live" /\ began <= now /\ now <= began + MaxPause

LeaseInv == IndexMatchesQueue /\ QueueIsSorted /\ ExpiryIsFromTaken /\ ClockInv

\* What is left when the p-th lease of the queue has been taken out.
Left(p, rest) ==
  /\ rest \in Seq(Element) /\ Len(rest) = Len(queue) - 1
  /\ \A i \in 1..(Len(queue) - 1) : rest[i] = queue[Skip(p, i)]

\* The queue with one lease taken out holds the other leases, in order.
LEMMA LeftKeeps ==
  ASSUME TypeOK, LeaseInv, NEW p \in 1..Len(queue), NEW rest, Left(p, rest)
  PROVE  /\ \A i, j \in DOMAIN rest : i # j =>
              rest[i].link # rest[j].link /\ rest[i].object # rest[j].object
         /\ \A i, j \in DOMAIN rest : i < j => rest[i].expiry <= rest[j].expiry
         /\ \A i \in DOMAIN rest :
              /\ rest[i] \in Element
              /\ rest[i].object # queue[p].object /\ rest[i].link # queue[p].link
              /\ hash[rest[i].object] = rest[i].link
              /\ rest[i].expiry = Secs(taken[rest[i].object]) + ExpiryTime
         /\ \A o \in Object :
              (\E i \in DOMAIN rest : rest[i].object = o)
              <=> o # queue[p].object /\ \E i \in DOMAIN queue : queue[i].object = o
<1>1. /\ queue \in Seq(Element) /\ DOMAIN queue = 1..Len(queue) /\ Len(queue) \in Nat
      /\ DOMAIN rest = 1..(Len(queue) - 1)
      /\ \A i \in 1..(Len(queue) - 1) : rest[i] = queue[Skip(p, i)] /\ rest[i] \in Element
  <2>1. queue \in Seq(Element) /\ DOMAIN queue = 1..Len(queue) /\ Len(queue) \in Nat
    BY DEF TypeOK
  <2>2. /\ rest \in Seq(Element) /\ Len(rest) = Len(queue) - 1
        /\ \A i \in 1..(Len(queue) - 1) : rest[i] = queue[Skip(p, i)]
    BY DEF Left
  <2>3. DOMAIN rest = 1..Len(rest) /\ \A i \in 1..Len(rest) : rest[i] \in Element
    BY <2>2
  <2> QED
    BY <2>1, <2>2, <2>3
<1>2. /\ \A i \in 1..(Len(queue) - 1) : Skip(p, i) \in 1..Len(queue) /\ Skip(p, i) # p
      /\ \A i, j \in 1..(Len(queue) - 1) : i < j => Skip(p, i) < Skip(p, j)
      /\ \A k \in 1..Len(queue) : k # p => \E i \in 1..(Len(queue) - 1) : Skip(p, i) = k
  BY <1>1, SkipOrder
<1>3. \A i, j \in 1..(Len(queue) - 1) : i # j => Skip(p, i) # Skip(p, j)
  BY DEF Skip
<1>4. \A i, j \in 1..Len(queue) : i # j =>
        queue[i].link # queue[j].link /\ queue[i].object # queue[j].object
  BY <1>1 DEF LeaseInv, IndexMatchesQueue
<1>5. ASSUME NEW i \in DOMAIN rest, NEW j \in DOMAIN rest, i # j
      PROVE  rest[i].link # rest[j].link /\ rest[i].object # rest[j].object
  <2>1. Skip(p, i) \in 1..Len(queue) /\ Skip(p, j) \in 1..Len(queue) /\ Skip(p, i) # Skip(p, j)
    BY <1>1, <1>2, <1>3, <1>5
  <2>2. rest[i] = queue[Skip(p, i)] /\ rest[j] = queue[Skip(p, j)]
    BY <1>1
  <2> QED
    BY <1>4, <2>1, <2>2
<1>6. ASSUME NEW i \in DOMAIN rest, NEW j \in DOMAIN rest, i < j
      PROVE  rest[i].expiry <= rest[j].expiry
  <2>1. Skip(p, i) \in DOMAIN queue /\ Skip(p, j) \in DOMAIN queue /\ Skip(p, i) < Skip(p, j)
    BY <1>1, <1>2, <1>6
  <2>2. rest[i] = queue[Skip(p, i)] /\ rest[j] = queue[Skip(p, j)]
    BY <1>1
  <2> QED
    BY <2>1, <2>2 DEF LeaseInv, QueueIsSorted
<1>7. \A i \in DOMAIN rest :
        /\ rest[i] \in Element
        /\ rest[i].object # queue[p].object /\ rest[i].link # queue[p].link
        /\ hash[rest[i].object] = rest[i].link
        /\ rest[i].expiry = Secs(taken[rest[i].object]) + ExpiryTime
  BY <1>1, <1>2, <1>4 DEF LeaseInv, IndexMatchesQueue, ExpiryIsFromTaken
<1>8. ASSUME NEW o \in Object
      PROVE  (\E i \in DOMAIN rest : rest[i].object = o)
             <=> o # queue[p].object /\ \E i \in DOMAIN queue : queue[i].object = o
  <2>1. ASSUME NEW i \in DOMAIN rest, rest[i].object = o
        PROVE  o # queue[p].object /\ \E k \in DOMAIN queue : queue[k].object = o
    BY <1>1, <1>2, <1>7, <2>1
  <2>2. ASSUME NEW k \in DOMAIN queue, queue[k].object = o, o # queue[p].object
        PROVE  \E i \in DOMAIN rest : rest[i].object = o
    <3>1. PICK i \in 1..(Len(queue) - 1) : Skip(p, i) = k
      BY <1>1, <1>2, <2>2
    <3> QED
      BY <1>1, <2>2, <3>1
  <2> QED
    BY <2>1, <2>2
<1> QED
  BY <1>5, <1>6, <1>7, <1>8

\* spi_leasing_take knows whether an object is leased, and finds its lease.
LEMMA HashFinds ==
  ASSUME TypeOK, LeaseInv, phase = "live", NEW o \in Object
  PROVE  /\ hash[o] = NoLink <=> ~\E i \in DOMAIN queue : queue[i].object = o
         /\ hash[o] # NoLink =>
              /\ Position(hash[o]) \in 1..Len(queue)
              /\ queue[Position(hash[o])].object = o
<1>1. /\ queue \in Seq(Element) /\ DOMAIN queue = 1..Len(queue)
      /\ \A i \in 1..Len(queue) : queue[i] \in Element
  BY DEF TypeOK
<1>2. /\ \A i \in 1..Len(queue) : hash[queue[i].object] = queue[i].link
      /\ hash[o] # NoLink => \E i \in 1..Len(queue) : queue[i].object = o
      /\ \A i, j \in 1..Len(queue) : i # j => queue[i].link # queue[j].link
  BY <1>1 DEF LeaseInv, IndexMatchesQueue
<1>3. \A i \in 1..Len(queue) : queue[i].link # NoLink
  BY <1>1, NoneAssumption DEF Element
<1>4. ASSUME hash[o] # NoLink
      PROVE  /\ Position(hash[o]) \in 1..Len(queue)
             /\ queue[Position(hash[o])].object = o
  <2>1. PICK i \in 1..Len(queue) : queue[i].object = o
    BY <1>2, <1>4
  <2>2. queue[i].link = hash[o]
    BY <1>2, <2>1
  <2>3. Position(hash[o]) = i
    BY <1>1, <1>2, <2>2 DEF Position
  <2> QED
    BY <2>1, <2>3
<1> QED
  BY <1>1, <1>2, <1>3, <1>4

\* The queue spi_leasing_take appends to: the other leases, untouched.
Rest(o) == IF hash[o] = NoLink THEN queue ELSE WithoutLink(hash[o])

LEMMA RestKeeps ==
  ASSUME TypeOK, LeaseInv, phase = "live", NEW o \in Object
  PROVE  /\ Rest(o) \in Seq(Element)
         /\ \A i, j \in 1..Len(Rest(o)) : i # j =>
              Rest(o)[i].link # Rest(o)[j].link /\ Rest(o)[i].object # Rest(o)[j].object
         /\ \A i, j \in 1..Len(Rest(o)) : i < j => Rest(o)[i].expiry <= Rest(o)[j].expiry
         /\ \A i \in 1..Len(Rest(o)) :
              /\ Rest(o)[i] \in Element /\ Rest(o)[i].object # o
              /\ hash[Rest(o)[i].object] = Rest(o)[i].link
              /\ Rest(o)[i].expiry = Secs(taken[Rest(o)[i].object]) + ExpiryTime
         /\ \A x \in Object : (\E i \in 1..Len(Rest(o)) : Rest(o)[i].object = x)
              <=> x # o /\ \E i \in DOMAIN queue : queue[i].object = x
<1>1. queue \in Seq(Element) /\ DOMAIN queue = 1..Len(queue)
  BY DEF TypeOK
<1>2. CASE hash[o] = NoLink
  <2>1. ~\E i \in DOMAIN queue : queue[i].object = o
    BY <1>2, HashFinds
  <2>2. Rest(o) = queue
    BY <1>2 DEF Rest
  <2>3. /\ \A i, j \in 1..Len(queue) : i # j =>
             queue[i].link # queue[j].link /\ queue[i].object # queue[j].object
        /\ \A i, j \in 1..Len(queue) : i < j => queue[i].expiry <= queue[j].expiry
        /\ \A i \in 1..Len(queue) :
             /\ hash[queue[i].object] = queue[i].link
             /\ queue[i].expiry = Secs(taken[queue[i].object]) + ExpiryTime
    BY <1>1 DEF LeaseInv, IndexMatchesQueue, QueueIsSorted, ExpiryIsFromTaken
  <2>4. \A i \in 1..Len(queue) : queue[i] \in Element
    BY <1>1
  <2> QED
    BY <1>1, <2>1, <2>2, <2>3, <2>4
<1>3. CASE hash[o] # NoLink
  <2> DEFINE p == Position(hash[o])
  <2>1. p \in 1..Len(queue) /\ queue[p].object = o
    BY <1>3, HashFinds
  <2>2. Rest(o) = RemoveAt(queue, p)
    BY <1>3, SMTT(40) DEF Rest, WithoutLink
  <2> HIDE DEF p
  <2>3. Left(p, Rest(o))
    BY <1>1, <2>1, <2>2, RemoveAtElements DEF Left
  <2>4. Rest(o) \in Seq(Element) /\ DOMAIN Rest(o) = 1..Len(Rest(o))
    BY <2>3 DEF Left
  <2>5. /\ \A i, j \in DOMAIN Rest(o) : i # j =>
             Rest(o)[i].link # Rest(o)[j].link /\ Rest(o)[i].object # Rest(o)[j].object
        /\ \A i, j \in DOMAIN Rest(o) : i < j => Rest(o)[i].expiry <= Rest(o)[j].expiry
        /\ \A i \in DOMAIN Rest(o) :
             /\ Rest(o)[i] \in Element
             /\ Rest(o)[i].object # queue[p].object /\ Rest(o)[i].link # queue[p].link
             /\ hash[Rest(o)[i].object] = Rest(o)[i].link
             /\ Rest(o)[i].expiry = Secs(taken[Rest(o)[i].object]) + ExpiryTime
        /\ \A x \in Object :
             (\E i \in DOMAIN Rest(o) : Rest(o)[i].object = x)
             <=> x # queue[p].object /\ \E i \in DOMAIN queue : queue[i].object = x
    BY <2>1, <2>3, LeftKeeps
  <2> QED
    BY <2>1, <2>4, <2>5
<1> QED
  BY <1>2, <1>3

\* The interval of a new timeout is a whole number of seconds.
LEMMA WakeTimeType ==
  ASSUME NEW q \in Seq(Element), now \in Nat
  PROVE  WakeTime(q) \in Int \cup {Never}
<1>1. CASE q = <<>>
  BY <1>1 DEF WakeTime
<1>2. CASE q # <<>>
  <2>1. q[1] \in Element
    BY <1>2
  <2>2. q[1].expiry \in Nat /\ Secs(now) \in Nat
    BY <2>1, SecondOfTick DEF Element
  <2>3. (q[1].expiry - Secs(now)) % UintSize \in Int
    BY <2>2, ClockAssumption
  <2>4. Second * ((q[1].expiry - Secs(now)) % UintSize) \in Int
    BY <2>3, Multiples
  <2> QED
    BY <1>2, <2>4 DEF WakeTime
<1> QED
  BY <1>1, <1>2
-----------------------------------------------------------------------------
(* Each step keeps the invariant *)

\* spi_leasing_take keeps the queue sorted and its index exact.
LEMMA TakeKeeps ==
  ASSUME TypeOK, LeaseInv, NEW o \in Object, Take(o)
  PROVE  TypeOK' /\ LeaseInv'
<1> DEFINE r == Rest(o)
           n == Len(r)
<1>1. /\ now \in Nat /\ phase = "live" /\ queue \in Seq(Element)
      /\ DOMAIN queue = 1..Len(queue)
      /\ hash \in [Object -> Link \cup {NoLink}] /\ refs \in [Object -> Nat]
      /\ taken \in [Object -> Nat]
  BY DEF Take, TypeOK
<1>2. /\ r \in Seq(Element)
      /\ \A i, j \in 1..n : i # j => r[i].link # r[j].link /\ r[i].object # r[j].object
      /\ \A i, j \in 1..n : i < j => r[i].expiry <= r[j].expiry
      /\ \A i \in 1..n :
           /\ r[i] \in Element /\ r[i].object # o
           /\ hash[r[i].object] = r[i].link
           /\ r[i].expiry = Secs(taken[r[i].object]) + ExpiryTime
      /\ \A x \in Object : (\E i \in 1..n : r[i].object = x)
           <=> x # o /\ \E i \in DOMAIN queue : queue[i].object = x
  BY <1>1, RestKeeps
<1>3. hash[o] # NoLink => queue[Position(hash[o])].object = o
  BY <1>1, HashFinds
<1>4. PICK l \in Link \ Links(r) :
        /\ queue' = Append(r, [link |-> l, object |-> o, expiry |-> Secs(now) + ExpiryTime])
        /\ hash' = [hash EXCEPT ![o] = l]
  BY <1>3 DEF Take, Rest, Push
<1> DEFINE e == [link |-> l, object |-> o, expiry |-> Secs(now) + ExpiryTime]
<1>5. e \in Element /\ Secs(now) \in Nat /\ ExpiryTime \in Nat
  <2>1. Secs(now) \in Nat
    BY <1>1, SecondOfTick
  <2>2. ExpiryTime \in Nat
    BY ClockAssumption DEF ExpiryTime
  <2>3. Secs(now) + ExpiryTime \in Nat
    BY <2>1, <2>2
  <2> QED
    BY <2>1, <2>2, <2>3 DEF Element
<1>6. /\ refs' = IF hash[o] = NoLink THEN [refs EXCEPT ![o] = @ + 1] ELSE refs
      /\ timer' = IF timer = Never THEN WakeTime(queue') ELSE timer
      /\ taken' = [taken EXCEPT ![o] = now]
      /\ now' = now /\ began' = began /\ phase' = phase
  BY DEF Take
<1> HIDE DEF r
<1>7. DOMAIN r = 1..n /\ n \in Nat /\ \A i \in 1..n : r[i].link # l
  <2>1. DOMAIN r = 1..n /\ n \in Nat
    BY <1>2
  <2> QED
    BY <2>1 DEF Links
<1>8. /\ queue' \in Seq(Element) /\ DOMAIN queue' = 1..(n + 1)
      /\ \A i \in 1..n : queue'[i] = r[i]
      /\ queue'[n + 1] = e
  BY <1>2, <1>4, <1>5
<1>9. /\ hash' \in [Object -> Link \cup {NoLink}] /\ hash'[o] = l
      /\ \A x \in Object : x # o => hash'[x] = hash[x]
      /\ taken' \in [Object -> Nat] /\ taken'[o] = now
      /\ \A x \in Object : x # o => taken'[x] = taken[x]
  BY <1>1, <1>4, <1>6
<1>10. \A i \in 1..n : r[i].object \in Object
  BY <1>2 DEF Element
<1>11. e.link = l /\ e.object = o /\ e.expiry = Secs(now) + ExpiryTime
  OBVIOUS
<1> HIDE DEF e, n
<1>12. refs' \in [Object -> Nat] /\ refs'[o] = 1 /\ \A x \in Object : x # o => refs'[x] = refs[x]
  <2>1. refs[o] = IF hash[o] = NoLink THEN 0 ELSE 1
    <3>1. hash[o] = NoLink <=> ~\E i \in DOMAIN queue : queue[i].object = o
      BY <1>1, HashFinds
    <3> QED
      BY <3>1 DEF LeaseInv, IndexMatchesQueue
  <2> QED
    BY <1>1, <1>6, <2>1
<1>13. TypeOK'
  <2>1. WakeTime(queue') \in Int \cup {Never}
    <3>1. PICK q \in Seq(Element) : q = queue'
      BY <1>8
    <3>2. WakeTime(q) \in Int \cup {Never}
      BY <1>1, WakeTimeType
    <3> QED
      BY <3>1, <3>2
  <2> QED
    BY <1>6, <1>8, <1>9, <1>12, <2>1 DEF TypeOK
<1>14. IndexMatchesQueue'
  <2>1. ASSUME NEW i \in 1..(n + 1), NEW j \in 1..(n + 1), i # j
        PROVE  queue'[i].link # queue'[j].link /\ queue'[i].object # queue'[j].object
    <3>1. (i \in 1..n \/ i = n + 1) /\ (j \in 1..n \/ j = n + 1)
      BY <1>7
    <3> QED
      BY <1>2, <1>7, <1>8, <1>11, <2>1, <3>1
  <2>2. ASSUME NEW i \in 1..(n + 1) PROVE hash'[queue'[i].object] = queue'[i].link
    <3>1. i \in 1..n \/ i = n + 1
      BY <1>7
    <3> QED
      BY <1>2, <1>8, <1>9, <1>10, <1>11, <3>1
  <2>3. ASSUME NEW x \in Object
        PROVE (\E i \in 1..(n + 1) : queue'[i].object = x)
              <=> x = o \/ \E i \in DOMAIN queue : queue[i].object = x
    <3>1. \A i \in 1..(n + 1) : i \in 1..n \/ i = n + 1
      BY <1>7
    <3>2. n + 1 \in 1..(n + 1) /\ \A i \in 1..n : i \in 1..(n + 1)
      BY <1>7
    <3> QED
      BY <1>2, <1>8, <1>11, <3>1, <3>2
  <2>4. \A x \in Object : hash'[x] # NoLink => \E i \in DOMAIN queue' : queue'[i].object = x
    BY <1>1, <1>8, <1>9, <2>3 DEF LeaseInv, IndexMatchesQueue
  <2>5. ASSUME NEW x \in Object
        PROVE  refs'[x] = IF \E i \in DOMAIN queue' : queue'[i].object = x THEN 1 ELSE 0
    BY <1>8, <1>12, <2>3 DEF LeaseInv, IndexMatchesQueue
  <2> QED
    BY <1>8, <2>1, <2>2, <2>4, <2>5 DEF IndexMatchesQueue
<1>15. ExpiryIsFromTaken'
  <2> SUFFICES ASSUME NEW i \in 1..(n + 1)
               PROVE  queue'[i].expiry = Secs(taken'[queue'[i].object]) + ExpiryTime
    BY <1>8 DEF ExpiryIsFromTaken, Secs
  <2>1. CASE i \in 1..n
    <3>1. /\ queue'[i] = r[i] /\ r[i].object \in Object /\ r[i].object # o
          /\ r[i].expiry = Secs(taken[r[i].object]) + ExpiryTime
      BY <1>2, <1>8, <1>10, <2>1
    <3>2. taken'[r[i].object] = taken[r[i].object]
      BY <1>9, <3>1
    <3> QED
      BY <3>1, <3>2
  <2>2. CASE i = n + 1
    BY <1>8, <1>9, <1>11, <2>2
  <2> QED
    BY <1>7, <2>1, <2>2
<1>16. QueueIsSorted'
  <2>1. ASSUME NEW i \in 1..n PROVE r[i].expiry \in Nat /\ r[i].expiry <= e.expiry
    <3>1. /\ taken[r[i].object] \in Nat /\ taken[r[i].object] <= now
          /\ r[i].expiry = Secs(taken[r[i].object]) + ExpiryTime
      BY <1>1, <1>2, <1>10 DEF LeaseInv, ClockInv
    <3>2. /\ Secs(taken[r[i].object]) <= Secs(now) /\ Secs(taken[r[i].object]) \in Nat
      BY <1>1, <3>1, SecondsGrow, SecondOfTick
    <3> QED
      BY <1>5, <1>11, <3>1, <3>2
  <2>2. ASSUME NEW i \in 1..(n + 1), NEW j \in 1..(n + 1), i < j
        PROVE  queue'[i].expiry <= queue'[j].expiry
    <3>1. i \in 1..n /\ (j \in 1..n \/ j = n + 1)
      BY <1>7, <2>2
    <3> QED
      BY <1>2, <1>8, <2>1, <2>2, <3>1
  <2> QED
    BY <1>8, <2>2 DEF QueueIsSorted
<1>17. ClockInv'
  BY <1>1, <1>6, <1>9 DEF LeaseInv, ClockInv
<1> QED
  BY <1>13, <1>14, <1>15, <1>16, <1>17 DEF LeaseInv

\* An ended lease leaves the queue and gives up its reference.  The index
\* drops it as well, unless the SpiLeasing is disposed of.
LEMMA ReleaseKeeps ==
  ASSUME TypeOK, LeaseInv, queue # <<>>, queue' = Tail(queue),
         refs' = Released(queue[1].object),
         hash' = Forget(queue[1].object) \/ (hash' = hash /\ phase # "live"),
         UNCHANGED <<now, timer, began, phase, taken>>
  PROVE  TypeOK' /\ LeaseInv'
<1> DEFINE n == Len(queue)
           h == queue[1].object
<1>1. /\ now \in Nat /\ queue \in Seq(Element) /\ n \in Nat
      /\ DOMAIN queue = 1..n /\ 1 \in 1..n /\ queue[1] \in Element
      /\ hash \in [Object -> Link \cup {NoLink}] /\ refs \in [Object -> Nat]
      /\ taken \in [Object -> Nat]
  BY DEF TypeOK
<1>2. h \in Object
  BY <1>1 DEF Element
<1>3. Left(1, queue')
  BY <1>1, TailElements DEF Left
<1>4. queue' \in Seq(Element) /\ DOMAIN queue' = 1..(n - 1)
  BY <1>1, <1>3 DEF Left
<1>5. /\ \A i, j \in DOMAIN queue' : i # j =>
           queue'[i].link # queue'[j].link /\ queue'[i].object # queue'[j].object
      /\ \A i, j \in DOMAIN queue' : i < j => queue'[i].expiry <= queue'[j].expiry
      /\ \A i \in DOMAIN queue' :
           /\ queue'[i] \in Element
           /\ queue'[i].object # h
           /\ hash[queue'[i].object] = queue'[i].link
           /\ queue'[i].expiry = Secs(taken[queue'[i].object]) + ExpiryTime
      /\ \A x \in Object :
           (\E i \in DOMAIN queue' : queue'[i].object = x)
           <=> x # h /\ \E i \in DOMAIN queue : queue[i].object = x
  <2>1. PICK q \in Seq(Element) : q = queue'
    BY <1>4
  <2>2. Left(1, q)
    BY <1>3, <2>1
  <2>3. /\ \A i, j \in DOMAIN q : i # j => q[i].link # q[j].link /\ q[i].object # q[j].object
        /\ \A i, j \in DOMAIN q : i < j => q[i].expiry <= q[j].expiry
        /\ \A i \in DOMAIN q :
             /\ q[i] \in Element
             /\ q[i].object # queue[1].object /\ q[i].link # queue[1].link
             /\ hash[q[i].object] = q[i].link
             /\ q[i].expiry = Secs(taken[q[i].object]) + ExpiryTime
        /\ \A x \in Object :
             (\E i \in DOMAIN q : q[i].object = x)
             <=> x # queue[1].object /\ \E i \in DOMAIN queue : queue[i].object = x
    <3>1. PICK p \in 1..Len(queue) : p = 1
      BY <1>1
    <3>2. Left(p, q)
      BY <2>2, <3>1
    <3>3. /\ \A i, j \in DOMAIN q : i # j => q[i].link # q[j].link /\ q[i].object # q[j].object
          /\ \A i, j \in DOMAIN q : i < j => q[i].expiry <= q[j].expiry
          /\ \A i \in DOMAIN q :
               /\ q[i] \in Element
               /\ q[i].object # queue[p].object /\ q[i].link # queue[p].link
               /\ hash[q[i].object] = q[i].link
               /\ q[i].expiry = Secs(taken[q[i].object]) + ExpiryTime
          /\ \A x \in Object :
               (\E i \in DOMAIN q : q[i].object = x)
               <=> x # queue[p].object /\ \E i \in DOMAIN queue : queue[i].object = x
      BY <3>2, LeftKeeps
    <3> QED
      BY <3>1, <3>3
  <2> QED
    BY <2>1, <2>3
<1> HIDE DEF n
<1>6. /\ hash' \in [Object -> Link \cup {NoLink}]
      /\ \A x \in Object : x # h => hash'[x] = hash[x]
      /\ phase' = "live" => hash'[h] = NoLink
  BY <1>1, <1>2 DEF Forget
<1>7. refs' \in [Object -> Nat] /\ refs'[h] = 0 /\ \A x \in Object : x # h => refs'[x] = refs[x]
  <2>1. refs[h] = 1
    BY <1>1, <1>2 DEF LeaseInv, IndexMatchesQueue
  <2> QED
    BY <1>1, <1>2, <2>1 DEF Released
<1> HIDE DEF h
<1>8. TypeOK'
  BY <1>4, <1>6, <1>7 DEF TypeOK
<1>9. \A i \in DOMAIN queue' : queue'[i].object \in Object
  BY <1>5 DEF Element
<1>10. IndexMatchesQueue'
  <2>1. ASSUME NEW i \in DOMAIN queue' PROVE hash'[queue'[i].object] = queue'[i].link
    <3>1. queue'[i].object \in Object /\ queue'[i].object # h
      BY <1>5, <1>9
    <3>2. hash[queue'[i].object] = queue'[i].link
      BY <1>5
    <3> QED
      BY <1>6, <3>1, <3>2
  <2>2. phase' = "live" => \A x \in Object :
          hash'[x] # NoLink => \E i \in DOMAIN queue' : queue'[i].object = x
    <3> SUFFICES ASSUME phase' = "live", NEW x \in Object, hash'[x] # NoLink
                 PROVE  \E i \in DOMAIN queue' : queue'[i].object = x
      OBVIOUS
    <3>1. x # h /\ hash[x] # NoLink
      BY <1>6
    <3>2. \E i \in DOMAIN queue : queue[i].object = x
      BY <3>1 DEF LeaseInv, IndexMatchesQueue
    <3> QED
      BY <1>5, <3>1, <3>2
  <2>3. ASSUME NEW x \in Object
        PROVE  refs'[x] = IF \E i \in DOMAIN queue' : queue'[i].object = x THEN 1 ELSE 0
    <3>1. refs[x] = IF \E i \in DOMAIN queue : queue[i].object = x THEN 1 ELSE 0
      BY DEF LeaseInv, IndexMatchesQueue
    <3> QED
      BY <1>5, <1>7, <3>1
  <2> QED
    BY <1>5, <2>1, <2>2, <2>3 DEF IndexMatchesQueue
<1>11. ExpiryIsFromTaken' /\ QueueIsSorted'
  BY <1>5 DEF ExpiryIsFromTaken, QueueIsSorted, Secs
<1>12. ClockInv'
  BY DEF LeaseInv, ClockInv
<1> QED
  BY <1>8, <1>10, <1>11, <1>12 DEF LeaseInv

LEMMA InitHolds == Init => TypeOK /\ LeaseInv
<1> SUFFICES ASSUME Init PROVE TypeOK /\ LeaseInv
  OBVIOUS
<1>1. TypeOK
  BY ClockAssumption DEF Init, TypeOK
<1>2. LeaseInv
  BY <1>1 DEF Init, TypeOK, LeaseInv, IndexMatchesQueue, QueueIsSorted, ExpiryIsFromTaken, ClockInv
<1> QED
  BY <1>1, <1>2

LEMMA NextKeeps == TypeOK /\ LeaseInv /\ [Next]_vars => TypeOK' /\ LeaseInv'
<1> SUFFICES ASSUME TypeOK, LeaseInv, [Next]_vars PROVE TypeOK' /\ LeaseInv'
  OBVIOUS
<1>1. ASSUME NEW o \in Object, Take(o) PROVE TypeOK' /\ LeaseInv'
  BY <1>1, TakeKeeps
<1>2. CASE BeginExpiry
  <2>1. TypeOK'
    BY <1>2 DEF BeginExpiry, TypeOK
  <2>2. IndexMatchesQueue' /\ QueueIsSorted' /\ ExpiryIsFromTaken'
    BY <1>2 DEF BeginExpiry, LeaseInv, IndexMatchesQueue, QueueIsSorted, ExpiryIsFromTaken, Secs
  <2>3. ClockInv'
    BY <1>2, ClockAssumption DEF BeginExpiry, LeaseInv, ClockInv, TypeOK
  <2> QED
    BY <2>1, <2>2, <2>3 DEF LeaseInv
<1>3. CASE Expire
  BY <1>3, ReleaseKeeps DEF Expire, HasExpired
<1>4. CASE EndExpiry
  <2>1. TypeOK'
    <3>1. WakeTime(queue) \in Int \cup {Never}
      BY WakeTimeType DEF TypeOK
    <3> QED
      BY <1>4, <3>1 DEF EndExpiry, TypeOK
  <2>2. IndexMatchesQueue' /\ QueueIsSorted' /\ ExpiryIsFromTaken'
    BY <1>4 DEF EndExpiry, LeaseInv, IndexMatchesQueue, QueueIsSorted, ExpiryIsFromTaken, Secs
  <2>3. ClockInv'
    BY <1>4 DEF EndExpiry, LeaseInv, ClockInv
  <2> QED
    BY <2>1, <2>2, <2>3 DEF LeaseInv
<1>5. CASE BeginDispose
  <2>1. TypeOK' /\ ClockInv'
    BY <1>5 DEF BeginDispose, TypeOK, LeaseInv, ClockInv
  <2>2. IndexMatchesQueue' /\ QueueIsSorted' /\ ExpiryIsFromTaken'
    BY <1>5 DEF BeginDispose, LeaseInv, IndexMatchesQueue, QueueIsSorted, ExpiryIsFromTaken, Secs
  <2> QED
    BY <2>1, <2>2 DEF LeaseInv
<1>6. CASE DisposeHead
  BY <1>6, ReleaseKeeps DEF DisposeHead
<1>7. CASE Finalize
  <2>1. TypeOK' /\ ClockInv'
    BY <1>7 DEF Finalize, TypeOK, LeaseInv, ClockInv
  <2>2. IndexMatchesQueue' /\ QueueIsSorted' /\ ExpiryIsFromTaken'
    BY <1>7 DEF Finalize, LeaseInv, IndexMatchesQueue, QueueIsSorted, ExpiryIsFromTaken, Secs
  <2> QED
    BY <2>1, <2>2 DEF LeaseInv
<1>8. CASE Tick
  <2>1. TypeOK'
    BY <1>8 DEF Tick, TypeOK
  <2>2. ClockInv'
    BY <1>8, ClockAssumption DEF Tick, TypeOK, LeaseInv, ClockInv
  <2>3. IndexMatchesQueue' /\ QueueIsSorted' /\ ExpiryIsFromTaken'
    BY <1>8 DEF Tick, LeaseInv, IndexMatchesQueue, QueueIsSorted, ExpiryIsFromTaken, Secs
  <2> QED
    BY <2>1, <2>2, <2>3 DEF LeaseInv
<1>9. CASE UNCHANGED vars
  <2>1. TypeOK' /\ ClockInv'
    BY <1>9 DEF vars, TypeOK, LeaseInv, ClockInv
  <2>2. IndexMatchesQueue' /\ QueueIsSorted' /\ ExpiryIsFromTaken'
    BY <1>9 DEF vars, LeaseInv, IndexMatchesQueue, QueueIsSorted, ExpiryIsFromTaken, Secs
  <2> QED
    BY <2>1, <2>2 DEF LeaseInv
<1> QED
  BY <1>1, <1>2, <1>3, <1>4, <1>5, <1>6, <1>7, <1>8, <1>9 DEF Next

LEMMA Inductive == Spec => [](TypeOK /\ LeaseInv)
<1>1. Init => TypeOK /\ LeaseInv
  BY InitHolds
<1>2. (TypeOK /\ LeaseInv) /\ [Next]_vars => (TypeOK /\ LeaseInv)'
  BY NextKeeps
<1> QED
  BY <1>1, <1>2, PTL DEF Spec

-----------------------------------------------------------------------------
(* Theorems *)

\* Every reference count, link and time stays a number or a link: no lease
\* gives up a reference it does not hold.
THEOREM TypeCorrect == Spec => []TypeOK
BY Inductive, PTL

\* The queue, its index and the references agree at all times, also while
\* expiry_func runs and when the finalizers it runs lead to new leases.
THEOREM QueueAndIndex == Spec => [](IndexMatchesQueue /\ QueueIsSorted)
<1>1. TypeOK /\ LeaseInv => IndexMatchesQueue /\ QueueIsSorted
  BY DEF LeaseInv
<1> QED
  BY <1>1, Inductive, PTL

-----------------------------------------------------------------------------
(* The contract *)

\* A lease that expires has run for the lease time at least: rounding the
\* expiry up makes good for the seconds that the quantized times cut off.
LEMMA ExpiresLate ==
  ASSUME TypeOK, LeaseInv, began # Never, HasExpired
  PROVE  now - taken[queue[1].object] >= Second * LeaseTime
<1> DEFINE o == queue[1].object
           t == taken[o]
<1>1. /\ now \in Nat /\ began \in Nat /\ queue \in Seq(Element) /\ 1 \in DOMAIN queue
      /\ queue[1] \in Element /\ taken \in [Object -> Nat]
  BY DEF TypeOK, HasExpired
<1>2. o \in Object /\ queue[1].expiry \in Nat /\ t \in Nat
  BY <1>1 DEF Element
<1>3. queue[1].expiry = Secs(t) + (LeaseTime + 1) /\ began <= now
  BY <1>1 DEF LeaseInv, ExpiryIsFromTaken, ClockInv, ExpiryTime
<1>4. Secs(began) <= Secs(now) /\ Secs(began) \in Nat /\ Secs(now) \in Nat /\ Secs(t) \in Nat
  BY <1>1, <1>2, <1>3, SecondsGrow, SecondOfTick
<1>5. LeaseTime \in Nat
  BY ClockAssumption
<1>6. Secs(t) + (LeaseTime + 1) <= Secs(now)
  BY <1>2, <1>3, <1>4, <1>5 DEF HasExpired
<1>7. Second * (Secs(t) + (LeaseTime + 1)) <= Second * Secs(now)
  <2>1. PICK a \in Int : a = Secs(t) + (LeaseTime + 1)
    BY <1>4, <1>5
  <2>2. PICK b \in Int : b = Secs(now)
    BY <1>4
  <2>3. a <= b
    BY <1>6, <2>1, <2>2
  <2>4. Second * a <= Second * b
    BY <2>3, Multiples
  <2> QED
    BY <2>1, <2>2, <2>4
<1>8. Second * (Secs(t) + (LeaseTime + 1)) = Second * Secs(t) + (Second * LeaseTime + Second)
  <2>1. Second * (Secs(t) + (LeaseTime + 1)) = Second * Secs(t) + Second * (LeaseTime + 1)
    BY <1>4, <1>5, Multiples
  <2>2. Second * (LeaseTime + 1) = Second * LeaseTime + Second
    BY <1>5, Multiples
  <2> QED
    BY <2>1, <2>2
<1>9. /\ Second * Secs(t) \in Nat /\ t < Second * Secs(t) + Second
      /\ Second * Secs(now) \in Nat /\ Second * Secs(now) <= now
  BY <1>1, <1>2, SecondOfTick
<1>10. Second * LeaseTime \in Int /\ Second \in Nat
  BY <1>5, Multiples, ClockAssumption
<1> QED
  BY <1>1, <1>2, <1>7, <1>8, <1>9, <1>10

LEMMA NextImplements ==
  TypeOK /\ LeaseInv /\ [Next]_vars => [Contract!Next]_(Contract!vars)
<1> SUFFICES ASSUME TypeOK, LeaseInv, [Next]_vars
             PROVE  Contract!Next \/ UNCHANGED Contract!vars
  OBVIOUS
<1>1. ASSUME NEW o \in Object, Take(o) PROVE Contract!Take(o)
  <2>1. phase = "live" /\ UNCHANGED <<now, phase>> /\ taken' = [taken EXCEPT ![o] = now]
    BY <1>1 DEF Take
  <2>2. hash[o] = NoLink <=> ~\E i \in DOMAIN queue : queue[i].object = o
    BY <2>1, HashFinds
  <2>3. refs[o] = IF hash[o] = NoLink THEN 0 ELSE 1
    BY <2>2 DEF LeaseInv, IndexMatchesQueue
  <2>4. refs' = [refs EXCEPT ![o] = 1]
    <3>1. refs \in [Object -> Nat]
      BY DEF TypeOK
    <3>2. refs' = IF hash[o] = NoLink THEN [refs EXCEPT ![o] = @ + 1] ELSE refs
      BY <1>1 DEF Take
    <3>3. CASE hash[o] = NoLink
      BY <2>3, <3>1, <3>2, <3>3
    <3>4. CASE hash[o] # NoLink
      <4>1. refs' = refs /\ refs[o] = 1
        BY <2>3, <3>2, <3>4
      <4>2. \A x \in Object : [refs EXCEPT ![o] = 1][x] = refs[x]
        BY <3>1, <4>1
      <4>3. [refs EXCEPT ![o] = 1] \in [Object -> Nat]
        BY <3>1
      <4> QED
        BY <3>1, <4>1, <4>2, <4>3
    <3> QED
      BY <3>3, <3>4
  <2> QED
    BY <2>1, <2>4 DEF Contract!Take
<1>2. ASSUME queue # <<>>, refs' = Released(queue[1].object),
             phase = "live" => now - taken[queue[1].object] >= Second * LeaseTime,
             UNCHANGED <<now, phase, taken>>
      PROVE  \E o \in Object : Contract!Release(o)
  <2>1. 1 \in DOMAIN queue /\ queue[1].object \in Object
    <3>1. queue \in Seq(Element)
      BY DEF TypeOK
    <3>2. 1 \in DOMAIN queue /\ queue[1] \in Element
      BY <1>2, <3>1
    <3> QED
      BY <3>2 DEF Element
  <2>2. refs[queue[1].object] = 1
    BY <2>1 DEF LeaseInv, IndexMatchesQueue
  <2>3. refs' = [refs EXCEPT ![queue[1].object] = 0]
    BY <1>2, <2>1, <2>2 DEF Released, TypeOK
  <2> QED
    BY <1>2, <2>1, <2>2, <2>3 DEF Contract!Release
<1>3. CASE Expire
  BY <1>2, <1>3, ExpiresLate DEF Expire, HasExpired, Contract!Next
<1>4. CASE DisposeHead
  BY <1>2, <1>4 DEF DisposeHead, Contract!Next
<1>5. CASE BeginDispose
  BY <1>5 DEF BeginDispose, Contract!Next, Contract!Close
<1>6. CASE Tick
  BY <1>6 DEF Tick, Contract!Next, Contract!Tick
<1>7. CASE BeginExpiry \/ EndExpiry \/ UNCHANGED vars
  BY <1>7 DEF BeginExpiry, EndExpiry, vars, Contract!vars
<1>8. CASE Finalize
  BY <1>8 DEF Finalize, Contract!vars
<1> QED
  BY <1>1, <1>3, <1>4, <1>5, <1>6, <1>7, <1>8 DEF Next, Contract!Next

\* Every run of the leases is a run of the contract: no lease ends before its
\* minimum, and an object is held by one reference however often it was sent.
THEOREM LeasesKeepContract == Spec => KeepsContract
<1>1. Init => Contract!Init
  BY ClockAssumption DEF Init, Contract!Init
<1>2. TypeOK /\ LeaseInv /\ [Next]_vars => [Contract!Next]_(Contract!vars)
  BY NextImplements
<1> QED
  BY <1>1, <1>2, Inductive, PTL DEF Spec, KeepsContract, Contract!Spec

-----------------------------------------------------------------------------
(* The timeout *)

\* A timeout is set exactly while leases are held or expiry_func runs, and it
\* is due when the first lease expires or before.
TimerInv ==
  phase = "live" =>
    /\ began # Never => timer # Never
    /\ began = Never /\ queue = <<>> => timer = Never
    /\ began = Never /\ queue # <<>> =>
         timer \in Int /\ timer # Never /\ timer <= Second * (queue[1].expiry + 1)

LEMMA SmallModulo ==
  ASSUME NEW n \in Nat, NEW m \in Nat, n < m
  PROVE  n % m = n
OBVIOUS

\* The interval does not wrap when the head has not expired yet and its lease
\* is not longer than a lease can be.
LEMMA WakeTimeInTime ==
  ASSUME NEW t \in Nat, NEW x \in Nat, t = now, Secs(t) <= x, x <= Secs(t) + LeaseTime + 1,
         NEW q \in Seq(Element), q # <<>>, q[1].expiry = x
  PROVE  WakeTime(q) \in Nat /\ WakeTime(q) <= Second * (x + 1)
<1> DEFINE d == x - Secs(t)
<1>1. Secs(t) \in Nat /\ LeaseTime \in Nat /\ UintSize \in Nat /\ UintSize > LeaseTime + 1
  BY SecondOfTick, ClockAssumption
<1>2. d \in Nat /\ d < UintSize /\ x = Secs(t) + d
  BY <1>1
<1>3. d % UintSize = d
  BY <1>1, <1>2, SmallModulo
<1>4. WakeTime(q) = t + Second * d
  BY <1>3 DEF WakeTime
<1> HIDE DEF d
<1>5. Second * x = Second * Secs(t) + Second * d /\ Second * d \in Int
  BY <1>1, <1>2, Multiples
<1>6. Second * (x + 1) = Second * x + Second /\ Second * x \in Int
  BY Multiples
<1>7. Second * 0 <= Second * d
  BY <1>2, Multiples
<1>8. /\ Second * Secs(t) \in Nat /\ t < Second * Secs(t) + Second
      /\ Second \in Nat /\ Second * 0 = 0
  BY SecondOfTick, ClockAssumption
<1> QED
  BY <1>4, <1>5, <1>6, <1>7, <1>8

\* A lease that has just been taken, or moved, never comes before the lease
\* that was the head.
LEMMA TakeKeepsTimer ==
  ASSUME TypeOK, LeaseInv, TypeOK', LeaseInv', TimerInv, NEW o \in Object, Take(o)
  PROVE  TimerInv'
<1>1. /\ phase = "live" /\ now \in Nat /\ queue \in Seq(Element) /\ queue' \in Seq(Element)
      /\ UNCHANGED <<now, began, phase>>
      /\ timer' = IF timer = Never THEN WakeTime(queue') ELSE timer
      /\ taken \in [Object -> Nat]
  BY DEF Take, TypeOK
<1>2. /\ Rest(o) \in Seq(Element)
      /\ \A i \in 1..Len(Rest(o)) :
           /\ Rest(o)[i] \in Element /\ Rest(o)[i].object # o
      /\ \A x \in Object : (\E i \in 1..Len(Rest(o)) : Rest(o)[i].object = x)
           <=> x # o /\ \E i \in DOMAIN queue : queue[i].object = x
  BY <1>1, RestKeeps
<1> DEFINE newTime == Secs(now) + ExpiryTime
<1>3. PICK e \in Element : queue' = Append(Rest(o), e) /\ e.expiry = newTime
  <2>1. PICK l \in Link, x \in Object :
          queue' = Append(Rest(o), [link |-> l, object |-> x, expiry |-> newTime])
    <3>1. hash[o] # NoLink => queue[Position(hash[o])].object = o
      BY <1>1, HashFinds
    <3> QED
      BY <3>1 DEF Take, Rest, Push
  <2>2. newTime \in Nat
    <3>1. Secs(now) \in Nat
      BY <1>1, SecondOfTick
    <3>2. ExpiryTime \in Nat
      BY ClockAssumption DEF ExpiryTime
    <3> QED
      BY <3>1, <3>2
  <2> HIDE DEF newTime
  <2> DEFINE e == [link |-> l, object |-> x, expiry |-> newTime]
  <2>3. e \in Element /\ e.expiry = newTime
    BY <2>2 DEF Element
  <2> QED
    BY <2>1, <2>3
<1>4. newTime \in Nat /\ newTime = Secs(now) + (LeaseTime + 1) /\ Secs(now) \in Nat
  <2>1. Secs(now) \in Nat
    BY <1>1, SecondOfTick
  <2> QED
    BY <2>1, ClockAssumption DEF ExpiryTime
<1> HIDE DEF newTime
<1>5. queue' # <<>>
  BY <1>2, <1>3
<1>6. CASE began # Never
  BY <1>1, <1>5, <1>6, WakeTimeType DEF TimerInv, WakeTime
<1>7. CASE began = Never /\ timer = Never
  <2>1. queue = <<>>
    BY <1>1, <1>7 DEF TimerInv
  <2>2. Rest(o) = <<>>
    <3>1. hash[o] = NoLink
      BY <1>1, <2>1, HashFinds
    <3> QED
      BY <2>1, <3>1 DEF Rest
  <2>3. PICK q \in Seq(Element) : q = queue'
    BY <1>1
  <2>4. q # <<>> /\ q[1].expiry = newTime
    <3>1. PICK r \in Seq(Element) : r = Rest(o)
      BY <1>2
    <3>2. Len(r) = 0 /\ Append(r, e) # <<>> /\ Append(r, e)[Len(r) + 1] = e
      BY <2>2, <3>1
    <3> QED
      BY <1>3, <2>3, <3>1, <3>2
  <2>5. WakeTime(q) \in Nat /\ WakeTime(q) <= Second * (newTime + 1)
    <3>1. Secs(now) <= newTime /\ newTime <= Secs(now) + LeaseTime + 1
      BY <1>4, ClockAssumption
    <3>2. PICK t \in Nat : t = now
      BY <1>1
    <3> QED
      BY <1>4, <2>4, <3>1, <3>2, WakeTimeInTime
  <2>6. timer' = WakeTime(q)
    BY <1>1, <1>7, <2>3
  <2> QED
    BY <1>1, <1>7, <2>3, <2>4, <2>5, <2>6, NoneAssumption DEF TimerInv
<1>8. CASE began = Never /\ timer # Never
  <2>1. queue # <<>> /\ timer \in Int /\ timer <= Second * (queue[1].expiry + 1)
    BY <1>1, <1>8 DEF TimerInv
  <2>2. 1 \in DOMAIN queue /\ queue[1] \in Element /\ queue[1].expiry \in Nat
    <3>1. 1 \in DOMAIN queue /\ queue[1] \in Element
      BY <1>1, <2>1
    <3> QED
      BY <3>1 DEF Element
  <2>3. queue'[1].expiry \in Nat /\ queue[1].expiry <= queue'[1].expiry
    <3>1. CASE Rest(o) = <<>>
      <4>1. queue'[1].expiry = newTime
        BY <1>2, <1>3, <3>1
      <4>2. /\ queue[1].object \in Object
            /\ queue[1].expiry = Secs(taken[queue[1].object]) + ExpiryTime
            /\ taken[queue[1].object] \in Nat /\ taken[queue[1].object] <= now
        BY <1>1, <2>2 DEF LeaseInv, ExpiryIsFromTaken, ClockInv, Element
      <4>3. /\ Secs(taken[queue[1].object]) <= Secs(now)
            /\ Secs(taken[queue[1].object]) \in Nat
        BY <1>1, <4>2, SecondsGrow, SecondOfTick
      <4> QED
        BY <1>4, <4>1, <4>2, <4>3, ClockAssumption DEF ExpiryTime
    <3>2. CASE Rest(o) # <<>>
      <4>1. queue'[1] = Rest(o)[1] /\ 1 \in 1..Len(Rest(o)) /\ Rest(o)[1] \in Element
        BY <1>2, <1>3, <3>2
      <4>2. PICK i \in DOMAIN queue : Rest(o)[1] = queue[i]
        <5>1. CASE hash[o] = NoLink
          BY <1>1, <4>1, <5>1 DEF Rest
        <5>2. CASE hash[o] # NoLink
          <6>1. Position(hash[o]) \in 1..Len(queue)
            BY <1>1, <5>2, HashFinds
          <6>2. Rest(o) = RemoveAt(queue, Position(hash[o]))
            BY <5>2 DEF Rest, WithoutLink
          <6>3. Left(Position(hash[o]), Rest(o))
            BY <1>1, <6>1, <6>2, RemoveAtElements DEF Left
          <6>4. Rest(o)[1] = queue[Skip(Position(hash[o]), 1)]
            BY <4>1, <6>3 DEF Left
          <6>5. 1 \in 1..(Len(queue) - 1)
            BY <4>1, <6>3 DEF Left
          <6>6. Skip(Position(hash[o]), 1) \in 1..Len(queue)
            BY <1>1, <6>1, <6>5, SkipOrder
          <6> QED
            BY <1>1, <6>4, <6>6
        <5> QED
          BY <5>1, <5>2
      <4>3. i \in DOMAIN queue /\ 1 \in DOMAIN queue /\ (i = 1 \/ 1 < i)
        BY <1>1, <2>2
      <4>4. queue[1].expiry <= queue[i].expiry
        BY <2>2, <4>3 DEF LeaseInv, QueueIsSorted
      <4> QED
        BY <4>1, <4>2, <4>4 DEF Element
    <3> QED
      BY <3>1, <3>2
  <2>4. Second * (queue[1].expiry + 1) <= Second * (queue'[1].expiry + 1)
    <3>1. PICK a \in Int : a = queue[1].expiry + 1
      BY <2>2
    <3>2. PICK b \in Int : b = queue'[1].expiry + 1
      BY <2>3
    <3>3. a <= b
      BY <2>2, <2>3, <3>1, <3>2
    <3> QED
      BY <3>1, <3>2, <3>3, Multiples
  <2>5. Second * (queue[1].expiry + 1) \in Int /\ Second * (queue'[1].expiry + 1) \in Int
    BY <2>2, <2>3, ClockAssumption
  <2>6. timer' = timer /\ timer <= Second * (queue'[1].expiry + 1)
    BY <1>1, <1>8, <2>1, <2>4, <2>5
  <2> QED
    BY <1>1, <1>5, <1>8, <2>1, <2>6 DEF TimerInv
<1> QED
  BY <1>6, <1>7, <1>8

\* The second reading of the clock is not past the head's expiry, as long as
\* the finalizers run for no more than a second.
LEMMA EndKeepsTimer ==
  ASSUME MaxPause <= Second, TypeOK, LeaseInv, EndExpiry
  PROVE  TimerInv'
<1>1. /\ now \in Nat /\ began \in Nat /\ queue \in Seq(Element) /\ queue' = queue
      /\ taken \in [Object -> Nat] /\ timer' = WakeTime(queue) /\ began' = Never
      /\ began <= now /\ now <= began + MaxPause
  BY DEF EndExpiry, TypeOK, LeaseInv, ClockInv
<1>2. CASE queue = <<>>
  BY <1>1, <1>2 DEF TimerInv, WakeTime
<1>3. CASE queue # <<>>
  <2> DEFINE x == queue[1].expiry
             o == queue[1].object
  <2>1. queue[1] \in Element /\ 1 \in DOMAIN queue
    BY <1>1, <1>3
  <2>2. x \in Nat /\ o \in Object /\ taken[o] \in Nat
    BY <1>1, <2>1 DEF Element
  <2>3. x = Secs(taken[o]) + (LeaseTime + 1) /\ taken[o] <= now
    BY <2>1, <2>2 DEF LeaseInv, ExpiryIsFromTaken, ClockInv, ExpiryTime
  <2>4. /\ Secs(taken[o]) <= Secs(now) /\ Secs(taken[o]) \in Nat
        /\ Secs(now) \in Nat /\ Secs(began) \in Nat
    BY <1>1, <2>2, <2>3, SecondsGrow, SecondOfTick
  <2>5. Secs(began) < x
    BY <1>1, <1>3, <2>2, <2>4 DEF EndExpiry, HasExpired
  <2>6. Secs(now) <= Secs(began) + 1
    <3>1. SUFFICES ASSUME Secs(began) + 1 < Secs(now) PROVE FALSE
      BY <2>4
    <3>2. PICK a \in Int : a = Secs(began) + 1
      BY <2>4
    <3>3. Second * a + Second <= Second * Secs(now)
      BY <2>4, <3>1, <3>2, Multiples
    <3>4. Second * a = Second * Secs(began) + Second
      BY <2>4, <3>2, Multiples
    <3>5. /\ Second * Secs(began) \in Nat /\ began < Second * Secs(began) + Second
          /\ Second * Secs(now) \in Nat /\ Second * Secs(now) <= now
          /\ Second \in Nat /\ MaxPause \in Nat
      BY <1>1, SecondOfTick, ClockAssumption
    <3> QED
      BY <1>1, <3>3, <3>4, <3>5
  <2>7. Secs(now) <= x /\ x <= Secs(now) + LeaseTime + 1
    BY <2>2, <2>3, <2>4, <2>5, <2>6, ClockAssumption
  <2>8. WakeTime(queue) \in Nat /\ WakeTime(queue) <= Second * (x + 1)
    <3>1. PICK t \in Nat : t = now
      BY <1>1
    <3> QED
      BY <1>1, <1>3, <2>2, <2>7, <3>1, WakeTimeInTime
  <2> QED
    BY <1>1, <1>3, <2>8, NoneAssumption DEF TimerInv
<1> QED
  BY <1>2, <1>3

LEMMA NextKeepsTimer ==
  ASSUME MaxPause <= Second
  PROVE  /\ TypeOK /\ LeaseInv /\ TypeOK' /\ LeaseInv' /\ TimerInv /\ [Next]_vars
         => TimerInv'
<1> SUFFICES ASSUME TypeOK, LeaseInv, TypeOK', LeaseInv', TimerInv, [Next]_vars
             PROVE  TimerInv'
  OBVIOUS
<1>1. ASSUME NEW o \in Object, Take(o) PROVE TimerInv'
  BY <1>1, TakeKeepsTimer
<1>2. CASE EndExpiry
  BY <1>2, EndKeepsTimer
<1>3. CASE BeginExpiry
  <2>1. began' # Never
    BY <1>3, NoneAssumption DEF BeginExpiry, TypeOK
  <2> QED
    BY <1>3, <2>1 DEF BeginExpiry, TimerInv
<1>4. CASE Expire
  BY <1>4 DEF Expire, TimerInv
<1>5. CASE BeginDispose \/ DisposeHead \/ Finalize
  BY <1>5 DEF BeginDispose, DisposeHead, Finalize, TimerInv
<1>6. CASE Tick \/ UNCHANGED vars
  BY <1>6 DEF Tick, vars, TimerInv
<1> QED
  BY <1>1, <1>2, <1>3, <1>4, <1>5, <1>6 DEF Next

\* While leases are held the timeout is set in time for the head of the queue,
\* if the finalizers that expiry_func runs take no more than a second.
THEOREM WakesInTime ==
  ASSUME MaxPause <= Second
  PROVE  Spec => []WakesForHead
<1>1. Init => TimerInv
  BY DEF Init, TimerInv
<1>2. TypeOK /\ LeaseInv /\ TypeOK' /\ LeaseInv' /\ TimerInv /\ [Next]_vars => TimerInv'
  BY NextKeepsTimer
<1>3. TimerInv => WakesForHead
  BY DEF TimerInv, WakesForHead
<1> QED
  BY <1>1, <1>2, <1>3, Inductive, PTL DEF Spec
=============================================================================

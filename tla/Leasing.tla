------------------------------- MODULE Leasing -------------------------------
(***************************************************************************)
(* Leases on accessible objects (atk-adaptor/accessible-leasing.c).  A     *)
(* queue of expiry times, a hash from an object to its link in the queue,  *)
(* and one timeout for the head of the queue.  The clock is read twice in  *)
(* expiry_func, before the leases are ended and when the next timeout is   *)
(* set; in between the finalizers of the released objects run.  They may   *)
(* take time, and they may lead to further calls of spi_leasing_take.      *)
(***************************************************************************)
EXTENDS Integers, Sequences, SequencesExt

CONSTANTS Object,     \* accessible objects
          Link,       \* addresses of list nodes
          NoLink,     \* a hash entry that does not exist
          Never,      \* no timeout is set, no expiry_func runs
          Second,     \* clock ticks in a second
          LeaseTime,  \* LEASE_TIME_S
          UintSize,   \* 2^32: next_expiry is a guint
          MaxPause,   \* bound: ticks that pass within expiry_func
          LastTake,   \* bound: no object is sent after this tick
          MaxTime     \* bound: the clock

ASSUME ClockAssumption ==
  /\ Second \in Nat \ {0} /\ LeaseTime \in Nat /\ MaxPause \in Nat
  /\ UintSize \in Nat /\ UintSize > LeaseTime + 1
ASSUME NoneAssumption == NoLink \notin Link /\ Never \notin Nat

VARIABLES
  now,     \* g_get_monotonic_time
  queue,   \* leasing->expiry_queue
  hash,    \* leasing->expiry_queue_hash
  refs,    \* references the leases hold on each object
  timer,   \* expiry_func_id: when the timeout is due
  began,   \* when the expiry_func that is running began
  phase,   \* the SpiLeasing is live, disposing or gone
  taken    \* history: when each object was last leased

vars == <<now, queue, hash, refs, timer, began, phase, taken>>

Element == [link : Link, object : Object, expiry : Nat]
Links(q) == {q[i].link : i \in DOMAIN q}
Secs(t) == t \div Second

\* EXPIRY_TIME_S.  (Fault: the part of a second that is cut off is forgotten.)
ExpiryTimeShort == LeaseTime
ExpiryTime == LeaseTime + 1

\* add_expiry_timeout when no timeout is set: due for the head of q.
\* (Faults: a whole lease from now on; no timeout after some leases ended.)
WakeTimeFull(q) == IF q = <<>> THEN Never ELSE now + Second * ExpiryTime
WakeTimeLost(q) == IF q = <<>> \/ began # Never THEN Never ELSE now + Second * ExpiryTime
WakeTime(q) ==
  IF q = <<>> THEN Never
  ELSE now + Second * ((q[1].expiry - Secs(now)) % UintSize)

\* The hash after the lease on o ended.  (Fault: it keeps the old link.)
ForgetKept(o) == hash
Forget(o) == [hash EXCEPT ![o] = NoLink]

\* g_object_unref of the object of an ended lease
Released(o) == [refs EXCEPT ![o] = @ - 1]

\* g_queue_push_tail
Push(q, e) == Append(q, e)

\* g_queue_delete_link
Position(l) == CHOOSE i \in DOMAIN queue : queue[i].link = l
WithoutLink(l) == RemoveAt(queue, Position(l))

-----------------------------------------------------------------------------
\* spi_leasing_take: an earlier lease is moved to the tail with its element
\* and its reference, otherwise the object is referenced.
Take(o) ==
  LET old == hash[o]
      rest == IF old = NoLink THEN queue ELSE WithoutLink(old)
      held == IF old = NoLink THEN o ELSE queue[Position(old)].object
  IN /\ phase = "live" /\ now <= LastTake
     /\ \E l \in Link \ Links(rest) :
          /\ queue' = Push(rest, [link |-> l, object |-> held,
                                  expiry |-> Secs(now) + ExpiryTime])
          /\ hash' = [hash EXCEPT ![o] = l]
     /\ refs' = IF old = NoLink THEN [refs EXCEPT ![o] = @ + 1] ELSE refs
     /\ timer' = IF timer = Never THEN WakeTime(queue') ELSE timer
     /\ taken' = [taken EXCEPT ![o] = now]
     /\ UNCHANGED <<now, began, phase>>

\* expiry_func reads the clock.  A timeout in seconds may come a little early,
\* as GLib groups such timeouts.
BeginExpiry ==
  /\ phase = "live" /\ began = Never /\ timer # Never /\ now >= timer - 1
  /\ began' = now
  /\ UNCHANGED <<now, queue, hash, refs, timer, phase, taken>>

HasExpired == queue # <<>> /\ queue[1].expiry <= Secs(began)

\* One turn of its loop: the lease at the head ends.
Expire ==
  /\ began # Never /\ HasExpired
  /\ queue' = Tail(queue)
  /\ hash' = Forget(queue[1].object)
  /\ refs' = Released(queue[1].object)
  /\ UNCHANGED <<now, timer, began, phase, taken>>

\* Its end: the next timeout is set from a new reading of the clock.
EndExpiry ==
  /\ began # Never /\ ~HasExpired
  /\ began' = Never
  /\ timer' = WakeTime(queue)
  /\ UNCHANGED <<now, queue, hash, refs, phase, taken>>

\* g_clear_object: no caller can reach the SpiLeasing any more.
BeginDispose ==
  /\ phase = "live" /\ began = Never
  /\ phase' = "disposing"
  /\ UNCHANGED <<now, queue, hash, refs, timer, began, taken>>

\* spi_leasing_dispose: the hash is not kept up to date, its key is another.
DisposeHead ==
  /\ phase = "disposing" /\ queue # <<>>
  /\ queue' = Tail(queue)
  /\ refs' = Released(queue[1].object)
  /\ UNCHANGED <<now, hash, timer, began, phase, taken>>

\* spi_leasing_finalize
Finalize ==
  /\ phase = "disposing" /\ queue = <<>>
  /\ phase' = "gone" /\ timer' = Never
  /\ UNCHANGED <<now, queue, hash, refs, began, taken>>

Tick ==
  /\ now < MaxTime
  /\ began # Never => now < began + MaxPause
  /\ now' = now + 1
  /\ UNCHANGED <<queue, hash, refs, timer, began, phase, taken>>

-----------------------------------------------------------------------------
Init ==
  /\ now \in 0..(Second - 1)
  /\ queue = <<>> /\ hash = [o \in Object |-> NoLink]
  /\ refs = [o \in Object |-> 0]
  /\ timer = Never /\ began = Never /\ phase = "live"
  /\ taken = [o \in Object |-> 0]

Next ==
  \/ \E o \in Object : Take(o)
  \/ BeginExpiry \/ Expire \/ EndExpiry
  \/ BeginDispose \/ DisposeHead \/ Finalize
  \/ Tick

Spec == Init /\ [][Next]_vars

\* Time passes, a due timeout is dispatched, and expiry_func and the dispose
\* of the SpiLeasing run to their ends.
Fairness ==
  /\ WF_vars(Tick) /\ WF_vars(BeginExpiry) /\ WF_vars(Expire \/ EndExpiry)
  /\ WF_vars(DisposeHead \/ Finalize)

FairSpec == Spec /\ Fairness

-----------------------------------------------------------------------------
(* Correctness *)

TypeOK ==
  /\ now \in Nat
  /\ queue \in Seq(Element)
  /\ hash \in [Object -> Link \cup {NoLink}]
  /\ refs \in [Object -> Nat]
  /\ timer \in Int \cup {Never}
  /\ began \in Nat \cup {Never}
  /\ phase \in {"live", "disposing", "gone"}
  /\ taken \in [Object -> Nat]

\* The queue and its index agree: an object has at most one lease, its hash
\* entry is the link of that lease, and it is referenced once for it.  The
\* links the hash holds are not those of nodes that were freed.
IndexMatchesQueue ==
  /\ \A i, j \in DOMAIN queue :
       i # j => queue[i].link # queue[j].link /\ queue[i].object # queue[j].object
  /\ \A i \in DOMAIN queue : hash[queue[i].object] = queue[i].link
  /\ phase = "live" => \A o \in Object :
       hash[o] # NoLink => \E i \in DOMAIN queue : queue[i].object = o
  /\ \A o \in Object :
       refs[o] = IF \E i \in DOMAIN queue : queue[i].object = o THEN 1 ELSE 0

\* "Events are always later in time to previously added events": only the
\* head of the queue has to be watched.
QueueIsSorted ==
  \A i, j \in DOMAIN queue : i < j => queue[i].expiry <= queue[j].expiry

\* The lease at the head ends on time: while leases are held a timeout is set,
\* and it is due when the first lease expires or before.
WakesForHead ==
  phase = "live" /\ queue # <<>> /\ began = Never =>
    timer # Never /\ timer <= Second * (queue[1].expiry + 1)

Contract == INSTANCE LeaseContract WITH
  LeaseTicks <- Second * LeaseTime, open <- phase = "live"

\* The lease keeps its promise to the client, "the lease time should be
\* considered a MINIMUM": the quantized times, the single timeout and the
\* moving of elements to the tail never end a lease early.
KeepsContract == Contract!Spec

\* Every lease ends, once the object is no longer sent.
EveryLeaseEnds == \A o \in Object : refs[o] > 0 ~> refs[o] = 0
=============================================================================

-------------------------- MODULE AccessibleObjects --------------------------
(***************************************************************************)
(* The objects of an application as the bridge keeps them: the register of *)
(* object paths (atk-adaptor/accessible-register.c), the cache of the tree *)
(* (accessible-cache.c, adaptors/cache-adaptor.c), the references that are *)
(* sent and the leases taken for them (object.c), and the removal of       *)
(* defunct objects (event.c).                                              *)
(*                                                                         *)
(* An object lives while references to it are held: by the toolkit, by its *)
(* lease (which ends as LeaseContract says), by the queue of objects to    *)
(* add and by the traversal that adds them.  The toolkit runs in the       *)
(* thread of the bridge; Within names what it may do in the calls that the *)
(* traversal makes to it.                                                  *)
(***************************************************************************)
EXTENDS Naturals, Sequences, FiniteSets, SequencesExt

CONSTANTS Object,     \* accessible objects
          Root,       \* spi_global_app_data->root
          NoObject,   \* no parent; an entry that does not exist
          Special,    \* objects that may be transient or leaves
          RefSize,    \* 2^32: reference_counter is a guint
          Within,     \* of "attach", "defunct" and "release", see above
          MaxQueue    \* bound: objects in the queue when one is attached

ASSUME RootAssumption ==
  /\ Root \in Object \ Special /\ Special \subseteq Object /\ NoObject \notin Object
ASSUME FiniteAssumption == IsFiniteSet(Object)
ASSUME RefAssumption == RefSize \in Nat /\ RefSize > 1

VARIABLES
  parent,   \* the toolkit's tree
  owned,    \* objects the toolkit holds a reference to
  defunct,  \* objects with ATK_STATE_DEFUNCT
  transient,\* objects with ATK_STATE_TRANSIENT
  leaves,   \* objects with ATK_STATE_MANAGES_DESCENDANTS
  refs,     \* reference counts; 0 once finalized
  leased,   \* objects with a lease
  reg,      \* the register: counter, the SPI_DBUS_ID of each object (0: none),
            \* ptr (ref2ptr), and weak, the objects it has a weak reference to
  cached,   \* the keys of cache->objects
  queue,    \* cache->add_traversal
  toAdd,    \* to_add of add_pending_items
  phase,    \* add_pending_items scans the queue, adds to the cache or is not running
  idle,     \* add_pending_idle # 0
  active    \* the listeners for ATK's events are installed (see Bridge)

states == <<transient, leaves>>
toolkitVars == <<parent, owned, defunct, states>>
traversalVars == <<toAdd, phase>>
vars == <<toolkitVars, refs, leased, reg, cached, queue, traversalVars, idle, active>>

Ref == 1..(RefSize - 1)
Alive(o) == refs[o] > 0

\* A change by the toolkit.
May(op) == phase # "none" => op \in Within

\* p is not o and not below o.
NotBelow(p, o) ==
  \E S \in SUBSET (Object \ {o}) :
    p \in S /\ \A x \in S : parent[x] = NoObject \/ parent[x] \in S

Children(o) == {c \in Object : parent[c] = o}

-----------------------------------------------------------------------------
(* References to objects *)

\* assign_reference.  (Fault: numbered by the objects that are registered.)
NextRefReused(r) == Cardinality(r.weak) + 1
NextRef(r) == IF (r.counter + 1) % RefSize = 0 THEN 1 ELSE r.counter + 1

\* spi_register_object_to_path: the register r after the path of o was asked for.
\* The root has a path of its own.
Registered(r, o) ==
  IF o = Root \/ r.id[o] # 0 THEN r
  ELSE LET ref == NextRef(r)
       IN [counter |-> ref, id |-> [r.id EXCEPT ![o] = ref],
           ptr |-> [r.ptr EXCEPT ![ref] = o], weak |-> r.weak \cup {o}]

\* spi_register_path_to_object for the path that o had, or has.
Resolve(o) ==
  IF o = Root THEN Root ELSE IF reg.id[o] = 0 THEN NoObject ELSE reg.ptr[reg.id[o]]

\* spi_object_lease_if_needed with the cache as given; the lease takes a
\* reference unless there is one already.
Leased(in, held, o) == IF o \in in THEN held ELSE held \cup {o}
Taken(count, held) ==
  [o \in Object |-> IF o \in held \ leased THEN count[o] + 1 ELSE count[o]]

\* Weak references are notified when the last reference goes: cache_weak_ref,
\* deregister_object.  (Fault: the cache has none.)
WithoutGoneKept(in, gone) == in
WithoutGone(in, gone) == in \ gone
Deregistered(r, gone) ==
  [r EXCEPT !.weak = @ \ gone,
            !.ptr = [x \in Ref |-> IF \E o \in gone \cap r.weak : r.id[o] = x
                                   THEN NoObject ELSE @[x]]]

\* The counts, the register and the cache become those given, less what is
\* finalized by that.
Settle(count, r, in) ==
  LET gone == {o \in Object : count[o] = 0}
  IN /\ refs' = count
     /\ reg' = Deregistered(r, gone)
     /\ cached' = WithoutGone(in, gone)

-----------------------------------------------------------------------------
(* The toolkit *)

\* child_added_listener, and toplevel_added_listener for the root: the root's
\* new child is queued by both.  (Fault: only the latter is there.)
ListenersRoot(p) == IF p = Root THEN 1 ELSE 0
Listeners(p) == IF p \notin cached THEN 0 ELSE IF p = Root THEN 2 ELSE 1

Attach(o, p) ==
  /\ May("attach") /\ Len(queue) < MaxQueue
  /\ o \in owned \ {Root} /\ parent[o] = NoObject
  /\ p \in owned /\ NotBelow(p, o)
  /\ parent' = [parent EXCEPT ![o] = p]
  /\ queue' = queue \o [i \in 1..Listeners(p) |-> o]
  /\ refs' = [refs EXCEPT ![o] = @ + Listeners(p)]
  /\ idle' = (idle \/ Listeners(p) > 0)
  /\ UNCHANGED <<owned, defunct, states, leased, reg, cached, traversalVars, active>>

Detach(o) ==
  /\ May("release") /\ parent[o] # NoObject
  /\ parent' = [parent EXCEPT ![o] = NoObject]
  /\ UNCHANGED <<owned, defunct, states, refs, leased, reg, cached, queue,
                 traversalVars, idle, active>>

\* The toolkit's last reference to an object without children.
Release(o) ==
  /\ May("release")
  /\ o \in owned \ {Root} /\ parent[o] = NoObject /\ Children(o) = {}
  /\ owned' = owned \ {o}
  /\ Settle([refs EXCEPT ![o] = @ - 1], reg, cached)
  /\ UNCHANGED <<parent, defunct, states, leased, queue, traversalVars, idle, active>>

\* The cache when the signal RemoveAccessible refers to o.  (Fault: the object
\* is removed before the signal is sent.)
CacheAtRemovalAfter(o) == cached \ {o}
CacheAtRemoval(o) == cached

\* spi_register_deregister_object with unref, and remove_object on its signal:
\* an object that is not in the cache loses its first place in the queue.
\* (Fault: the queue's reference is kept.)
UnqueuedKeeping(count, o) == count
Unqueued(count, o) == [count EXCEPT ![o] = @ - 1]

Deregister(o, r, held) ==
  IF r.id[o] = 0
  THEN Settle(Taken(refs, held), r, cached) /\ leased' = held /\ UNCHANGED queue
  ELSE LET without == [Deregistered(r, {o}) EXCEPT !.ptr[r.id[o]] = NoObject]
           sent == IF o \in cached THEN Leased(CacheAtRemoval(o), held, o) ELSE held
           waits == o \notin cached /\ Contains(queue, o)
           count == Taken(refs, sent)
       IN /\ Settle(IF waits THEN Unqueued(count, o) ELSE count, without, cached \ {o})
          /\ leased' = sent
          /\ queue' = IF waits THEN RemoveFirst(queue, o) ELSE queue

\* An object becomes defunct.  state_event_listener, if it is installed, emits
\* the event if that is needed and deregisters the object.
Defunct(o) ==
  /\ May("defunct")
  /\ o \in owned \ ({Root} \cup defunct)
  /\ defunct' = defunct \cup {o}
  /\ IF active
     THEN \E needed \in BOOLEAN :
            IF needed THEN Deregister(o, Registered(reg, o), Leased(cached, leased, o))
            ELSE Deregister(o, reg, leased)
     ELSE UNCHANGED <<refs, leased, reg, cached, queue>>
  /\ UNCHANGED <<parent, owned, states, traversalVars, idle, active>>

-----------------------------------------------------------------------------
(* The main loop of the bridge *)

\* A reply or an event refers to an object: spi_object_append_reference.
SendReference(o) ==
  /\ phase = "none" /\ Alive(o)
  /\ reg' = Registered(reg, o)
  /\ leased' = Leased(cached, leased, o)
  /\ refs' = Taken(refs, leased')
  /\ UNCHANGED <<toolkitVars, cached, queue, traversalVars, idle, active>>

LeaseEnds(o) ==
  /\ phase = "none" /\ o \in leased
  /\ leased' = leased \ {o}
  /\ Settle([refs EXCEPT ![o] = @ - 1], reg, cached)
  /\ UNCHANGED <<toolkitVars, queue, traversalVars, idle, active>>

\* The first client comes or the last one goes: spi_atk_register_event_listeners,
\* spi_atk_deregister_event_listeners.  The listeners of the cache stay.
Clients ==
  /\ phase = "none"
  /\ active' = ~active
  /\ UNCHANGED <<toolkitVars, refs, leased, reg, cached, queue, traversalVars, idle>>

\* add_pending_items is dispatched.
Begin ==
  /\ phase = "none" /\ idle
  /\ phase' = "scan"
  /\ UNCHANGED <<toolkitVars, refs, leased, reg, cached, queue, toAdd, idle, active>>

\* Whose children are queued, once their parent was taken from the queue.
\* (Fault: the test for the cache is the wrong way round.)
ScansChildrenCached(o) == o \in cached \ (leaves \cup defunct)
ScansChildren(o) == o \notin cached \cup leaves \cup defunct

\* One turn of its first loop.
Scan ==
  /\ phase = "scan" /\ queue # <<>>
  /\ LET o == Head(queue)
         kids == IF ScansChildren(o) THEN Children(o) ELSE {}
     IN IF o \in transient
        THEN /\ queue' = Tail(queue)
             /\ Settle([refs EXCEPT ![o] = @ - 1], reg, cached)
             /\ UNCHANGED toAdd
        ELSE /\ \E s \in SetToSeqs(kids) : queue' = Tail(queue) \o s
             /\ toAdd' = Append(toAdd, o)
             /\ refs' = [c \in Object |-> IF c \in kids THEN refs[c] + 1 ELSE refs[c]]
             /\ UNCHANGED <<reg, cached>>
  /\ UNCHANGED <<toolkitVars, leased, phase, idle, active>>

EndScan ==
  /\ phase = "scan" /\ queue = <<>>
  /\ phase' = "add"
  /\ UNCHANGED <<toolkitVars, refs, leased, reg, cached, queue, toAdd, idle, active>>

\* add_object: a new object is announced, with references to it and its parent.
\* One turn of the second loop.
Add ==
  /\ phase = "add" /\ toAdd # <<>>
  /\ toAdd' = Tail(toAdd)
  /\ LET o == Head(toAdd)
         in == cached \cup {o}
         named == IF o \in cached THEN {} ELSE {o, parent[o]} \ {NoObject}
         held == IF named = {} \/ parent[o] = NoObject THEN leased
                 ELSE Leased(in, leased, parent[o])
         own == IF named = {} THEN reg ELSE Registered(reg, o)
         both == IF named = {} \/ parent[o] = NoObject THEN own
                 ELSE Registered(own, parent[o])
     IN /\ Settle([Taken(refs, held) EXCEPT ![o] = @ - 1], both, in)
        /\ leased' = held
  /\ UNCHANGED <<toolkitVars, queue, phase, idle, active>>

\* The id is reset.
End ==
  /\ phase = "add" /\ toAdd = <<>>
  /\ phase' = "none" /\ idle' = FALSE
  /\ UNCHANGED <<toolkitVars, refs, leased, reg, cached, queue, toAdd, active>>

-----------------------------------------------------------------------------
\* The cache was filled when there was only the root.
Init ==
  /\ parent = [o \in Object |-> NoObject] /\ owned = Object /\ defunct = {}
  /\ transient \in SUBSET Special /\ leaves \in SUBSET (Special \ transient)
  /\ refs = [o \in Object |-> 1] /\ leased = {}
  /\ reg = [counter |-> 0, id |-> [o \in Object |-> 0],
            ptr |-> [r \in Ref |-> NoObject], weak |-> {}]
  /\ cached = {Root} /\ queue = <<>> /\ toAdd = <<>>
  /\ phase = "none" /\ idle = FALSE /\ active = TRUE

Traversal == Begin \/ Scan \/ EndScan \/ Add \/ End

Next ==
  \/ Traversal \/ Clients
  \/ \E o \in Object :
       \/ \E p \in Object : Attach(o, p)
       \/ Detach(o) \/ Release(o) \/ Defunct(o)
       \/ SendReference(o) \/ LeaseEnds(o)

Spec == Init /\ [][Next]_vars

\* The main loop dispatches the idle.
FairSpec == Spec /\ WF_vars(Traversal)

-----------------------------------------------------------------------------
(* Correctness *)

Holds(S, o) == IF o \in S THEN 1 ELSE 0
Places(s, o) == Cardinality({i \in DOMAIN s : s[i] = o})

\* No reference is leaked or dropped twice, whatever the interleaving of adding,
\* leasing and becoming defunct (accessible-cache.c:174-194, 248-335;
\* object.c:58-65): each is that of a holder.
RefsBalanced ==
  \A o \in Object :
    refs[o] = Holds(owned, o) + Holds(leased, o) + Places(queue, o) + Places(toAdd, o)

\* Paths lead to the object they were given for or nowhere: to it while it lives
\* and is not defunct, nowhere once it is finalized
\* (accessible-register.c:193-270).  The cache holds no finalized object.
PathsLeadHome ==
  /\ \A o \in Object :
       /\ Resolve(o) \in {o, NoObject}
       /\ Alive(o) /\ o \notin defunct /\ reg.id[o] # 0 => Resolve(o) = o
       /\ ~Alive(o) => Resolve(o) = NoObject /\ o \notin cached

\* What belongs to the cache: the children of those in it that are no leaves.
Belongs(o) ==
  /\ parent[o] \in cached \ (leaves \cup defunct)
  /\ o \notin transient \cup defunct

\* When no idle is pending the cache has all of the tree that belongs to it,
\* however subtrees were built, moved and queued (accessible-cache.c:286-434).
TreeIsCached == ~idle => \A o \in Object : Belongs(o) => o \in cached

\* An object that becomes defunct while it is in the cache is not kept alive by
\* the signals about it (event.c:750-755, accessible-cache.c:174-190).
DefunctIsNotKept ==
  [][\A o \in cached : o \in defunct' \ defunct => o \notin leased' \ leased]_vars

\* What is added below an object in the cache gets into the cache
\* (xml/Cache.xml:83, "AddAccessible: to be emitted when a new object is added").
AddedIsAnnounced == \A o \in Object : Belongs(o) ~> (o \in cached \/ ~Belongs(o))
=============================================================================

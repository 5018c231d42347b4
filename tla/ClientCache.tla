----------------------------- MODULE ClientCache -----------------------------
(***************************************************************************)
(* The lists of children that libatspi keeps for the objects of one        *)
(* application, next to the tree they are copied from.  The application's  *)
(* bridge announces objects once they are in its cache (AddAccessible, and *)
(* GetItems for all of them), sends ChildrenChanged for every change at    *)
(* once, and announces defunct objects (AccessibleObjects has the bridge's *)
(* side in detail).  The client applies what it receives and asks for the  *)
(* children that its lists lack.                                           *)
(*                                                                         *)
(* Signals come over the bus and are deferred to an idle of the client;    *)
(* replies are handled as they are read, and may come on a connection of   *)
(* their own.  So the signals keep their order among themselves, and a     *)
(* reply is handled at any time before or after the signals that are on    *)
(* their way with it.  What the client has may go wrong in four ways,      *)
(* which raced remembers: "outdated", a signal that tells a parent is      *)
(* handled before an older reply to GetItems that tells another one;       *)
(* "overtaking", any other message is handled before an older one;         *)
(* "early", GetItems is answered while the bridge's cache lacks new        *)
(* objects; "moved", an object is in that cache while its parent is not.   *)
(***************************************************************************)
EXTENDS Naturals, Sequences, FiniteSets, SequencesExt

CONSTANTS Object,   \* accessible objects of the application
          Root,     \* the application
          None,     \* no object
          Hole,     \* a place whose child is not known to the client
          Gone,     \* an instance that was disposed
          MaxOps,   \* bound: changes of the tree
          MaxWire,  \* bound: messages on their way when one is sent
          MaxRaces, \* bound: kinds of races that happen
          MaxReads  \* bound: calls of GetChildAtIndex

ASSUME ObjectAssumption ==
  /\ IsFiniteSet(Object) /\ Root \in Object /\ {None, Hole, Gone} \cap Object = {}
  /\ Cardinality({None, Hole, Gone}) = 3 /\ None \notin Nat
ASSUME BoundAssumption == {MaxOps, MaxWire, MaxRaces, MaxReads} \subseteq Nat

VARIABLES
  kids,    \* the toolkit's tree: the children of each object, in order
  dead,    \* defunct objects
  known,   \* the bridge's cache
  queue,   \* objects to be added to it
  wire,    \* messages on their way to the client, or deferred by it
  filled,  \* the client called GetItems, see get_items_pending, get_items_finished
  view,    \* what the client has of each object, see Fresh
  raced,   \* see above
  ops, reads

serverVars == <<kids, dead, known, queue>>
vars == <<serverVars, wire, filled, view, raced, ops, reads>>

Index(s, x) == CHOOSE i \in DOMAIN s : s[i] = x

-----------------------------------------------------------------------------
(* The application and its bridge *)

Parents(o) == {p \in Object : Contains(kids[p], o)}
Parent(o) == IF Parents(o) = {} THEN None ELSE CHOOSE p \in Parents(o) : TRUE

NotBelow(p, o) ==
  \E S \in SUBSET (Object \ {o}) : p \in S /\ \A x \in S : Parent(x) \in S \cup {None}

Send(ms) == Len(wire) <= MaxWire /\ wire' = wire \o ms
Race(happens, which) ==
  /\ raced' = IF happens THEN raced \cup {which} ELSE raced
  /\ Cardinality(raced') <= MaxRaces
Change == ops < MaxOps /\ ops' = ops + 1

\* The toolkit adds o to the children of p: the new parent and the new child
\* are announced, and o is queued for the cache if p is in it.
Insert(o, p, i) ==
  /\ Change
  /\ Send(<<[kind |-> "parent", obj |-> o, parent |-> p],
            [kind |-> "added", src |-> p, index |-> i, child |-> o]>>)
  /\ i \in 0..Len(kids[p])
  /\ o \in Object \ (dead \cup {Root}) /\ Parent(o) = None
  /\ p \in Object \ dead /\ NotBelow(p, o)
  /\ kids' = [kids EXCEPT ![p] = InsertAt(@, i + 1, o)]
  /\ queue' = IF p \in known THEN Append(queue, o) ELSE queue
  /\ Race(o \in known /\ p \notin known, "moved")
  /\ UNCHANGED <<dead, known, filled, view, reads>>

\* It takes o away from its parent.  That there is no parent is not announced.
Take(o) ==
  /\ Change /\ Parent(o) # None
  /\ LET p == Parent(o)
     IN /\ kids' = [kids EXCEPT ![p] = RemoveFirst(@, o)]
        /\ Send(<<[kind |-> "removed", src |-> p, child |-> o]>>)
  /\ UNCHANGED <<dead, known, queue, filled, view, raced, reads>>

\* An object that has no parent any more becomes defunct: remove_object of the
\* bridge's cache.
Destroy(o) ==
  /\ Change
  /\ o \in Object \ (dead \cup {Root}) /\ Parent(o) = None
  /\ dead' = dead \cup {o} /\ kids' = [kids EXCEPT ![o] = <<>>]
  /\ known' = known \ {o}
  /\ IF o \in known
     THEN Send(<<[kind |-> "gone", obj |-> o]>>) /\ UNCHANGED queue
     ELSE queue' = RemoveFirst(queue, o) /\ UNCHANGED wire
  /\ UNCHANGED <<filled, view, raced, reads>>

\* append_cache_item
Item(o) ==
  [obj |-> o, parent |-> Parent(o), count |-> Len(kids[o]),
   index |-> IF Parent(o) = None THEN None ELSE Index(kids[Parent(o)], o) - 1]

\* A turn of the loops of add_pending_items: the first object that is left is taken
\* over, and its children are left to be, unless the cache has it.
Turn(t) ==
  LET o == Head(t.left)
  IN IF t.left = <<>> THEN t
     ELSE [new  |-> IF o \in known \/ Contains(t.new, o) THEN t.new ELSE Append(t.new, o),
           left |-> Tail(t.left) \o (IF o \in known THEN <<>> ELSE kids[o])]

\* What they find from the queue: each entry has at most all objects below it.
MaxTurns == Len(queue) * Cardinality(Object)
Turns[n \in 0..MaxTurns] ==
  IF n = 0 THEN [new |-> <<>>, left |-> queue] ELSE Turn(Turns[n - 1])
NewObjects == Turns[MaxTurns].new

\* The idle of the bridge, once the loops have ended.
Announce ==
  /\ queue # <<>> /\ queue' = <<>>
  /\ Turns[MaxTurns].left = <<>>
  /\ known' = known \cup Range(NewObjects)
  /\ Send([i \in DOMAIN NewObjects |-> [kind |-> "item", item |-> Item(NewObjects[i])]])
  /\ Race(\E o \in Range(NewObjects) : Parent(o) \notin known' \cup {None}, "moved")
  /\ UNCHANGED <<kids, dead, filled, view, ops, reads>>

-----------------------------------------------------------------------------
(* What the client makes of a message.  Its lists have objects, holes and   *)
(* instances that are gone.                                                 *)

Fresh == [kids |-> <<>>, parent |-> None, flag |-> FALSE]

\* g_ptr_array_set_size
Sized(s, n) == [i \in 1..n |-> IF i <= Len(s) THEN s[i] ELSE Hole]

\* The entry at the index becomes o; the list grows as needed.
\* (Fault: it is put in front of the entry.)
PlacedBefore(s, i, o) == IF i < Len(s) THEN InsertAt(s, i + 1, o) ELSE Append(Sized(s, i), o)
Placed(s, i, o) ==
  [Sized(s, IF i < Len(s) THEN Len(s) ELSE i + 1) EXCEPT ![i + 1] = o]

\* add_accessible_from_iter
WithItem(v, it) ==
  LET own == [v EXCEPT ![it.obj].parent = it.parent]
      put == IF it.index = None THEN own
             ELSE [own EXCEPT ![it.parent].kids = Placed(@, it.index, it.obj)]
  IN [put EXCEPT ![it.obj].kids = Sized(@, it.count), ![it.obj].flag = TRUE]

\* cache_process_children_changed: an index beyond the list ends the use of the
\* list.  (Fault: the index after the last is taken to be beyond it.)
WithAddedInside(v, m) ==
  LET rest == RemoveFirst(v[m.src].kids, m.child)
  IN IF ~v[m.src].flag THEN v
     ELSE IF m.index >= Len(rest)
          THEN [v EXCEPT ![m.src].kids = rest, ![m.src].flag = FALSE]
          ELSE [v EXCEPT ![m.src].kids = InsertAt(rest, m.index + 1, m.child)]
WithAdded(v, m) ==
  LET rest == RemoveFirst(v[m.src].kids, m.child)
  IN IF ~v[m.src].flag THEN v
     ELSE IF m.index > Len(rest)
          THEN [v EXCEPT ![m.src].kids = rest, ![m.src].flag = FALSE]
          ELSE [v EXCEPT ![m.src].kids = InsertAt(rest, m.index + 1, m.child)]

WithRemoved(v, m) ==
  IF ~v[m.src].flag THEN v ELSE [v EXCEPT ![m.src].kids = RemoveFirst(@, m.child)]

\* handle_remove_accessible, atspi_accessible_dispose: a later reference to o is
\* to a new instance.
Disposed(v, o) ==
  [x \in Object |->
     IF x = o THEN Fresh
     ELSE LET left == IF x = v[o].parent THEN RemoveFirst(v[x].kids, o) ELSE v[x].kids
          IN [v[x] EXCEPT
                !.kids = [i \in DOMAIN left |-> IF left[i] = o THEN Gone ELSE left[i]],
                !.parent = IF @ # o THEN @ ELSE IF Contains(v[o].kids, x) THEN None
                           ELSE Gone]]

\* cache_process_property_change.  (Fault: a parent is not replaced.)
WithParentOnce(v, m) ==
  IF v[m.obj].parent = None THEN [v EXCEPT ![m.obj].parent = m.parent] ELSE v
WithParent(v, m) == [v EXCEPT ![m.obj].parent = m.parent]

\* The end of atspi_accessible_get_child_at_index.
WithChild(v, m) ==
  IF ~v[m.src].flag THEN v
  ELSE [v EXCEPT ![m.src].kids = Placed(@, m.index, m.child)]

\* The items of a reply, one after the other.
WithItems(v, items) ==
  LET after[n \in 0..Len(items)] ==
        IF n = 0 THEN v ELSE WithItem(after[n - 1], items[n])
  IN after[Len(items)]

Handled(v, m) ==
  CASE m.kind = "parent" -> WithParent(v, m)
    [] m.kind = "added" -> WithAdded(v, m)
    [] m.kind = "removed" -> WithRemoved(v, m)
    [] m.kind = "gone" -> Disposed(v, m.obj)
    [] m.kind = "item" -> WithItem(v, m.item)
    [] m.kind = "items" -> WithItems(v, m.items)
    [] m.kind = "child" -> WithChild(v, m)

-----------------------------------------------------------------------------
(* The client *)

\* call_get_items once for the application, and impl_GetItems: the items in the order of a hash table.
GetItems ==
  /\ ~filled /\ filled' = TRUE
  /\ Race(queue # <<>>, "early")
  /\ \E s \in SetToSeqs(known) :
       Send(<<[kind |-> "items", items |-> [i \in DOMAIN s |-> Item(s[i])]]>>)
  /\ UNCHANGED <<serverVars, view, ops, reads>>

\* The call failed or was not answered in 2 s: it may be made again.
GetItemsFails ==
  /\ \E i \in DOMAIN wire : wire[i].kind = "items" /\ wire' = RemoveAt(wire, i)
  /\ filled' = FALSE
  /\ UNCHANGED <<serverVars, view, raced, ops, reads>>

Blocked == \E i \in DOMAIN wire : wire[i].kind = "child"

\* atspi_accessible_get_child_at_index, where the list does not tell.
GetChild(p, i) ==
  /\ reads < MaxReads /\ reads' = reads + 1
  /\ ~Blocked
  /\ p \in Object \ dead /\ i \in 0..(Len(kids[p]) - 1)
  /\ (view[p].flag /\ i < Len(view[p].kids)) => view[p].kids[i + 1] = Hole
  /\ Send(<<[kind |-> "child", src |-> p, index |-> i, child |-> kids[p][i + 1]]>>)
  /\ UNCHANGED <<serverVars, filled, view, raced, ops>>

\* Of the messages on their way, i may be the next to be handled: the signals are
\* in order, the replies need not be.
IsReply(m) == m.kind \in {"items", "child"}
Arrives(i) == IsReply(wire[i]) \/ \A j \in 1..(i - 1) : IsReply(wire[j])

\* The message m says that the parent of o is another one than p.
TellsOther(m, o, p) ==
  \/ m.kind = "parent" /\ m.obj = o /\ m.parent # p
  \/ m.kind = "item" /\ m.item.obj = o /\ m.item.parent # p
  \/ m.kind = "items" /\ \E i \in DOMAIN m.items : m.items[i].obj = o /\ m.items[i].parent # p

\* It contradicts an older reply to GetItems, which is still on its way.
Outdated(i) ==
  \E j \in 1..(i - 1) : wire[j].kind = "items" /\
    \E k \in DOMAIN wire[j].items :
      TellsOther(wire[i], wire[j].items[k].obj, wire[j].items[k].parent)

Handle ==
  /\ \E i \in DOMAIN wire :
       /\ Arrives(i)
       /\ Race(i # 1, IF Outdated(i) THEN "outdated" ELSE "overtaking")
       /\ view' = Handled(view, wire[i])
       /\ wire' = RemoveAt(wire, i)
  /\ UNCHANGED <<serverVars, filled, ops, reads>>

-----------------------------------------------------------------------------
\* The bridge starts with some children of the application in its cache.
Init ==
  /\ \E S \in SUBSET (Object \ {Root}) : \E s \in SetToSeqs(S) :
       /\ kids = [[o \in Object |-> <<>>] EXCEPT ![Root] = s]
       /\ known = {Root} \cup S
  /\ dead = {} /\ queue = <<>>
  /\ wire = <<>> /\ filled = FALSE
  /\ view = [o \in Object |-> Fresh]
  /\ raced = {} /\ ops = 0 /\ reads = 0

Next ==
  \/ Announce \/ GetItems \/ GetItemsFails \/ Handle
  \/ \E o \in Object : Take(o) \/ Destroy(o)
  \/ \E o, p \in Object, i \in 0..Cardinality(Object) : Insert(o, p, i)
  \/ \E p \in Object, i \in 0..Cardinality(Object) : GetChild(p, i)

Spec == Init /\ [][Next]_vars

-----------------------------------------------------------------------------
(* Correctness *)

Settled == wire = <<>> /\ queue = <<>>

\* "Gets the child of an object at a given index", and "the number of children":
\* once the messages are handled, a list that is in use is that of the toolkit,
\* without holes or instances that are gone (atspi-accessible.c:458-531).
ViewIsRight ==
  Settled /\ raced = {} =>
    \A o \in Object \ dead : view[o].flag => view[o].kids = kids[o]

\* An object with a parent has that parent at the client, however it moved and
\* whichever other message overtook another one: unless a signal with the parent was
\* handled before an older reply to GetItems, which then replaces the parent for good
\* (atspi-misc.c:631).
ParentIsRight ==
  Settled /\ filled /\ "outdated" \notin raced =>
    \A o \in known : Parent(o) # None => view[o].parent = Parent(o)

\* As long as nothing races the cache is not lost: once GetItems is answered, the
\* list of each object in it is in use and stays so.  A reply that overtakes an older
\* "added" may end the use of a list for good (atspi-event-listener.c:245-258).
ListsAreInUse ==
  Settled /\ filled /\ raced = {} => \A o \in known : view[o].flag
=============================================================================

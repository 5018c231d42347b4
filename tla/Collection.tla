----------------------------- MODULE Collection -----------------------------
(***************************************************************************)
(* org.a11y.atspi.Collection of the bridge (adaptors/collection-adaptor.c): *)
(* what meets a match rule, and the walks over the application's tree that  *)
(* answer GetMatches, GetMatchesFrom, GetMatchesTo and GetTree.             *)
(*                                                                         *)
(* A scenario is a tree with the properties of its objects and a rule.  A  *)
(* call is answered at once, and the tree does not change meanwhile.       *)
(***************************************************************************)
EXTENDS Integers, Sequences, FiniteSets, SequencesExt

CONSTANTS Object,      \* accessible objects
          NoObject,    \* NULL
          Scenario,    \* [kids, feature, rule], see above
          MaxChildren, \* ATSPI_MAX_CHILDREN
          Count        \* the counts that callers give; 0 is no limit

VARIABLES
  scene,   \* the scenario
  call,    \* the arguments of the last call
  answer   \* the objects of its reply, in order

vars == <<scene, call, answer>>

kids == scene.kids
feature == scene.feature
rule == scene.rule

Parents(o) == {p \in Object : Contains(kids[p], o)}
Parent(o) == IF Parents(o) = {} THEN NoObject ELSE CHOOSE p \in Parents(o) : TRUE
IndexInParent(o) == CHOOSE i \in DOMAIN kids[Parent(o)] : kids[Parent(o)][i] = o

\* atk_object_get_n_accessible_children, as it is capped; none for NULL.
NChildren(o) ==
  IF o = NoObject THEN 0
  ELSE IF Len(kids[o]) > MaxChildren THEN MaxChildren ELSE Len(kids[o])

-----------------------------------------------------------------------------
(* Match rules.  A criterion is a set of states, attributes, roles or       *)
(* interfaces and a match type.  Whether the rule is inverted is read and   *)
(* not used.                                                                *)

\* match_states_lookup and match_attributes_lookup on the object's set.
\* (Fault: one of the states is taken for all.)
SetMeetsSome(has, c) ==
  c.of = {} \/ IF c.how = "none" THEN c.of \cap has = {} ELSE c.of \cap has # {}
SetMeets(has, c) ==
  CASE c.how = "all" -> c.of \subseteq has
    [] c.how = "any" -> c.of = {} \/ c.of \cap has # {}
    [] c.how = "none" -> c.of \cap has = {}
    [] OTHER -> FALSE

\* match_roles_lookup: an object has one role, so it does not have all of two.
RoleMeets(role, c) == SetMeets({role}, c)

\* match_interfaces_lookup: no interface is one of none.
InterfacesMeet(has, c) ==
  IF c.how = "any" THEN c.of \cap has # {} ELSE SetMeets(has, c)

Meets(o) ==
  /\ InterfacesMeet(feature[o].interfaces, rule.interfaces)
  /\ SetMeets(feature[o].states, rule.states)
  /\ RoleMeets(feature[o].role, rule.roles)
  /\ SetMeets(feature[o].attributes, rule.attributes)

-----------------------------------------------------------------------------
(* Walks *)

\* (Fault: one more than asked for.)
FullLate(arr, max) == max # 0 /\ Len(arr) > max
Full(arr, max) == max # 0 /\ Len(arr) >= max

With(arr, o) == IF Meets(o) THEN Append(arr, o) ELSE arr

\* sort_order_canonical stops at pobj, on the level where it is found.
\* (Fault: it goes on.)
StopsNever(o, pobj) == FALSE
Stops(o, pobj) == o = pobj

\* From the child at index i of o; without flag that one is not added itself.
RECURSIVE Canonical(_, _, _, _, _, _, _)
Canonical(arr, max, o, i, flag, pobj, traverse) ==
  IF i > NChildren(o) \/ Full(arr, max) \/ Stops(kids[o][i], pobj) THEN arr
  ELSE LET child == kids[o][i]
           own == IF flag THEN With(arr, child) ELSE arr
           all == IF traverse THEN Canonical(own, max, child, 1, TRUE, pobj, traverse)
                  ELSE own
       IN Canonical(all, max, o, i + 1, TRUE, pobj, traverse)

RECURSIVE LastBelow(_)
LastBelow(o) == IF NChildren(o) = 0 THEN o ELSE LastBelow(kids[o][NChildren(o)])

\* The next step of sort_order_rev_canonical.
\* (Fault: it goes to the sibling itself.)
PreviousSibling(o) ==
  IF Parent(o) = NoObject \/ IndexInParent(o) = 1 THEN Parent(o)
  ELSE kids[Parent(o)][IndexInParent(o) - 1]
Previous(o) ==
  IF Parent(o) = NoObject \/ IndexInParent(o) = 1 THEN Parent(o)
  ELSE LastBelow(kids[Parent(o)][IndexInParent(o) - 1])

RECURSIVE Backwards(_, _, _, _, _)
Backwards(arr, max, o, flag, pobj) ==
  IF o = NoObject \/ o = pobj THEN arr
  ELSE LET all == IF flag /\ ~Full(arr, max) THEN With(arr, o) ELSE arr
       IN IF Full(all, max) THEN all ELSE Backwards(all, max, Previous(o), TRUE, pobj)

\* The loop of inorder: what is to the right of o and of its ancestors.
RECURSIVE RightOf(_, _, _, _)
RightOf(arr, max, o, collection) ==
  IF Full(arr, max) \/ o \in {NoObject, collection} THEN arr
  ELSE LET p == Parent(o)
           i == IF p = NoObject THEN 0 ELSE IndexInParent(o)
       IN RightOf(Canonical(arr, max, p, i + 1, TRUE, NoObject, TRUE), max, p, collection)

InOrder(max, collection, o) ==
  RightOf(Canonical(<<>>, max, o, 1, TRUE, NoObject, TRUE), max, o, collection)

\* query_exec: other orders are not implemented.
Query(c, o, i, flag, pobj) ==
  IF c.sortby \in {"canonical", "reverse"}
  THEN Canonical(<<>>, c.count, o, i, flag, pobj, c.traverse) ELSE <<>>

\* MANAGES_DESCENDANTS.  (Fault: it is not looked at.)
HidesNothing(o) == FALSE
Hides(o) == feature[o].leaf

\* append_accessible_properties, in the order of the objects.
RECURSIVE Tree(_)
Tree(o) ==
  <<o>> \o IF Hides(o) THEN <<>>
           ELSE FlattenSeq([i \in 1..NChildren(o) |-> Tree(kids[o][i])])

-----------------------------------------------------------------------------
(* The methods *)

\* return_and_free_array
Reply(c, arr, reversed) ==
  /\ call' = c
  /\ answer' = IF reversed THEN Reverse(arr) ELSE arr
  /\ UNCHANGED scene

Reversed(c) == c.sortby = "reverse"

\* impl_GetMatches
GetMatches(c) ==
  /\ c.method = "GetMatches"
  /\ Reply(c, Query(c, c.collection, 1, TRUE, NoObject), Reversed(c))

\* impl_GetMatchesFrom, by the kind of tree.
GetMatchesFrom(c) ==
  /\ c.method = "GetMatchesFrom"
  /\ LET arr ==
           CASE c.tree = "children" -> Query(c, c.current, 1, FALSE, NoObject)
             [] c.tree = "sibling" ->
                  LET p == Parent(c.current)
                  IN Query(c, p, IF p = NoObject THEN 1 ELSE IndexInParent(c.current),
                           FALSE, NoObject)
             [] c.tree = "inorder" -> InOrder(c.count, c.collection, c.current)
     IN Reply(c, arr, Reversed(c))

\* impl_GetMatchesTo; recurse is limit_scope.
GetMatchesTo(c) ==
  /\ c.method = "GetMatchesTo"
  /\ IF c.tree = "inorder"
     THEN Reply(c, Backwards(<<>>, c.count, c.current, FALSE, c.collection), Reversed(c))
     ELSE LET top == IF c.recurse THEN Parent(c.current) ELSE c.collection
          IN Reply(c, Query(c, top, 1, TRUE, c.current), ~Reversed(c))

\* impl_GetTree: the rule is read and not used.
GetTree(c) == c.method = "GetTree" /\ Reply(c, Tree(c.collection), FALSE)

Method == {"GetMatches", "GetMatchesFrom", "GetMatchesTo", "GetTree"}
Call ==
  [method : Method, collection : Object, current : Object, count : Count,
   sortby : {"canonical", "reverse", "flow"}, tree : {"children", "sibling", "inorder"},
   recurse : BOOLEAN, traverse : BOOLEAN]

NoCall == [method |-> "none"]

\* Arguments that a method does not have, or does not look at, have one value,
\* and the orders that are not implemented are tried once for each method.
Relevant(c) ==
  /\ c.sortby = "flow" => c.count = 0 /\ c.current = c.collection
  /\ c.method \in {"GetMatches", "GetTree"} =>
       c.current = c.collection /\ c.tree = "children" /\ c.recurse
  /\ c.method = "GetTree" => c.count = 0 /\ c.sortby = "canonical" /\ c.traverse
  /\ c.method = "GetMatchesFrom" => c.recurse
  /\ c.method = "GetMatchesTo" => c.tree # "children"
  /\ c.tree = "inorder" => c.traverse /\ c.recurse

Init == scene \in Scenario /\ call = NoCall /\ answer = <<>>

Next ==
  /\ call = NoCall
  /\ \E c \in {x \in Call : Relevant(x)} :
       GetMatches(c) \/ GetMatchesFrom(c) \/ GetMatchesTo(c) \/ GetTree(c)

Spec == Init /\ [][Next]_vars

-----------------------------------------------------------------------------
(* Correctness: against the order of a flattened hierarchy and the meaning  *)
(* of the match types                                                       *)

RECURSIVE Ancestry(_)
Ancestry(o) ==
  LET p == Parent(o)
  IN IF p = NoObject THEN <<>>
     ELSE Append(Ancestry(p), CHOOSE i \in DOMAIN kids[p] : kids[p][i] = o)

\* x comes before y in the flattened hierarchy, by the ways to them from the root.
Earlier(a, b) ==
  \/ IsStrictPrefix(a, b)
  \/ \E i \in DOMAIN a \cap DOMAIN b : a[i] < b[i] /\ SubSeq(a, 1, i - 1) = SubSeq(b, 1, i - 1)
Before(x, y) == Earlier(Ancestry(x), Ancestry(y))

Below(x, o) == IsStrictPrefix(Ancestry(o), Ancestry(x))

\* The objects of T in this order.
Sorted(T) ==
  LET placed == SetToSortSeq({<<Ancestry(o), o>> : o \in T}, LAMBDA x, y : Earlier(x[1], y[1]))
  IN [i \in 1..Cardinality(T) |-> placed[i][2]]

\* "#TRUE if all of the criteria are met", "any", "none" (atspi-constants.h:209-211),
\* "inverting it would match all objects that are not" (xml/Collection.xml:35-40).
\* A criterion that is empty is met by all.
Satisfies(o) ==
  LET has == [states |-> feature[o].states, attributes |-> feature[o].attributes,
              interfaces |-> feature[o].interfaces, roles |-> {feature[o].role}]
      Met(c, have) == \/ c.of = {}
                      \/ c.how = "all" /\ c.of \subseteq have
                      \/ c.how = "any" /\ c.of \cap have # {}
                      \/ c.how = "none" /\ c.of \cap have = {}
  IN rule.invert # \A k \in DOMAIN has : Met(rule[k], has[k])

\* No claim is made of what the code does not implement: other orders, the match
\* type "empty", and inverted rules, which are answered as if they were not; nor
\* of interfaces any of none, which no object has.
Implemented ==
  /\ call # NoCall /\ call.sortby # "flow"
  /\ \A k \in {"states", "attributes", "roles", "interfaces"} : rule[k].how # "empty"
  /\ ~rule.invert
  /\ ~(rule.interfaces.how = "any" /\ rule.interfaces.of = {})

\* The objects in S that satisfy the rule, in canonical order; the first of them as
\* far as the count goes; and the last of them, from the last to the first.
InOrderOf(S) == Sorted({o \in S : Satisfies(o)})
UpTo(s) == IF call.count = 0 \/ call.count > Len(s) THEN s ELSE SubSeq(s, 1, call.count)
First(S) == UpTo(InOrderOf(S))
Nearest(S) == UpTo(Reverse(InOrderOf(S)))

Turned(s) == IF call.sortby = "reverse" THEN Reverse(s) ELSE s

\* GetMatches gives the first descendants that satisfy the rule, or the first
\* children without traverse (impl_GetMatches).
DescendantsMatch ==
  Implemented /\ call.method = "GetMatches" =>
    answer = Turned(First({o \in Object : IF call.traverse THEN Below(o, call.collection)
                                          ELSE Parent(o) = call.collection}))

\* Among the descendants of its parent, or the siblings without traverse,
\* GetMatchesFrom gives the first of those after the current object and
\* GetMatchesTo the first of those before it, turned round: the way of
\* xml/Collection.xml:100-104 and 137-138 and of the tests
\* (atk_test_collection.c:118-130, 185-200), not that of xml/Collection.xml:113-117
\* and 134.  No claim is made of "children" in GetMatchesFrom, which passes the
\* first child over, nor of GetMatchesTo for an object deeper in the collection,
\* which goes on behind its parent (GetMatchesFrom, GetMatchesTo).
SiblingsMatch ==
  Implemented =>
    LET around == {o \in Object : IF call.traverse THEN \E p \in Parents(call.current) : Below(o, p)
                                  ELSE Parents(o) = Parents(call.current) /\ Parents(o) # {}}
    IN /\ call.method = "GetMatchesFrom" /\ call.tree = "sibling" =>
            answer = Turned(First({o \in around : Before(call.current, o)}))
       /\ call.method = "GetMatchesTo" /\ call.tree # "inorder"
            /\ (call.recurse \/ Parent(call.current) = call.collection) =>
            answer = Turned(Reverse(First({o \in around : Before(o, call.current)})))

\* A client that searches step by step misses no object and sees none twice: the
\* walks forwards and backwards from an object of the collection go to all that
\* comes after it there and to all that comes before it, nearest first, as far as
\* the count goes (inorder, sort_order_rev_canonical).
WalksAreComplete ==
  Implemented /\ call.tree = "inorder" /\ Below(call.current, call.collection) =>
    LET inside == {o \in Object : Below(o, call.collection)}
    IN answer = Turned(IF call.method = "GetMatchesFrom"
                       THEN First({o \in inside : Before(call.current, o)})
                       ELSE Nearest({o \in inside : Before(o, call.current)}))

\* GetTree names every object below once, in canonical order, but none below one
\* that manages its descendants; the rule is not looked at (impl_GetTree).
TreeIsWhole ==
  call # NoCall /\ call.method = "GetTree" =>
    LET shown == {o \in Object :
          /\ o = call.collection \/ Below(o, call.collection)
          /\ ~\E a \in Object : /\ feature[a].leaf /\ Below(o, a)
                                /\ a = call.collection \/ Below(a, call.collection)}
    IN answer = Sorted(shown)

\* What a search returns is what its own part of the flattened tree holds of the
\* objects that satisfy the rule, in the order asked for and up to the count, for
\* each kind of search that a claim is made of above (collection-adaptor.c:113-1222).
SearchesAgreeWithTree == DescendantsMatch /\ SiblingsMatch /\ WalksAreComplete /\ TreeIsWhole
=============================================================================

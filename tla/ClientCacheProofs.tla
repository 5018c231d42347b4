------------------------- MODULE ClientCacheProofs -------------------------
(***************************************************************************)
(* The client's cache, for any number of objects, changes, messages and    *)
(* races: it stays well formed, the parents it has get right, and, as long *)
(* as nothing races, so do its lists, which stay in use.                   *)
(***************************************************************************)
EXTENDS ClientCache, FiniteSetTheorems, WellFoundedInduction, TLAPS

-----------------------------------------------------------------------------
(* Induction over the turns of a loop *)

\* A set of numbers has a least one.
LEMMA Least ==
  ASSUME NEW I \in SUBSET Nat, I # {}
  PROVE  \E m \in I : \A j \in I : m <= j
<1>1. \E m \in I : \A j \in I : ~ (<<j, m>> \in OpToRel(<, Nat))
  BY NatLessThanWellFounded, WFMin
<1>2. PICK m \in I : \A j \in I : ~ (<<j, m>> \in OpToRel(<, Nat))
  BY <1>1
<1>3. \A i, j \in Nat : j < i => <<j, i>> \in OpToRel(<, Nat)
  BY DEF OpToRel
<1>4. \A j \in I : ~ (j < m)
  BY <1>2, <1>3
<1> QED BY <1>4

\* What holds before the loop and is kept by each turn holds after each.
LEMMA UpTo ==
  ASSUME NEW K \in Nat, NEW P, 0 \in P, \A n \in 1..K : n - 1 \in P => n \in P
  PROVE  0..K \subseteq P
<1> DEFINE I == {n \in 0..K : n \notin P}
<1>1. CASE I = {}
  BY <1>1
<1>2. CASE I # {}
  <2>1. I \in SUBSET Nat
    OBVIOUS
  <2> HIDE DEF I
  <2>2. PICK m \in I : \A j \in I : m <= j
    BY <1>2, <2>1, Least
  <2>3. m \in 0..K /\ m \notin P /\ m # 0
    BY DEF I
  <2>4. m - 1 \in 0..K /\ m \in 1..K /\ ~(m <= m - 1)
    BY <2>3
  <2>5. m - 1 \in P
    BY <2>2, <2>4 DEF I
  <2> QED BY <2>3, <2>4, <2>5
<1> QED BY <1>1, <1>2

\* The n-th value of a loop whose k-th turn is step[<<k, value>>].
Follows(f, n, a, step) ==
  f[0] = a /\ \A k \in 1..n : f[k] = step[<<k, f[k - 1]>>]

\* The values of a loop exist.
HasLoop(S, a, K, step) ==
  \E f \in [0..K -> S] : f = [n \in 0..K |-> IF n = 0 THEN a ELSE step[<<n, f[n - 1]>>]]

LEMMA LoopExists ==
  ASSUME NEW S, NEW a \in S, NEW K \in Nat, NEW step \in [(1..K) \X S -> S]
  PROVE  HasLoop(S, a, K, step)
<1> DEFINE P == {n \in 0..K : \E f \in [0..n -> S] : Follows(f, n, a, step)}
<1>1. 0 \in P
  <2>1. [k \in 0..0 |-> a] \in [0..0 -> S]
    OBVIOUS
  <2>2. Follows([k \in 0..0 |-> a], 0, a, step)
    BY DEF Follows
  <2> QED BY <2>1, <2>2
<1>2. ASSUME NEW n \in 1..K, n - 1 \in P PROVE n \in P
  <2>1. PICK f \in [0..(n - 1) -> S] : Follows(f, n - 1, a, step)
    BY <1>2
  <2> DEFINE g == [k \in 0..n |-> IF k = n THEN step[<<n, f[n - 1]>>] ELSE f[k]]
  <2>2. n - 1 \in 0..(n - 1) /\ n \in 0..K /\ n # 0
    OBVIOUS
  <2>3. f[n - 1] \in S
    BY <2>2
  <2>4. g \in [0..n -> S]
    BY <2>2, <2>3
  <2>5. g[n] = step[<<n, f[n - 1]>>] /\ \A k \in 0..(n - 1) : g[k] = f[k]
    BY <2>2
  <2>6. \A k \in 1..n : g[k] = step[<<k, g[k - 1]>>]
    <3> SUFFICES ASSUME NEW k \in 1..n PROVE g[k] = step[<<k, g[k - 1]>>]
      OBVIOUS
    <3> HIDE DEF g
    <3>1. CASE k = n
      BY <2>2, <2>5, <3>1
    <3>2. CASE k # n
      <4>1. k \in 1..(n - 1) /\ k \in 0..(n - 1) /\ k - 1 \in 0..(n - 1)
        BY <3>2
      <4> QED BY <2>1, <2>5, <4>1 DEF Follows
    <3> QED BY <3>1, <3>2
  <2>7. g[0] = a
    <3>1. 0 \in 0..(n - 1)
      OBVIOUS
    <3> QED BY <2>1, <2>5, <3>1 DEF Follows
  <2> HIDE DEF g
  <2> QED BY <2>2, <2>4, <2>6, <2>7 DEF Follows
<1>3. K \in P
  <2> HIDE DEF P
  <2>1. \A n \in 1..K : n - 1 \in P => n \in P
    BY <1>2
  <2>2. 0..K \subseteq P
    BY <1>1, <2>1, UpTo
  <2> QED BY <2>2
<1>4. PICK f \in [0..K -> S] : Follows(f, K, a, step)
  BY <1>3
<1>5. f = [n \in 0..K |-> IF n = 0 THEN a ELSE step[<<n, f[n - 1]>>]]
  <2>1. \A n \in 0..K : f[n] = IF n = 0 THEN a ELSE step[<<n, f[n - 1]>>]
    BY <1>4 DEF Follows
  <2> QED BY <2>1
<1> QED BY <1>5 DEF HasLoop

-----------------------------------------------------------------------------
(* Lists *)

\* An element is put into a list.
LEMMA InsertAtPlaces ==
  ASSUME NEW S, NEW s \in Seq(S), NEW e \in S, NEW i \in 1..(Len(s) + 1)
  PROVE  /\ InsertAt(s, i, e) \in Seq(S) /\ Len(InsertAt(s, i, e)) = Len(s) + 1
         /\ \A k \in 1..(i - 1) : InsertAt(s, i, e)[k] = s[k]
         /\ InsertAt(s, i, e)[i] = e
         /\ \A k \in (i + 1)..(Len(s) + 1) : InsertAt(s, i, e)[k] = s[k - 1]
<1> DEFINE a == SubSeq(s, 1, i - 1)
           b == SubSeq(s, i, Len(s))
           t == a \o <<e>> \o b
<1>1. /\ a \in Seq(S) /\ Len(a) = i - 1
      /\ \A k \in 1..(i - 1) : a[k] = s[k]
  OBVIOUS
<1>2. /\ b \in Seq(S) /\ Len(b) = Len(s) - i + 1
      /\ \A k \in 1..(Len(s) - i + 1) : b[k] = s[i + k - 1]
  OBVIOUS
<1>3. InsertAt(s, i, e) = t
  BY DEF InsertAt
<1> HIDE DEF a, b
<1>4. /\ t \in Seq(S) /\ Len(t) = Len(s) + 1
      /\ \A k \in 1..(i - 1) : t[k] = s[k]
      /\ t[i] = e
      /\ \A k \in (i + 1)..(Len(s) + 1) : t[k] = s[k - 1]
  <2> DEFINE c == <<e>> \o b
  <2>1. /\ c \in Seq(S) /\ Len(c) = Len(s) - i + 2 /\ c[1] = e
        /\ \A k \in 2..(Len(s) - i + 2) : c[k] = b[k - 1]
    BY <1>2
  <2>2. t = a \o c
    BY <1>1, <1>2, SMTT(40)
  <2> HIDE DEF c, t
  <2>3. t \in Seq(S) /\ Len(t) = Len(s) + 1
    BY <1>1, <2>1, <2>2
  <2>4. ASSUME NEW k \in 1..(i - 1) PROVE t[k] = s[k]
    BY <1>1, <2>1, <2>2, <2>4
  <2>5. t[i] = e
    BY <1>1, <2>1, <2>2
  <2>6. ASSUME NEW k \in (i + 1)..(Len(s) + 1) PROVE t[k] = s[k - 1]
    <3>1. t[k] = c[k - i + 1] /\ k - i + 1 \in 2..(Len(s) - i + 2)
      BY <1>1, <2>1, <2>2, <2>6
    <3>3. c[k - i + 1] = b[k - i]
      BY <2>1, <3>1
    <3>2. k - i \in 1..(Len(s) - i + 1) /\ i + (k - i) - 1 = k - 1
      BY <2>6
    <3> QED BY <1>2, <3>1, <3>2, <3>3
  <2> QED BY <2>3, <2>4, <2>5, <2>6
<1> QED BY <1>3, <1>4

\* It has that element and those it had.
LEMMA InsertAtElements ==
  ASSUME NEW S, NEW s \in Seq(S), NEW e \in S, NEW i \in 1..(Len(s) + 1)
  PROVE  /\ InsertAt(s, i, e) \in Seq(S)
         /\ \A x : Contains(InsertAt(s, i, e), x) <=> x = e \/ Contains(s, x)
<1> DEFINE t == InsertAt(s, i, e)
<1>1. /\ t \in Seq(S) /\ Len(t) = Len(s) + 1
      /\ \A k \in 1..(i - 1) : t[k] = s[k]
      /\ t[i] = e
      /\ \A k \in (i + 1)..(Len(s) + 1) : t[k] = s[k - 1]
  BY InsertAtPlaces, SMTT(30)
<1> HIDE DEF t
<1>2. ASSUME NEW x, Contains(t, x) PROVE x = e \/ Contains(s, x)
  <2>1. PICK k \in 1..(Len(s) + 1) : t[k] = x
    BY <1>1, <1>2 DEF Contains
  <2>2. CASE k < i
    BY <1>1, <2>1, <2>2, SMTT(40) DEF Contains
  <2>3. CASE k = i
    BY <1>1, <2>1, <2>3
  <2>4. CASE k > i
    <3>1. k - 1 \in 1..Len(s) /\ s[k - 1] = x
      BY <1>1, <2>1, <2>4
    <3> QED BY <3>1 DEF Contains
  <2> QED BY <2>1, <2>2, <2>3, <2>4
<1>3. Contains(t, e)
  <2>1. i \in 1..Len(t)
    BY <1>1
  <2> QED BY <1>1, <2>1 DEF Contains
<1>4. ASSUME NEW x, Contains(s, x) PROVE Contains(t, x)
  <2>1. PICK k \in 1..Len(s) : s[k] = x
    BY <1>4 DEF Contains
  <2>2. CASE k < i
    <3>1. k \in 1..(i - 1) /\ k \in 1..Len(t)
      BY <1>1, <2>1, <2>2
    <3> QED BY <1>1, <2>1, <3>1 DEF Contains
  <2>3. CASE k >= i
    <3>1. k + 1 \in (i + 1)..(Len(s) + 1) /\ k + 1 \in 1..Len(t) /\ (k + 1) - 1 = k
      BY <1>1, <2>1, <2>3
    <3> QED BY <1>1, <2>1, <3>1 DEF Contains
  <2> QED BY <2>1, <2>2, <2>3
<1> QED BY <1>1, <1>2, <1>3, <1>4 DEF t

\* Where the i-th element of a list was before the p-th was taken out.
Skip(p, i) == IF i < p THEN i ELSE i + 1

\* One is taken out.
LEMMA RemoveAtElements ==
  ASSUME NEW S, NEW s \in Seq(S), NEW p \in 1..Len(s)
  PROVE  /\ RemoveAt(s, p) \in Seq(S)
         /\ Len(RemoveAt(s, p)) = Len(s) - 1
         /\ \A i \in 1..(Len(s) - 1) : RemoveAt(s, p)[i] = s[Skip(p, i)]
<1> DEFINE a == SubSeq(s, 1, p - 1)
           b == SubSeq(s, p + 1, Len(s))
<1>1. /\ a \in Seq(S) /\ Len(a) = p - 1
      /\ \A i \in 1..(p - 1) : a[i] = s[i]
  OBVIOUS
<1>2. /\ b \in Seq(S) /\ Len(b) = Len(s) - p
      /\ \A i \in 1..(Len(s) - p) : b[i] = s[p + i]
  OBVIOUS
<1>3. RemoveAt(s, p) = a \o b
  BY DEF RemoveAt
<1> HIDE DEF a, b
<1>4. a \o b \in Seq(S) /\ Len(a \o b) = Len(s) - 1
  BY <1>1, <1>2
<1>5. ASSUME NEW i \in 1..(Len(s) - 1) PROVE (a \o b)[i] = s[Skip(p, i)]
  <2>1. CASE i < p
    BY <1>1, <1>2, <2>1 DEF Skip
  <2>2. CASE ~(i < p)
    <3>1. (a \o b)[i] = b[i - (p - 1)]
      BY <1>1, <1>2, <2>2
    <3>2. i - (p - 1) \in 1..(Len(s) - p) /\ p + (i - (p - 1)) = i + 1
      BY <2>2
    <3> QED BY <1>2, <2>2, <3>1, <3>2 DEF Skip
  <2> QED BY <2>1, <2>2
<1> QED BY <1>3, <1>4, <1>5

\* RemoveFirst takes out one element, or there is none to take out.
LEMMA RemoveFirstIs ==
  ASSUME NEW S, NEW s \in Seq(S), NEW x
  PROVE  \/ RemoveFirst(s, x) = s /\ ~Contains(s, x)
         \/ \E p \in 1..Len(s) : RemoveFirst(s, x) = RemoveAt(s, p) /\ s[p] = x
<1>1. CASE ~ \E i \in 1..Len(s) : s[i] = x
  BY <1>1 DEF RemoveFirst, Contains
<1>2. CASE \E i \in 1..Len(s) : s[i] = x
  <2> DEFINE I == {i \in 1..Len(s) : s[i] = x}
             p == CHOOSE i \in I : \A j \in I : i <= j
  <2>1. I \in SUBSET Nat /\ I # {}
    BY <1>2
  <2>2. p \in I
    <3> HIDE DEF I
    <3>1. \E i \in I : \A j \in I : i <= j
      BY <2>1, Least
    <3> QED BY <3>1
  <2>3. RemoveFirst(s, x) = RemoveAt(s, p)
    <3>1. SelectInSeq(s, LAMBDA v : v = x) = p
      BY <2>1 DEF SelectInSeq, Min
    <3> QED BY <1>2, <3>1 DEF RemoveFirst
  <2>4. p \in 1..Len(s) /\ s[p] = x
    BY <2>2
  <2> QED BY <2>3, <2>4
<1> QED BY <1>1, <1>2

\* The first of them, if any, is taken out.
LEMMA RemoveFirstElements ==
  ASSUME NEW S, NEW s \in Seq(S), NEW x
  PROVE  /\ RemoveFirst(s, x) \in Seq(S)
         /\ \A y : Contains(RemoveFirst(s, x), y) => Contains(s, y)
<1>1. CASE RemoveFirst(s, x) = s
  BY <1>1
<1>2. CASE \E p \in 1..Len(s) : RemoveFirst(s, x) = RemoveAt(s, p)
  <2>1. PICK p \in 1..Len(s) : RemoveFirst(s, x) = RemoveAt(s, p)
    BY <1>2
  <2>2. /\ RemoveAt(s, p) \in Seq(S)
        /\ Len(RemoveAt(s, p)) = Len(s) - 1
        /\ \A i \in 1..(Len(s) - 1) : RemoveAt(s, p)[i] = s[Skip(p, i)]
    BY RemoveAtElements
  <2>3. ASSUME NEW y, Contains(RemoveAt(s, p), y) PROVE Contains(s, y)
    <3>1. PICK i \in 1..(Len(s) - 1) : s[Skip(p, i)] = y
      BY <2>2, <2>3 DEF Contains
    <3>2. Skip(p, i) \in 1..Len(s)
      BY <3>1 DEF Skip
    <3> QED BY <3>1, <3>2 DEF Contains
  <2> QED BY <2>1, <2>2, <2>3
<1> QED BY <1>1, <1>2, RemoveFirstIs

\* A list gets another length, or a place in it another entry.
LEMMA SizedType ==
  ASSUME NEW S, Hole \in S, NEW s \in Seq(S), NEW n \in Nat
  PROVE  Sized(s, n) \in Seq(S) /\ Len(Sized(s, n)) = n
<1>1. \A i \in 1..n : (IF i <= Len(s) THEN s[i] ELSE Hole) \in S
  OBVIOUS
<1>2. Sized(s, n) \in [1..n -> S]
  BY <1>1 DEF Sized
<1> QED BY <1>2

LEMMA PlacedType ==
  ASSUME NEW S, Hole \in S, NEW s \in Seq(S), NEW i \in Nat, NEW o \in S
  PROVE  Placed(s, i, o) \in Seq(S)
<1> DEFINE n == IF i < Len(s) THEN Len(s) ELSE i + 1
           t == Sized(s, n)
<1>1. n \in Nat
  OBVIOUS
<1>2. Placed(s, i, o) = [t EXCEPT ![i + 1] = o]
  BY DEF Placed
<1> HIDE DEF n
<1>3. t \in Seq(S)
  BY <1>1, SizedType
<1> HIDE DEF t
<1>4. t \in [1..Len(t) -> S] /\ Len(t) \in Nat
  BY <1>3
<1>5. [t EXCEPT ![i + 1] = o] \in [1..Len(t) -> S]
  BY <1>4
<1>6. [t EXCEPT ![i + 1] = o] \in Seq(S)
  BY <1>4, <1>5
<1> QED BY <1>2, <1>6

-----------------------------------------------------------------------------
(* Types *)

Entry == Object \cup {Hole, Gone}
View == [kids : Seq(Entry), parent : Object \cup {None, Gone}, flag : BOOLEAN]
Views == [Object -> View]

\* What is sent of an object, and the messages.  An object with a place has a parent.
ObjectItem ==
  {it \in [obj : Object, parent : Object \cup {None}, count : Nat, index : Nat \cup {None}] :
     it.index # None => it.parent \in Object}
Message ==
  [kind : {"parent"}, obj : Object, parent : Object]
    \cup [kind : {"added"}, src : Object, index : Nat, child : Object]
    \cup [kind : {"removed"}, src : Object, child : Object]
    \cup [kind : {"gone"}, obj : Object]
    \cup [kind : {"item"}, item : ObjectItem]
    \cup [kind : {"items"}, items : Seq(ObjectItem)]
    \cup [kind : {"child"}, src : Object, index : Nat, child : Object]

TypeOK ==
  /\ kids \in [Object -> Seq(Object)]
  /\ dead \subseteq Object /\ known \subseteq Object /\ queue \in Seq(Object)
  /\ wire \in Seq(Message) /\ filled \in BOOLEAN
  /\ view \in Views

\* The message m says that p is the parent of o.
Tells(m, o, p) ==
  \/ m.kind = "parent" /\ m.obj = o /\ m.parent = p
  \/ m.kind = "item" /\ m.item.obj = o /\ m.item.parent = p
  \/ m.kind = "items" /\ \E i \in DOMAIN m.items : m.items[i].obj = o /\ m.items[i].parent = p

-----------------------------------------------------------------------------
(* What a message does to the cache *)

\* A list is replaced.
SetKids(v, o, s) == [v EXCEPT ![o].kids = s]
SetList(v, o, s, flag) == [v EXCEPT ![o].kids = s, ![o].flag = flag]

LEMMA KidsSet ==
  ASSUME NEW v \in Views, NEW o \in Object, NEW s \in Seq(Entry)
  PROVE  /\ SetKids(v, o, s) \in Views
         /\ \A x \in Object : SetKids(v, o, s)[x].parent = v[x].parent
<1>1. v[o] \in View
  BY DEF Views
<1>2. [v[o] EXCEPT !.kids = s] \in View /\ [v[o] EXCEPT !.kids = s].parent = v[o].parent
  BY <1>1 DEF View
<1> QED BY <1>2 DEF Views, SetKids

LEMMA ListSet ==
  ASSUME NEW v \in Views, NEW o \in Object, NEW s \in Seq(Entry), NEW flag \in BOOLEAN
  PROVE  /\ SetList(v, o, s, flag) \in Views
         /\ \A x \in Object : SetList(v, o, s, flag)[x].parent = v[x].parent
<1> DEFINE w == SetKids(v, o, s)
<1>1. w \in Views /\ \A x \in Object : w[x].parent = v[x].parent
  BY KidsSet
<1>2. SetList(v, o, s, flag) = [w EXCEPT ![o].flag = flag]
  BY DEF SetList, SetKids
<1> HIDE DEF w
<1>3. [w[o] EXCEPT !.flag = flag] \in View /\ [w[o] EXCEPT !.flag = flag].parent = w[o].parent
  <2>1. w[o] \in View
    BY <1>1 DEF Views
  <2> QED BY <2>1 DEF View
<1> QED BY <1>1, <1>2, <1>3 DEF Views

SetParent(v, o, p) == [v EXCEPT ![o].parent = p]
ParentIs(v, w, o, p) ==
  w \in Views /\ \A x \in Object : w[x].parent = IF x = o THEN p ELSE v[x].parent

LEMMA ParentSet ==
  ASSUME NEW v \in Views, NEW o \in Object, NEW p, p \in Object \/ p = None
  PROVE  ParentIs(v, SetParent(v, o, p), o, p)
<1>1. v[o] \in View
  BY DEF Views
<1>2. [v[o] EXCEPT !.parent = p] \in View /\ [v[o] EXCEPT !.parent = p].parent = p
  BY <1>1 DEF View
<1> QED BY <1>2 DEF Views, SetParent, ParentIs

LEMMA ItemHeard ==
  ASSUME NEW v \in Views, NEW it \in ObjectItem
  PROVE  /\ WithItem(v, it) \in Views
         /\ \A x \in Object :
              WithItem(v, it)[x].parent = IF x = it.obj THEN it.parent ELSE v[x].parent
<1> DEFINE own == SetParent(v, it.obj, it.parent)
           put == IF it.index = None THEN own
                  ELSE [own EXCEPT ![it.parent].kids = Placed(@, it.index, it.obj)]
           sized == Sized(put[it.obj].kids, it.count)
<1>1. /\ it.obj \in Object /\ it.parent \in Object \cup {None} /\ it.count \in Nat
      /\ it.index = None \/ (it.index \in Nat /\ it.parent \in Object)
  BY DEF ObjectItem
<1>2. /\ own \in Views
      /\ \A x \in Object : own[x].parent = IF x = it.obj THEN it.parent ELSE v[x].parent
  BY <1>1, ParentSet, SMTT(40) DEF ParentIs
<1>3. WithItem(v, it) = [put EXCEPT ![it.obj].kids = sized, ![it.obj].flag = TRUE]
  BY DEF WithItem, SetParent
<1> HIDE DEF own
<1>4. /\ put \in Views
      /\ \A x \in Object : put[x].parent = own[x].parent
  <2>1. CASE it.index = None
    BY <1>2, <2>1
  <2>2. CASE it.index # None
    <3>1. own[it.parent].kids \in Seq(Entry) /\ it.obj \in Entry /\ Hole \in Entry
      BY <1>1, <1>2, <2>2 DEF Views, View, Entry
    <3> DEFINE placed == Placed(own[it.parent].kids, it.index, it.obj)
               p == it.parent
    <3>2. placed \in Seq(Entry)
      BY <1>1, <2>2, <3>1, PlacedType
    <3>3. put = SetKids(own, p, placed) /\ p \in Object
      BY <1>1, <2>2 DEF SetKids
    <3> HIDE DEF placed, put, p
    <3> QED BY <1>2, <3>2, <3>3, KidsSet
  <2> QED BY <2>1, <2>2
<1> HIDE DEF put
<1>5. sized \in Seq(Entry)
  <2>1. put[it.obj].kids \in Seq(Entry) /\ Hole \in Entry
    BY <1>1, <1>4 DEF Views, View, Entry
  <2> QED BY <1>1, <2>1, SizedType
<1> HIDE DEF sized
<1>6. WithItem(v, it) = SetList(put, it.obj, sized, TRUE)
  BY <1>3 DEF SetList
<1>7. TRUE \in BOOLEAN
  OBVIOUS
<1>8. /\ SetList(put, it.obj, sized, TRUE) \in Views
      /\ \A x \in Object : SetList(put, it.obj, sized, TRUE)[x].parent = put[x].parent
  BY <1>1, <1>4, <1>5, <1>7, ListSet, Zenon
<1> QED BY <1>2, <1>4, <1>6, <1>8

\* The views after each of the items.
IsPath(f, v, items) ==
  /\ f \in [0..Len(items) -> Views] /\ f[0] = v
  /\ \A n \in 1..Len(items) : f[n] = WithItem(f[n - 1], items[n])
HasPath(v, items) == \E f : IsPath(f, v, items) /\ WithItems(v, items) = f[Len(items)]

LEMMA ItemsPath ==
  ASSUME NEW v \in Views, NEW items \in Seq(ObjectItem)
  PROVE  HasPath(v, items)
<1> DEFINE K == Len(items)
           step == [p \in (1..K) \X Views |-> WithItem(p[2], items[p[1]])]
           After(f) == [n \in 0..K |-> IF n = 0 THEN v ELSE WithItem(f[n - 1], items[n])]
           after == CHOOSE f : f = After(f)
           P == {n \in 0..K : after[n] \in Views}
<1>1. K \in Nat /\ \A n \in 1..K : items[n] \in ObjectItem
  OBVIOUS
<1>2. after = After(after)
  <2>1. \A p \in (1..K) \X Views : WithItem(p[2], items[p[1]]) \in Views
    BY <1>1, ItemHeard
  <2>2. step \in [(1..K) \X Views -> Views]
    BY <2>1
  <2> HIDE DEF step, K
  <2>7. HasLoop(Views, v, K, step)
    BY <1>1, <2>2, LoopExists
  <2>3. PICK f \in [0..K -> Views] :
          f = [n \in 0..K |-> IF n = 0 THEN v ELSE step[<<n, f[n - 1]>>]]
    BY <2>7 DEF HasLoop
  <2>4. \A n \in 1..K : <<n, f[n - 1]>> \in (1..K) \X Views
    BY <1>1, <2>3, SMTT(40)
  <2>5. \A n \in 1..K : step[<<n, f[n - 1]>>] = WithItem(f[n - 1], items[n])
    BY <2>4 DEF step
  <2>6. f = After(f)
    BY <1>1, <2>3, <2>5
  <2> QED BY <2>6
<1>3. WithItems(v, items) = after[K]
  BY DEF WithItems
<1> HIDE DEF after
<1>4. after[0] = v /\ \A n \in 1..K : after[n] = WithItem(after[n - 1], items[n])
  BY <1>1, <1>2
<1> HIDE DEF K, After
<1>5. 0 \in P
  BY <1>1, <1>4
<1>6. ASSUME NEW n \in 1..K, n - 1 \in P PROVE n \in P
  <2> DEFINE u == after[n - 1]
             it == items[n]
  <2>1. u \in Views /\ it \in ObjectItem /\ after[n] = WithItem(u, it)
    BY <1>1, <1>4, <1>6
  <2> HIDE DEF u, it
  <2>2. after[n] \in Views
    BY <2>1, ItemHeard
  <2> QED BY <2>2
<1>7. \A n \in 0..K : after[n] \in Views
  <2>1. 0..K \subseteq P
    <3> HIDE DEF P
    <3>1. \A n \in 1..K : n - 1 \in P => n \in P
      BY <1>6
    <3> QED BY <1>1, <1>5, <3>1, UpTo
  <2> QED BY <2>1
<1>8. after \in [0..K -> Views]
  BY <1>2, <1>7 DEF After
<1> QED BY <1>3, <1>4, <1>8 DEF HasPath, IsPath, K

\* Of a reply, the last item of an object counts.
Heard(v, w, items, n) ==
  \A x \in Object :
    \/ \E i \in 1..n : items[i].obj = x /\ items[i].parent = w[x].parent
    \/ w[x].parent = v[x].parent /\ \A i \in 1..n : items[i].obj # x

LEMMA ItemsHeard ==
  ASSUME NEW v \in Views, NEW items \in Seq(ObjectItem)
  PROVE  WithItems(v, items) \in Views /\ Heard(v, WithItems(v, items), items, Len(items))
<1> DEFINE K == Len(items)
<1>1. K \in Nat /\ \A n \in 1..K : items[n] \in ObjectItem
  OBVIOUS
<1>2. PICK after : IsPath(after, v, items) /\ WithItems(v, items) = after[K]
  BY ItemsPath DEF HasPath
<1> DEFINE P == {n \in 0..K : after[n] \in Views /\ Heard(v, after[n], items, n)}
<1>3. WithItems(v, items) = after[K]
  BY <1>2
<1>4. after[0] = v /\ \A n \in 1..K : after[n] = WithItem(after[n - 1], items[n])
  BY <1>2 DEF IsPath
<1> HIDE DEF K
<1>5. 0 \in P
  BY <1>1, <1>4 DEF Heard
<1>6. ASSUME NEW n \in 1..K, n - 1 \in P PROVE n \in P
  <2>1. after[n - 1] \in Views /\ Heard(v, after[n - 1], items, n - 1)
    BY <1>6
  <2>2. /\ after[n] \in Views
        /\ \A x \in Object : after[n][x].parent = IF x = items[n].obj THEN items[n].parent
                                                  ELSE after[n - 1][x].parent
    <3>1. items[n] \in ObjectItem /\ after[n] = WithItem(after[n - 1], items[n])
      BY <1>1, <1>4
    <3> HIDE DEF P
    <3> DEFINE u == after[n - 1]
               it == items[n]
    <3>2. u \in Views /\ it \in ObjectItem
      BY <2>1, <3>1
    <3> HIDE DEF u, it
    <3>3. /\ WithItem(u, it) \in Views
          /\ \A x \in Object : WithItem(u, it)[x].parent = IF x = it.obj THEN it.parent
                                                           ELSE u[x].parent
      BY <3>2, ItemHeard
    <3> QED BY <3>1, <3>3 DEF u, it
  <2>3. ASSUME NEW x \in Object
        PROVE  \/ \E i \in 1..n : items[i].obj = x /\ items[i].parent = after[n][x].parent
               \/ after[n][x].parent = v[x].parent /\ \A i \in 1..n : items[i].obj # x
    <3>1. n \in 1..n /\ \A i \in 1..n : i \in 1..(n - 1) \/ i = n
      BY <1>1
    <3>2. CASE x = items[n].obj
      BY <2>2, <3>1, <3>2
    <3>3. CASE x # items[n].obj
      <4>1. after[n][x].parent = after[n - 1][x].parent
        BY <2>2, <3>3
      <4>2. \A i \in 1..(n - 1) : i \in 1..n
        BY <1>1
      <4> QED BY <2>1, <3>1, <3>3, <4>1, <4>2 DEF Heard
    <3> QED BY <3>2, <3>3
  <2> QED BY <1>1, <2>2, <2>3 DEF Heard
<1>7. K \in P
  <2> HIDE DEF P
  <2>1. \A n \in 1..K : n - 1 \in P => n \in P
    BY <1>6
  <2>2. 0..K \subseteq P
    BY <1>1, <1>5, <2>1, UpTo
  <2> QED BY <1>1, <2>2
<1> QED BY <1>3, <1>7 DEF K
LEMMA DisposedHeard ==
  ASSUME NEW v \in Views, NEW o \in Object
  PROVE  /\ Disposed(v, o) \in Views
         /\ \A x \in Object : x # o /\ v[x].parent # o => Disposed(v, o)[x].parent = v[x].parent
<1> DEFINE Left(x) == IF x = v[o].parent THEN RemoveFirst(v[x].kids, o) ELSE v[x].kids
           Kids(x) == [i \in DOMAIN Left(x) |-> IF Left(x)[i] = o THEN Gone ELSE Left(x)[i]]
           Above(x) == IF v[x].parent # o THEN v[x].parent
                       ELSE IF Contains(v[o].kids, x) THEN None ELSE Gone
           w == Disposed(v, o)
<1>1. \A x \in Object : /\ v[x] \in View /\ v[x].kids \in Seq(Entry)
                        /\ v[x].parent \in Object \cup {None, Gone} /\ v[x].flag \in BOOLEAN
  BY DEF Views, View
<1>2. w = [x \in Object |-> IF x = o THEN Fresh
                            ELSE [v[x] EXCEPT !.kids = Kids(x), !.parent = Above(x)]]
  BY DEF Disposed
<1>3. Fresh \in View
  BY DEF Fresh, View
<1>4. ASSUME NEW x \in Object PROVE Kids(x) \in Seq(Entry)
  <2>1. Left(x) \in Seq(Entry)
    BY <1>1, RemoveFirstElements
  <2> HIDE DEF Left
  <2>2. Len(Left(x)) \in Nat /\ DOMAIN Left(x) = 1..Len(Left(x)) /\ Gone \in Entry
    BY <2>1 DEF Entry
  <2>3. Kids(x) \in [1..Len(Left(x)) -> Entry]
    BY <2>1, <2>2
  <2> HIDE DEF Kids
  <2> QED BY <2>2, <2>3
<1>5. ASSUME NEW x \in Object
      PROVE  /\ [v[x] EXCEPT !.kids = Kids(x), !.parent = Above(x)] \in View
             /\ [v[x] EXCEPT !.kids = Kids(x), !.parent = Above(x)].parent = Above(x)
  <2>1. Above(x) \in Object \cup {None, Gone}
    BY <1>1
  <2> HIDE DEF Kids, Above
  <2> QED BY <1>1, <1>4, <2>1 DEF View
<1> HIDE DEF Kids, w, Left
<1>6. w \in Views
  BY <1>2, <1>3, <1>5 DEF Views
<1>7. ASSUME NEW x \in Object, x # o, v[x].parent # o PROVE w[x].parent = v[x].parent
  BY <1>2, <1>5, <1>7
<1> QED BY <1>6, <1>7 DEF w

LEMMA ParentHeard ==
  ASSUME NEW v \in Views, NEW m, m.obj \in Object, m.parent \in Object
  PROVE  ParentIs(v, WithParent(v, m), m.obj, m.parent)
<1> DEFINE o == m.obj
           p == m.parent
<1>1. WithParent(v, m) = [v EXCEPT ![o].parent = p]
  BY DEF WithParent
<1>2. o \in Object /\ p \in Object
  OBVIOUS
<1> HIDE DEF o, p
<1>3. v[o] \in View
  BY <1>2 DEF Views
<1>4. [v[o] EXCEPT !.parent = p] \in View /\ [v[o] EXCEPT !.parent = p].parent = p
  BY <1>2, <1>3 DEF View
<1>5. ParentIs(v, [v EXCEPT ![o].parent = p], o, p)
  BY <1>2, <1>4 DEF Views, ParentIs
<1> QED BY <1>1, <1>5 DEF o, p

\* A change of a list leaves the parents alone.
SameParents(v, w) == w \in Views /\ \A x \in Object : w[x].parent = v[x].parent

LEMMA AddedHeard ==
  ASSUME NEW v \in Views, NEW m, m.src \in Object, m.child \in Object, m.index \in Nat
  PROVE  SameParents(v, WithAdded(v, m))
<1> DEFINE rest == RemoveFirst(v[m.src].kids, m.child)
<1>1. v[m.src].kids \in Seq(Entry) /\ m.child \in Entry /\ FALSE \in BOOLEAN
  BY DEF Views, View, Entry
<1>2. rest \in Seq(Entry)
  BY <1>1, RemoveFirstElements
<1>3. CASE ~v[m.src].flag
  BY <1>3 DEF WithAdded, SameParents
<1>4. CASE v[m.src].flag /\ m.index > Len(rest)
  <2>1. WithAdded(v, m) = SetList(v, m.src, rest, FALSE)
    BY <1>4 DEF WithAdded, SetList
  <2> HIDE DEF rest
  <2>2. /\ SetList(v, m.src, rest, FALSE) \in Views
        /\ \A x \in Object : SetList(v, m.src, rest, FALSE)[x].parent = v[x].parent
    BY <1>1, <1>2, ListSet, Zenon
  <2> QED BY <2>1, <2>2 DEF SameParents
<1>5. CASE v[m.src].flag /\ ~(m.index > Len(rest))
  <2> DEFINE more == InsertAt(rest, m.index + 1, m.child)
  <2>1. WithAdded(v, m) = SetKids(v, m.src, more)
    BY <1>5 DEF WithAdded, SetKids
  <2> HIDE DEF rest
  <2>2. m.index + 1 \in 1..(Len(rest) + 1)
    BY <1>2, <1>5
  <2>3. more \in Seq(Entry)
    BY <1>1, <1>2, <2>2, InsertAtElements
  <2> HIDE DEF more
  <2> QED BY <2>1, <2>3, KidsSet DEF SameParents
<1> QED BY <1>3, <1>4, <1>5

LEMMA RemovedHeard ==
  ASSUME NEW v \in Views, NEW m, m.src \in Object
  PROVE  SameParents(v, WithRemoved(v, m))
<1> DEFINE rest == RemoveFirst(v[m.src].kids, m.child)
<1>1. v[m.src].kids \in Seq(Entry)
  BY DEF Views, View
<1>2. rest \in Seq(Entry)
  BY <1>1, RemoveFirstElements
<1>3. WithRemoved(v, m) = IF ~v[m.src].flag THEN v ELSE SetKids(v, m.src, rest)
  BY DEF WithRemoved, SetKids
<1> HIDE DEF rest
<1> QED BY <1>2, <1>3, KidsSet DEF SameParents

LEMMA ChildHeard ==
  ASSUME NEW v \in Views, NEW m, m.src \in Object, m.child \in Object, m.index \in Nat
  PROVE  SameParents(v, WithChild(v, m))
<1> DEFINE placed == Placed(v[m.src].kids, m.index, m.child)
<1>1. v[m.src].kids \in Seq(Entry) /\ m.child \in Entry /\ Hole \in Entry
  BY DEF Views, View, Entry
<1>2. placed \in Seq(Entry)
  BY <1>1, PlacedType
<1>3. WithChild(v, m) = IF ~v[m.src].flag THEN v ELSE SetKids(v, m.src, placed)
  BY DEF WithChild, SetKids
<1> HIDE DEF placed
<1> QED BY <1>2, <1>3, KidsSet DEF SameParents

\* The fields of the messages.
LEMMA MessageFields ==
  ASSUME NEW m \in Message
  PROVE  \/ m.kind = "parent" /\ m.obj \in Object /\ m.parent \in Object
         \/ m.kind = "added" /\ m.src \in Object /\ m.index \in Nat /\ m.child \in Object
         \/ m.kind = "removed" /\ m.src \in Object /\ m.child \in Object
         \/ m.kind = "gone" /\ m.obj \in Object
         \/ m.kind = "item" /\ m.item \in ObjectItem
         \/ m.kind = "items" /\ m.items \in Seq(ObjectItem)
         \/ m.kind = "child" /\ m.src \in Object /\ m.index \in Nat /\ m.child \in Object
BY DEF Message

\* An object has the parent it had, or one that the message tells, unless
\* the object or its parent is gone.
Learns(m, x, before, after) ==
  \/ Tells(m, x, after)
  \/ after = before /\ \A q : ~Tells(m, x, q)
  \/ m.kind = "gone" /\ (x = m.obj \/ before = m.obj)

LEMMA HandledHeard ==
  ASSUME NEW v \in Views, NEW m \in Message
  PROVE  /\ Handled(v, m) \in Views
         /\ \A x \in Object : Learns(m, x, v[x].parent, Handled(v, m)[x].parent)
<1> DEFINE w == Handled(v, m)
<1> SUFFICES w \in Views /\ \A x \in Object : Learns(m, x, v[x].parent, w[x].parent)
  OBVIOUS
<1> HIDE DEF w
<1>1. ASSUME SameParents(v, w), \A x, q : ~Tells(m, x, q)
      PROVE  w \in Views /\ \A x \in Object : Learns(m, x, v[x].parent, w[x].parent)
  <2> QED BY <1>1 DEF SameParents, Learns
<1>2. CASE m.kind = "parent" /\ m.obj \in Object /\ m.parent \in Object
  <2>1. w = WithParent(v, m)
    BY <1>2 DEF Handled, w
  <2>2. /\ w \in Views
        /\ \A x \in Object : w[x].parent = IF x = m.obj THEN m.parent ELSE v[x].parent
    BY <1>2, <2>1, ParentHeard DEF ParentIs
  <2> QED BY <1>2, <2>2 DEF Learns, Tells
<1>3. CASE m.kind = "added" /\ m.src \in Object /\ m.index \in Nat /\ m.child \in Object
  <2>1. w = WithAdded(v, m)
    BY <1>3 DEF Handled, w
  <2> QED BY <1>1, <1>3, <2>1, AddedHeard DEF Tells
<1>4. CASE m.kind = "removed" /\ m.src \in Object /\ m.child \in Object
  <2>1. w = WithRemoved(v, m)
    BY <1>4 DEF Handled, w
  <2> QED BY <1>1, <1>4, <2>1, RemovedHeard DEF Tells
<1>5. CASE m.kind = "gone" /\ m.obj \in Object
  <2>1. w = Disposed(v, m.obj)
    BY <1>5 DEF Handled, w
  <2>2. /\ w \in Views
        /\ \A x \in Object : x # m.obj /\ v[x].parent # m.obj => w[x].parent = v[x].parent
    BY <1>5, <2>1, DisposedHeard
  <2> QED BY <1>5, <2>2 DEF Learns, Tells
<1>6. CASE m.kind = "item" /\ m.item \in ObjectItem
  <2>1. w = WithItem(v, m.item)
    BY <1>6 DEF Handled, w
  <2>2. /\ w \in Views
        /\ \A x \in Object :
             w[x].parent = IF x = m.item.obj THEN m.item.parent ELSE v[x].parent
    BY <1>6, <2>1, ItemHeard
  <2> QED BY <1>6, <2>2 DEF Learns, Tells
<1>7. CASE m.kind = "items" /\ m.items \in Seq(ObjectItem)
  <2>1. w = WithItems(v, m.items)
    BY <1>7 DEF Handled, w
  <2>2. w \in Views /\ Heard(v, w, m.items, Len(m.items))
    BY <1>7, <2>1, ItemsHeard
  <2>3. DOMAIN m.items = 1..Len(m.items)
    BY <1>7
  <2> QED BY <1>7, <2>2, <2>3 DEF Learns, Tells, Heard
<1>8. CASE m.kind = "child" /\ m.src \in Object /\ m.index \in Nat /\ m.child \in Object
  <2>1. w = WithChild(v, m)
    BY <1>8 DEF Handled, w
  <2> QED BY <1>1, <1>8, <2>1, ChildHeard DEF Tells
<1> QED
  BY <1>2, <1>3, <1>4, <1>5, <1>6, <1>7, <1>8, MessageFields
-----------------------------------------------------------------------------
(* The tree and its announcements *)

LEMMA ParentFound ==
  ASSUME NEW o
  PROVE  /\ Parent(o) # None => Parent(o) \in Object /\ Contains(kids[Parent(o)], o)
         /\ Parent(o) = None => \A p \in Object : ~Contains(kids[p], o)
         /\ Parent(o) \in Object \cup {None}
<1>1. CASE Parents(o) = {}
  BY <1>1 DEF Parent, Parents
<1>2. CASE Parents(o) # {}
  <2>1. Parent(o) = CHOOSE p \in Parents(o) : TRUE
    BY <1>2 DEF Parent
  <2>2. Parent(o) \in Parents(o)
    BY <1>2, <2>1
  <2>3. Parent(o) \in Object /\ Contains(kids[Parent(o)], o)
    BY <2>2 DEF Parents
  <2> QED BY <2>3, ObjectAssumption
<1> QED BY <1>1, <1>2

\* After a step as well.
LEMMA NextParentFound ==
  ASSUME NEW o, Parent(o)' # None
  PROVE  Parent(o)' \in Object /\ Contains(kids'[Parent(o)'], o)
<1>1. CASE Parents(o)' = {}
  BY <1>1 DEF Parent
<1>2. CASE Parents(o)' # {}
  <2>1. Parent(o)' \in Parents(o)'
    BY <1>2 DEF Parent
  <2> QED BY <2>1 DEF Parents
<1> QED BY <1>1, <1>2

OneParent ==
  \A o, p, q \in Object : Contains(kids[p], o) /\ Contains(kids[q], o) => p = q

\* If no object gets a parent, each keeps the one it has or loses it.
NoneGains == \A o, p \in Object : Contains(kids'[p], o) => Contains(kids[p], o)

LEMMA ParentKept ==
  ASSUME OneParent, NoneGains, NEW o \in Object
  PROVE  Parent(o)' = None \/ Parent(o)' = Parent(o)
<1> SUFFICES ASSUME Parent(o)' # None PROVE Parent(o)' = Parent(o)
  OBVIOUS
<1>1. Parent(o)' \in Object /\ Contains(kids'[Parent(o)'], o)
  BY NextParentFound
<1>2. Contains(kids[Parent(o)'], o)
  BY <1>1 DEF NoneGains
<1>3. Parent(o) \in Object /\ Contains(kids[Parent(o)], o)
  BY <1>1, <1>2, ParentFound
<1> QED BY <1>1, <1>2, <1>3 DEF OneParent

\* The item of an object tells its parent.
LEMMA ItemTells ==
  ASSUME TypeOK, NEW o \in Object
  PROVE  Item(o) \in ObjectItem /\ Item(o).obj = o /\ Item(o).parent = Parent(o)
<1> DEFINE index == IF Parent(o) = None THEN None ELSE Index(kids[Parent(o)], o) - 1
<1>1. Parent(o) \in Object \cup {None} /\ Len(kids[o]) \in Nat
  BY ParentFound DEF TypeOK
<1>2. index = None \/ (index \in Nat /\ Parent(o) \in Object)
  <2>1. CASE Parent(o) = None
    BY <2>1
  <2>2. CASE Parent(o) # None
    <3> DEFINE s == kids[Parent(o)]
    <3>1. Parent(o) \in Object /\ Contains(s, o) /\ s \in Seq(Object)
      BY <2>2, ParentFound DEF TypeOK
    <3> HIDE DEF s
    <3>2. \E i \in DOMAIN s : s[i] = o
      BY <3>1 DEF Contains
    <3>3. Index(s, o) \in DOMAIN s
      BY <3>2 DEF Index
    <3>4. Index(s, o) \in Nat /\ Index(s, o) # 0
      BY <3>1, <3>3
    <3> QED BY <2>2, <3>1, <3>4 DEF s
  <2> QED BY <2>1, <2>2
<1>3. Item(o) = [obj |-> o, parent |-> Parent(o), count |-> Len(kids[o]), index |-> index]
  BY DEF Item
<1> HIDE DEF index
<1>4. Item(o).index = index /\ Item(o).obj = o /\ Item(o).parent = Parent(o)
  BY <1>3
<1>5. Item(o) \in [obj : Object, parent : Object \cup {None}, count : Nat,
                   index : Nat \cup {None}]
  BY <1>1, <1>2, <1>3
<1> QED BY <1>2, <1>4, <1>5 DEF ObjectItem

\* What the loops of add_pending_items find are objects.
Turning == [new : Seq(Object), left : Seq(Object)]

LEMMA TurnType ==
  ASSUME TypeOK, NEW t \in Turning
  PROVE  Turn(t) \in Turning
<1>1. t.new \in Seq(Object) /\ t.left \in Seq(Object)
  BY DEF Turning
<1>2. CASE t.left = <<>>
  BY <1>2 DEF Turn
<1>3. CASE t.left # <<>>
  <2> DEFINE o == Head(t.left)
             new == IF o \in known \/ Contains(t.new, o) THEN t.new ELSE Append(t.new, o)
             left == Tail(t.left) \o (IF o \in known THEN <<>> ELSE kids[o])
  <2>1. o \in Object /\ Tail(t.left) \in Seq(Object)
    BY <1>1, <1>3
  <2>2. kids[o] \in Seq(Object) /\ <<>> \in Seq(Object)
    BY <2>1 DEF TypeOK
  <2>3. Turn(t) = [new |-> new, left |-> left]
    BY <1>3 DEF Turn
  <2> HIDE DEF o
  <2>4. new \in Seq(Object)
    BY <1>1, <2>1
  <2>5. left \in Seq(Object)
    <3>1. CASE o \in known
      BY <2>1, <2>2, <3>1
    <3>2. CASE o \notin known
      BY <2>1, <2>2, <3>2
    <3> QED BY <3>1, <3>2
  <2> HIDE DEF new, left
  <2> QED BY <2>3, <2>4, <2>5 DEF Turning
<1> QED BY <1>2, <1>3

\* The turns of the loops, up to the last.
TurnsAre(K) ==
  /\ K \in Nat /\ Turns[0] = [new |-> <<>>, left |-> queue]
  /\ \A n \in 1..K : Turns[n] = Turn(Turns[n - 1])
  /\ \A n \in 0..K : Turns[n] \in Turning

LEMMA TurnsType ==
  ASSUME TypeOK
  PROVE  TurnsAre(MaxTurns)
<1> DEFINE K == MaxTurns
           start == [new |-> <<>>, left |-> queue]
           step == [p \in (1..K) \X Turning |-> Turn(p[2])]
           P == {n \in 0..K : Turns[n] \in Turning}
<1>1. K \in Nat
  <2>1. Cardinality(Object) \in Nat /\ Len(queue) \in Nat
    BY ObjectAssumption, FS_CardinalityType DEF TypeOK
  <2> QED BY <2>1 DEF MaxTurns
<1>2. start \in Turning
  BY DEF TypeOK, Turning
<1>3. step \in [(1..K) \X Turning -> Turning]
  BY TurnType
<1> HIDE DEF start, K
<1>4. Turns = [n \in 0..K |-> IF n = 0 THEN start ELSE Turn(Turns[n - 1])]
  <2> DEFINE G(f) == [n \in 0..K |-> IF n = 0 THEN start ELSE Turn(f[n - 1])]
  <2>1. \E f : f = G(f)
    <3> HIDE DEF step
    <3>1. HasLoop(Turning, start, K, step)
      BY <1>1, <1>2, <1>3, LoopExists
    <3>2. PICK f \in [0..K -> Turning] :
            f = [n \in 0..K |-> IF n = 0 THEN start ELSE step[<<n, f[n - 1]>>]]
      BY <3>1 DEF HasLoop
    <3>3. \A n \in 1..K : <<n, f[n - 1]>> \in (1..K) \X Turning
      BY <1>1, <3>2
    <3>4. \A n \in 1..K : step[<<n, f[n - 1]>>] = Turn(f[n - 1])
      BY <3>3 DEF step
    <3>5. f = G(f)
      BY <1>1, <3>2, <3>4, SMTT(40)
    <3> QED BY <3>5
  <2>2. Turns = CHOOSE f : f = G(f)
    BY DEF Turns, K, start
  <2> HIDE DEF G
  <2>3. Turns = G(Turns)
    BY <2>1, <2>2
  <2> QED BY <2>3 DEF G
<1>5. Turns[0] = start /\ \A n \in 1..K : Turns[n] = Turn(Turns[n - 1])
  BY <1>1, <1>4
<1>6. 0 \in P
  BY <1>1, <1>2, <1>5
<1>7. \A n \in 1..K : n - 1 \in P => n \in P
  BY <1>1, <1>5, TurnType
<1> HIDE DEF P
<1>8. 0..K \subseteq P
  BY <1>1, <1>6, <1>7, UpTo
<1> QED BY <1>1, <1>5, <1>8 DEF P, TurnsAre, K, start

LEMMA NewObjectsType ==
  ASSUME TypeOK
  PROVE  NewObjects \in Seq(Object)
<1> DEFINE K == MaxTurns
<1>1. K \in Nat /\ \A n \in 0..K : Turns[n] \in Turning
  BY TurnsType DEF TurnsAre
<1> HIDE DEF K
<1>2. Turns[K] \in Turning
  BY <1>1
<1> QED BY <1>2 DEF NewObjects, Turning, K

\* A list of all that are known has each of them.
LEMMA ListOfAll ==
  ASSUME TypeOK, NEW s \in SetToSeqs(known)
  PROVE  s \in Seq(Object) /\ \A o \in known : \E i \in DOMAIN s : s[i] = o
<1> DEFINE N == Cardinality(known)
<1>1. IsFiniteSet(known) /\ N \in Nat
  BY ObjectAssumption, FS_Subset, FS_CardinalityType DEF TypeOK
<1>2. s \in [1..N -> known] /\ \A i, j \in 1..N : i # j => s[i] # s[j]
  BY DEF SetToSeqs
<1>3. s \in Injection(1..N, known)
  BY <1>2 DEF Injection, IsInjective
<1>4. Cardinality(1..N) = N
  BY <1>1, FS_Interval
<1>5. s \in Surjection(1..N, known)
  <2> HIDE DEF N
  <2>1. Cardinality(1..N) = Cardinality(known) <=> s \in Surjection(1..N, known)
    BY <1>1, <1>3, FS_Injection
  <2> QED BY <1>4, <2>1 DEF N
<1>6. \A o \in known : \E i \in 1..N : s[i] = o
  BY <1>5 DEF Surjection
<1>7. s \in [1..N -> Object]
  BY <1>2 DEF TypeOK
<1> HIDE DEF N
<1> QED BY <1>1, <1>6, <1>7
-----------------------------------------------------------------------------
(* The messages on their way *)

\* One of the messages q says that p is the parent of o.
IsTold(q, o, p) == \E i \in 1..Len(q) : Tells(q[i], o, p)

\* What says otherwise has a signal behind it that corrects it, which nothing fails
\* to deliver.
Corrects(m, o, p) == m.kind # "items" /\ Tells(m, o, p)
Corrected(q, o, p) ==
  \A i \in 1..Len(q) : TellsOther(q[i], o, p) =>
    \E j \in 1..Len(q) : i < j /\ Corrects(q[j], o, p)

\* What is announced as gone is dead.
GoneIsDead(q, d) == \A i \in 1..Len(q) : q[i].kind = "gone" => q[i].obj \in d

\* More messages are sent.
LEMMA SentAfter ==
  ASSUME NEW q \in Seq(Message), NEW ms \in Seq(Message)
  PROVE  /\ q \o ms \in Seq(Message) /\ Len(q \o ms) = Len(q) + Len(ms)
         /\ \A i \in 1..Len(q) : (q \o ms)[i] = q[i]
         /\ \A i \in 1..Len(ms) : (q \o ms)[Len(q) + i] = ms[i]
         /\ \A i \in 1..(Len(q) + Len(ms)) :
              i \in 1..Len(q) \/ (i - Len(q) \in 1..Len(ms) /\ (q \o ms)[i] = ms[i - Len(q)])
OBVIOUS

LEMMA SentKeepsTold ==
  ASSUME NEW q \in Seq(Message), NEW ms \in Seq(Message), NEW o, NEW p
  PROVE  /\ IsTold(q, o, p) \/ IsTold(ms, o, p) => IsTold(q \o ms, o, p)
         /\ Corrected(q, o, p) /\ (\A k \in 1..Len(ms) : ~TellsOther(ms[k], o, p))
            => Corrected(q \o ms, o, p)
<1> DEFINE t == q \o ms
<1>1. /\ t \in Seq(Message) /\ Len(t) = Len(q) + Len(ms)
      /\ \A i \in 1..Len(q) : t[i] = q[i]
      /\ \A i \in 1..Len(ms) : t[Len(q) + i] = ms[i]
      /\ \A i \in 1..(Len(q) + Len(ms)) :
           i \in 1..Len(q) \/ (i - Len(q) \in 1..Len(ms) /\ t[i] = ms[i - Len(q)])
  BY SentAfter
<1>2. Len(q) \in Nat /\ Len(ms) \in Nat
  OBVIOUS
<1> HIDE DEF t
<1>3. ASSUME IsTold(q, o, p) PROVE IsTold(t, o, p)
  <2>1. PICK i \in 1..Len(q) : Tells(q[i], o, p)
    BY <1>3 DEF IsTold
  <2>2. i \in 1..Len(t)
    BY <1>1, <1>2
  <2> QED BY <1>1, <2>1, <2>2 DEF IsTold
<1>4. ASSUME IsTold(ms, o, p) PROVE IsTold(t, o, p)
  <2>1. PICK i \in 1..Len(ms) : Tells(ms[i], o, p)
    BY <1>4 DEF IsTold
  <2>2. Len(q) + i \in 1..Len(t)
    BY <1>1, <1>2
  <2> QED BY <1>1, <2>1, <2>2 DEF IsTold
<1>5. ASSUME Corrected(q, o, p), \A k \in 1..Len(ms) : ~TellsOther(ms[k], o, p)
      PROVE  Corrected(t, o, p)
  <2> SUFFICES ASSUME NEW i \in 1..Len(t), TellsOther(t[i], o, p)
               PROVE  \E j \in 1..Len(t) : i < j /\ Corrects(t[j], o, p)
    BY DEF Corrected
  <2>1. i \in 1..Len(q)
    BY <1>1, <1>2, <1>5
  <2>2. PICK j \in 1..Len(q) : i < j /\ Corrects(q[j], o, p)
    BY <1>1, <1>5, <2>1 DEF Corrected
  <2>3. j \in 1..Len(t) /\ t[j] = q[j]
    BY <1>1, <1>2
  <2> QED BY <2>2, <2>3
<1> QED BY <1>3, <1>4, <1>5 DEF t

\* The news of a parent is the last word on it.
LEMMA NewsCorrects ==
  ASSUME NEW q \in Seq(Message), NEW m \in Message, NEW n \in Message, NEW o, NEW p,
         Corrects(m, o, p), ~TellsOther(m, o, p), ~TellsOther(n, o, p)
  PROVE  Corrected(q \o <<m, n>>, o, p) /\ IsTold(q \o <<m, n>>, o, p)
<1> DEFINE ms == <<m, n>>
           t == q \o ms
<1>1. ms \in Seq(Message) /\ Len(ms) = 2 /\ ms[1] = m /\ ms[2] = n
  OBVIOUS
<1> HIDE DEF ms
<1>2. /\ t \in Seq(Message) /\ Len(t) = Len(q) + 2
      /\ t[Len(q) + 1] = m /\ t[Len(q) + 2] = n /\ Len(q) \in Nat
  <2>1. 1 \in 1..Len(ms) /\ 2 \in 1..Len(ms) /\ Len(q) \in Nat
    BY <1>1
  <2>2. /\ t \in Seq(Message) /\ Len(t) = Len(q) + Len(ms)
        /\ \A k \in 1..Len(ms) : t[Len(q) + k] = ms[k]
    BY <1>1, SentAfter
  <2> HIDE DEF t
  <2> QED BY <1>1, <2>1, <2>2
<1> HIDE DEF t
<1>3. Len(q) + 1 \in 1..Len(t) /\ Corrects(t[Len(q) + 1], o, p)
  BY <1>2
<1>4. Corrected(t, o, p)
  <2> SUFFICES ASSUME NEW i \in 1..Len(t), TellsOther(t[i], o, p)
               PROVE  \E j \in 1..Len(t) : i < j /\ Corrects(t[j], o, p)
    BY DEF Corrected
  <2>1. i # Len(q) + 1 /\ i # Len(q) + 2
    BY <1>2
  <2>2. i < Len(q) + 1
    BY <1>2, <2>1
  <2> QED BY <1>3, <2>2
<1>5. IsTold(t, o, p)
  BY <1>3 DEF IsTold, Corrects
<1> QED BY <1>4, <1>5 DEF t, ms

LEMMA SentKeepsGone ==
  ASSUME NEW q \in Seq(Message), NEW ms \in Seq(Message), NEW d,
         GoneIsDead(q, d), GoneIsDead(ms, d)
  PROVE  GoneIsDead(q \o ms, d)
BY SentAfter DEF GoneIsDead

\* A message is taken out, which corrects no older one.
LEMMA TakenOut ==
  ASSUME NEW q \in Seq(Message), NEW i \in 1..Len(q), NEW o, NEW p
  PROVE  /\ RemoveAt(q, i) \in Seq(Message)
         /\ \A d : GoneIsDead(q, d) => GoneIsDead(RemoveAt(q, i), d)
         /\ Corrected(q, o, p) /\ (Corrects(q[i], o, p) =>
                                     \A j \in 1..(i - 1) : ~TellsOther(q[j], o, p))
            => Corrected(RemoveAt(q, i), o, p)
         /\ Corrected(q, o, p) /\ TellsOther(q[i], o, p) => IsTold(RemoveAt(q, i), o, p)
         /\ IsTold(q, o, p) /\ ~Tells(q[i], o, p) => IsTold(RemoveAt(q, i), o, p)
<1> DEFINE t == RemoveAt(q, i)
<1>1. /\ t \in Seq(Message) /\ Len(t) = Len(q) - 1
      /\ \A k \in 1..(Len(q) - 1) : t[k] = q[Skip(i, k)]
  BY RemoveAtElements
<1> HIDE DEF t
<1>2. Len(q) \in Nat
  OBVIOUS
<1>3. \A k \in 1..Len(t) : Skip(i, k) \in 1..Len(q) /\ t[k] = q[Skip(i, k)]
  BY <1>1, <1>2 DEF Skip
<1>4. ASSUME NEW j \in 1..Len(q), j # i
      PROVE  \E k \in 1..Len(t) : Skip(i, k) = j /\ t[k] = q[j]
  <2> DEFINE k == IF j < i THEN j ELSE j - 1
  <2>1. k \in 1..(Len(q) - 1) /\ Skip(i, k) = j
    BY <1>2, <1>4 DEF Skip
  <2> HIDE DEF k
  <2> QED BY <1>1, <2>1
<1>6. ASSUME NEW d, GoneIsDead(q, d) PROVE GoneIsDead(t, d)
  BY <1>3, <1>6 DEF GoneIsDead
<1>7. ASSUME Corrected(q, o, p),
             Corrects(q[i], o, p) => \A j \in 1..(i - 1) : ~TellsOther(q[j], o, p)
      PROVE  Corrected(t, o, p)
  <2> SUFFICES ASSUME NEW k \in 1..Len(t), TellsOther(t[k], o, p)
               PROVE  \E l \in 1..Len(t) : k < l /\ Corrects(t[l], o, p)
    BY DEF Corrected
  <2>1. PICK j \in 1..Len(q) : Skip(i, k) < j /\ Corrects(q[j], o, p)
    BY <1>3, <1>7 DEF Corrected
  <2>2. j # i
    <3>1. SUFFICES ASSUME j = i PROVE FALSE
      OBVIOUS
    <3>2. Skip(i, k) \in 1..(i - 1) /\ TellsOther(q[Skip(i, k)], o, p)
      BY <1>3, <2>1, <3>1
    <3> QED BY <1>7, <2>1, <3>1, <3>2
  <2>3. PICK l \in 1..Len(t) : Skip(i, l) = j /\ t[l] = q[j]
    BY <1>4, <2>2
  <2>4. k < l
    BY <2>1, <2>3 DEF Skip
  <2> QED BY <2>1, <2>3, <2>4
<1>8. ASSUME Corrected(q, o, p), TellsOther(q[i], o, p) PROVE IsTold(t, o, p)
  <2>1. PICK j \in 1..Len(q) : i < j /\ Corrects(q[j], o, p)
    BY <1>8 DEF Corrected
  <2>2. PICK k \in 1..Len(t) : t[k] = q[j]
    BY <1>4, <2>1
  <2> QED BY <2>1, <2>2 DEF IsTold, Corrects
<1>9. ASSUME IsTold(q, o, p), ~Tells(q[i], o, p) PROVE IsTold(t, o, p)
  <2>1. PICK j \in 1..Len(q) : Tells(q[j], o, p)
    BY <1>9 DEF IsTold
  <2>2. PICK k \in 1..Len(t) : t[k] = q[j]
    BY <1>4, <1>9, <2>1
  <2> QED BY <2>1, <2>2 DEF IsTold
<1> QED BY <1>1, <1>6, <1>7, <1>8, <1>9 DEF t
-----------------------------------------------------------------------------
(* The invariants *)

DeadAlone == \A o \in dead : kids[o] = <<>> /\ Parent(o) = None

\* Unless a reply is outdated: of an object with a parent, every message that tells
\* another one is corrected, and the client has the parent or is told it.
ParentInv ==
  "outdated" \notin raced =>
    \A o \in Object : Parent(o) # None =>
      /\ Corrected(wire, o, Parent(o))
      /\ filled /\ o \in known => view[o].parent = Parent(o) \/ IsTold(wire, o, Parent(o))

\* What is outdated stays so.
StaysOutdated == "outdated" \in raced => "outdated" \in raced'

TreeIsWell == OneParent /\ DeadAlone /\ GoneIsDead(wire, dead)
CacheInv == TypeOK /\ TreeIsWell /\ ParentInv

\* A step that gives no object a parent, and makes no other one known, keeps them if
\* what it sends misleads nobody.
LEMMA StepKeepsParents ==
  ASSUME CacheInv, NoneGains, NEW ms \in Seq(Message), wire' = wire \o ms,
         \A k \in 1..Len(ms), o \in Object : ~TellsOther(ms[k], o, Parent(o)),
         \A o \in Object : filled' /\ o \in known' /\ ~(filled /\ o \in known) =>
           IsTold(ms, o, Parent(o)),
         UNCHANGED view, StaysOutdated
  PROVE  ParentInv'
<1> SUFFICES ASSUME "outdated" \notin raced', NEW o \in Object, Parent(o)' # None
             PROVE  /\ Corrected(wire', o, Parent(o)')
                    /\ filled' /\ o \in known' =>
                         view'[o].parent = Parent(o)' \/ IsTold(wire', o, Parent(o)')
  BY DEF ParentInv
<1> DEFINE p == Parent(o)
<1>1. Parent(o)' = p /\ p # None
  BY ParentKept DEF CacheInv, TreeIsWell
<1>2. /\ Corrected(wire, o, p)
      /\ filled /\ o \in known => view[o].parent = p \/ IsTold(wire, o, p)
  BY <1>1 DEF CacheInv, ParentInv, StaysOutdated
<1>3. wire \in Seq(Message) /\ \A k \in 1..Len(ms) : ~TellsOther(ms[k], o, p)
  BY DEF CacheInv, TypeOK
<1>4. filled' /\ o \in known' /\ ~(filled /\ o \in known) => IsTold(ms, o, p)
  OBVIOUS
<1> HIDE DEF p
<1>5. /\ IsTold(wire, o, p) \/ IsTold(ms, o, p) => IsTold(wire', o, p)
      /\ Corrected(wire', o, p)
  BY <1>2, <1>3, SentKeepsTold
<1>6. Corrected(wire', o, Parent(o)')
  BY <1>1, <1>5
<1>7. ASSUME filled', o \in known'
      PROVE  view'[o].parent = Parent(o)' \/ IsTold(wire', o, Parent(o)')
  BY <1>1, <1>2, <1>4, <1>5, <1>7
<1> QED BY <1>6, <1>7

\* It also keeps the tree, unless it changes the dead.
LEMMA StepKeepsTree ==
  ASSUME CacheInv, NoneGains, UNCHANGED dead, \A o \in dead : kids'[o] = kids[o],
         NEW ms \in Seq(Message), wire' = wire \o ms, GoneIsDead(ms, dead)
  PROVE  TreeIsWell'
<1>1. OneParent'
  BY DEF CacheInv, TreeIsWell, OneParent, NoneGains
<1>2. DeadAlone'
  <2> SUFFICES ASSUME NEW o \in dead PROVE kids'[o] = <<>> /\ Parent(o)' = None
    BY DEF DeadAlone
  <2>1. o \in Object /\ kids[o] = <<>> /\ Parent(o) = None
    BY DEF CacheInv, TreeIsWell, DeadAlone, TypeOK
  <2> QED BY <2>1, ParentKept DEF CacheInv, TreeIsWell
<1>3. GoneIsDead(wire', dead')
  BY SentKeepsGone DEF CacheInv, TreeIsWell, TypeOK
<1> QED BY <1>1, <1>2, <1>3 DEF TreeIsWell

LEMMA InitOK == Init => CacheInv
<1> SUFFICES ASSUME Init PROVE CacheInv
  OBVIOUS
<1>0. PICK S \in SUBSET (Object \ {Root}) : \E s \in SetToSeqs(S) :
        /\ kids = [[o \in Object |-> <<>>] EXCEPT ![Root] = s]
        /\ known = {Root} \cup S
  BY DEF Init
<1>1. PICK s \in SetToSeqs(S) :
        /\ kids = [[o \in Object |-> <<>>] EXCEPT ![Root] = s]
        /\ known = {Root} \cup S
  BY <1>0
<1>2. /\ dead = {} /\ queue = <<>> /\ wire = <<>> /\ filled = FALSE
      /\ view = [o \in Object |-> Fresh]
  BY DEF Init
<1>3. s \in Seq(Object)
  <2>1. IsFiniteSet(S)
    BY ObjectAssumption, FS_Subset
  <2>2. Cardinality(S) \in Nat
    BY <2>1, FS_CardinalityType
  <2>3. s \in [1..Cardinality(S) -> Object]
    BY DEF SetToSeqs
  <2> QED BY <2>2, <2>3
<1>4. kids \in [Object -> Seq(Object)]
  <2> DEFINE none == [o \in Object |-> <<>>]
  <2>1. none \in [Object -> Seq(Object)]
    OBVIOUS
  <2>2. kids = [none EXCEPT ![Root] = s]
    BY <1>1
  <2> HIDE DEF none
  <2> QED BY <1>3, <2>1, <2>2
<1>5. TypeOK
  <2>1. Fresh \in View
    BY DEF Fresh, View
  <2>2. view \in Views
    BY <1>2, <2>1 DEF Views
  <2>3. known \subseteq Object
    BY <1>1, ObjectAssumption
  <2>4. queue \in Seq(Object) /\ wire \in Seq(Message)
    BY <1>2
  <2> QED BY <1>2, <1>4, <2>2, <2>3, <2>4 DEF TypeOK
<1>6. TreeIsWell
  <2>1. \A o, p \in Object : Contains(kids[p], o) => p = Root
    BY <1>1, ObjectAssumption DEF Contains
  <2> QED BY <1>2, <2>1 DEF TreeIsWell, OneParent, DeadAlone, GoneIsDead
<1>7. ParentInv
  BY <1>2 DEF ParentInv, Corrected
<1> QED BY <1>5, <1>6, <1>7 DEF CacheInv
\* The idle adds the queue to the cache and announces it.
LEMMA AnnounceOK == CacheInv /\ Announce => CacheInv'
<1> SUFFICES ASSUME CacheInv, Announce PROVE CacheInv'
  OBVIOUS
<1> DEFINE new == NewObjects
           ms == [i \in DOMAIN new |-> [kind |-> "item", item |-> Item(new[i])]]
<1>1. TypeOK
  BY DEF CacheInv
<1>2. /\ queue' = <<>> /\ known' = known \cup Range(new) /\ wire' = wire \o ms
      /\ UNCHANGED <<kids, dead, filled, view>>
  BY DEF Announce, Send
<1>3. new \in Seq(Object)
  BY <1>1, NewObjectsType
<1> HIDE DEF new
<1>4. \A i \in DOMAIN new : /\ Item(new[i]) \in ObjectItem /\ Item(new[i]).obj = new[i]
                            /\ Item(new[i]).parent = Parent(new[i])
  BY <1>1, <1>3, ItemTells
<1>5. /\ ms \in Seq(Message) /\ Len(ms) = Len(new)
      /\ \A i \in 1..Len(new) : ms[i] = [kind |-> "item", item |-> Item(new[i])]
  <2>1. \A i \in DOMAIN new : [kind |-> "item", item |-> Item(new[i])] \in Message
    BY <1>4 DEF Message
  <2>2. DOMAIN new = 1..Len(new) /\ Len(new) \in Nat
    BY <1>3
  <2>3. ms \in [1..Len(new) -> Message]
    BY <2>1, <2>2
  <2> QED BY <2>2, <2>3
<1> HIDE DEF ms
<1>6. \A i \in 1..Len(ms) : /\ ms[i].kind = "item" /\ ms[i].item.obj = new[i]
                            /\ ms[i].item.parent = Parent(new[i])
  <2> SUFFICES ASSUME NEW i \in 1..Len(ms)
               PROVE  /\ ms[i].kind = "item" /\ ms[i].item.obj = new[i]
                      /\ ms[i].item.parent = Parent(new[i])
    OBVIOUS
  <2>1. i \in DOMAIN new /\ ms[i] = [kind |-> "item", item |-> Item(new[i])]
    BY <1>3, <1>5
  <2>2. ms[i].kind = "item" /\ ms[i].item = Item(new[i])
    BY <2>1
  <2> QED BY <1>4, <2>1, <2>2
<1>7. NoneGains
  BY <1>2 DEF NoneGains
<1>8. \A k \in 1..Len(ms), o \in Object : ~TellsOther(ms[k], o, Parent(o))
  BY <1>6 DEF TellsOther
<1>9. ASSUME NEW o \in Object, o \in known', o \notin known PROVE IsTold(ms, o, Parent(o))
  <2>1. PICK i \in DOMAIN new : new[i] = o
    BY <1>2, <1>9 DEF Range
  <2>2. i \in 1..Len(ms)
    BY <1>3, <1>5, <2>1
  <2> QED BY <1>6, <2>1, <2>2 DEF IsTold, Tells
<1>10. ParentInv'
  <2>1. StaysOutdated
    BY DEF Announce, Race, StaysOutdated
  <2> QED BY <1>2, <1>5, <1>7, <1>8, <1>9, <2>1, StepKeepsParents
<1>11. TreeIsWell'
  BY <1>2, <1>5, <1>6, <1>7, StepKeepsTree DEF GoneIsDead
<1>12. TypeOK'
  <2>1. known' \subseteq Object
    BY <1>1, <1>2, <1>3 DEF TypeOK, Range
  <2>2. wire' \in Seq(Message) /\ queue' \in Seq(Object)
    BY <1>1, <1>2, <1>5, SentAfter DEF TypeOK
  <2> QED BY <1>1, <1>2, <2>1, <2>2 DEF TypeOK
<1> QED BY <1>10, <1>11, <1>12 DEF CacheInv

\* A reply to GetItems has the parents of all that are known.
LEMMA GetItemsOK == CacheInv /\ GetItems => CacheInv'
<1> SUFFICES ASSUME CacheInv, GetItems PROVE CacheInv'
  OBVIOUS
<1>1. TypeOK
  BY DEF CacheInv
<1>2. PICK s \in SetToSeqs(known) :
        Send(<<[kind |-> "items", items |-> [i \in DOMAIN s |-> Item(s[i])]]>>)
  BY DEF GetItems
<1> DEFINE items == [i \in DOMAIN s |-> Item(s[i])]
           m == [kind |-> "items", items |-> items]
<1>3. wire' = wire \o <<m>> /\ filled' = TRUE /\ UNCHANGED <<serverVars, view>>
  BY <1>2 DEF GetItems, Send
<1>4. s \in Seq(Object) /\ \A o \in known : \E i \in DOMAIN s : s[i] = o
  BY <1>1, ListOfAll
<1>5. \A i \in DOMAIN s : /\ Item(s[i]) \in ObjectItem /\ Item(s[i]).obj = s[i]
                          /\ Item(s[i]).parent = Parent(s[i])
  BY <1>1, <1>4, ItemTells
<1>6. /\ items \in Seq(ObjectItem) /\ DOMAIN items = DOMAIN s
      /\ \A i \in DOMAIN s : items[i].obj = s[i] /\ items[i].parent = Parent(s[i])
  <2>1. DOMAIN s = 1..Len(s) /\ Len(s) \in Nat
    BY <1>4
  <2>2. items \in [1..Len(s) -> ObjectItem]
    BY <1>5, <2>1
  <2> QED BY <1>5, <2>1, <2>2
<1> HIDE DEF items
<1>7. m \in Message /\ m.kind = "items" /\ m.items = items
  BY <1>6 DEF Message
<1> HIDE DEF m
<1> DEFINE ms == <<m>>
<1>8. ms \in Seq(Message) /\ Len(ms) = 1 /\ ms[1] = m
  BY <1>7
<1>9. wire' = wire \o ms
  BY <1>3
<1> HIDE DEF ms
<1>10. NoneGains /\ UNCHANGED <<kids, dead, known, queue>>
  BY <1>3 DEF NoneGains, serverVars
<1>11. \A k \in 1..Len(ms), o \in Object : ~TellsOther(ms[k], o, Parent(o))
  BY <1>6, <1>7, <1>8 DEF TellsOther
<1>12. ASSUME NEW o \in Object, o \in known' PROVE IsTold(ms, o, Parent(o))
  <2>1. PICK i \in DOMAIN s : s[i] = o
    BY <1>4, <1>10, <1>12
  <2>2. Tells(m, o, Parent(o))
    BY <1>6, <1>7, <2>1 DEF Tells
  <2> QED BY <1>8, <2>2 DEF IsTold
<1>13. ParentInv'
  <2>1. StaysOutdated
    BY DEF GetItems, Race, StaysOutdated
  <2> QED BY <1>3, <1>8, <1>9, <1>10, <1>11, <1>12, <2>1, StepKeepsParents
<1>14. TreeIsWell'
  <2>1. GoneIsDead(ms, dead)
    BY <1>7, <1>8 DEF GoneIsDead
  <2> QED BY <1>8, <1>9, <1>10, <2>1, StepKeepsTree
<1>15. TypeOK'
  <2>1. wire' \in Seq(Message)
    BY <1>1, <1>8, <1>9, SentAfter DEF TypeOK
  <2> QED BY <1>1, <1>3, <1>10, <2>1 DEF TypeOK
<1> QED BY <1>13, <1>14, <1>15 DEF CacheInv

\* The answer about a child tells nothing of parents.
LEMMA GetChildOK ==
  ASSUME CacheInv, NEW p \in Object, NEW i \in Nat, GetChild(p, i)
  PROVE  CacheInv'
<1> DEFINE m == [kind |-> "child", src |-> p, index |-> i, child |-> kids[p][i + 1]]
           ms == <<m>>
<1>1. TypeOK
  BY DEF CacheInv
<1>2. wire' = wire \o ms /\ UNCHANGED <<serverVars, filled, view>> /\ i \in 0..(Len(kids[p]) - 1)
  BY DEF GetChild, Send
<1>3. kids[p][i + 1] \in Object
  BY <1>1, <1>2 DEF TypeOK
<1>4. m \in Message /\ m.kind = "child"
  BY <1>3 DEF Message
<1> HIDE DEF m
<1>5. ms \in Seq(Message) /\ Len(ms) = 1 /\ ms[1] = m
  BY <1>4
<1> HIDE DEF ms
<1>6. NoneGains /\ UNCHANGED <<kids, dead, known, queue>>
  BY <1>2 DEF NoneGains, serverVars
<1>7. \A k \in 1..Len(ms), o \in Object : ~TellsOther(ms[k], o, Parent(o))
  BY <1>4, <1>5 DEF TellsOther
<1>8. ParentInv'
  <2>1. StaysOutdated
    BY DEF GetChild, StaysOutdated
  <2> QED BY <1>2, <1>5, <1>6, <1>7, <2>1, StepKeepsParents
<1>9. TreeIsWell'
  <2>1. GoneIsDead(ms, dead)
    BY <1>4, <1>5 DEF GoneIsDead
  <2> QED BY <1>2, <1>5, <1>6, <2>1, StepKeepsTree
<1>10. TypeOK'
  <2>1. wire' \in Seq(Message)
    BY <1>1, <1>2, <1>5, SentAfter DEF TypeOK
  <2> QED BY <1>1, <1>2, <1>6, <2>1 DEF TypeOK
<1> QED BY <1>8, <1>9, <1>10 DEF CacheInv
\* Without a reply, what was told before and after it remains.
LEMMA GetItemsFailsOK == CacheInv /\ GetItemsFails => CacheInv'
<1> SUFFICES ASSUME CacheInv, GetItemsFails PROVE CacheInv'
  OBVIOUS
<1>1. /\ kids' = kids /\ dead' = dead /\ known' = known /\ queue' = queue /\ view' = view
      /\ filled' = FALSE
  BY DEF GetItemsFails, serverVars
<1>2. wire \in Seq(Message)
  BY DEF CacheInv, TypeOK
<1>3. PICK i \in 1..Len(wire) : wire[i].kind = "items" /\ wire' = RemoveAt(wire, i)
  BY <1>2 DEF GetItemsFails
<1>4. \A o, p : ~Corrects(wire[i], o, p)
  BY <1>3 DEF Corrects
<1>5. \A o : Parent(o)' = Parent(o)
  BY <1>1 DEF Parent, Parents
<1>6. TypeOK'
  BY <1>1, <1>2, <1>3, TakenOut DEF CacheInv, TypeOK
<1>7. TreeIsWell'
  <2>1. GoneIsDead(wire', dead')
    BY <1>1, <1>2, <1>3, TakenOut DEF CacheInv, TreeIsWell
  <2> QED BY <1>1, <1>5, <2>1 DEF CacheInv, TreeIsWell, OneParent, DeadAlone
<1>8. ParentInv'
  <2> SUFFICES ASSUME "outdated" \notin raced', NEW o \in Object, Parent(o)' # None
               PROVE  Corrected(wire', o, Parent(o)')
    BY <1>1 DEF ParentInv
  <2>1. Corrected(wire, o, Parent(o))
    BY <1>5 DEF CacheInv, ParentInv, GetItemsFails
  <2> DEFINE p == Parent(o)
  <2>2. Parent(o)' = p /\ Corrected(wire, o, p)
    BY <1>5, <2>1
  <2> HIDE DEF p
  <2>3. Corrected(wire', o, p)
    BY <1>2, <1>3, <1>4, <2>2, TakenOut
  <2> QED BY <2>2, <2>3
<1> QED BY <1>6, <1>7, <1>8 DEF CacheInv

\* The client gets what it is told; if that is wrong, the correction is still to come.
LEMMA HandleOK == CacheInv /\ Handle => CacheInv'
<1> SUFFICES ASSUME CacheInv, Handle PROVE CacheInv'
  OBVIOUS
<1>1. kids' = kids /\ dead' = dead /\ known' = known /\ queue' = queue /\ filled' = filled
  BY DEF Handle, serverVars
<1>2. wire \in Seq(Message) /\ view \in Views
  BY DEF CacheInv, TypeOK
<1>3. PICK i \in 1..Len(wire) :
        /\ Arrives(i) /\ Race(i # 1, IF Outdated(i) THEN "outdated" ELSE "overtaking")
        /\ view' = Handled(view, wire[i]) /\ wire' = RemoveAt(wire, i)
  BY <1>2 DEF Handle
<1> DEFINE m == wire[i]
<1>4. m \in Message
  BY <1>2
<1>5. "outdated" \notin raced' => "outdated" \notin raced /\ (i # 1 => ~Outdated(i))
  BY <1>3 DEF Race
<1>6. /\ view' \in Views
      /\ \A x \in Object : Learns(m, x, view[x].parent, view'[x].parent)
  BY <1>2, <1>3, <1>4, HandledHeard
<1>7. \A o : Parent(o)' = Parent(o)
  BY <1>1 DEF Parent, Parents
<1>8. TypeOK'
  BY <1>1, <1>2, <1>3, <1>6, TakenOut DEF CacheInv, TypeOK
<1>9. TreeIsWell'
  <2>1. GoneIsDead(wire', dead')
    BY <1>1, <1>2, <1>3, TakenOut DEF CacheInv, TreeIsWell
  <2> QED BY <1>1, <1>7, <2>1 DEF CacheInv, TreeIsWell, OneParent, DeadAlone
<1>10. ParentInv'
  <2> SUFFICES ASSUME "outdated" \notin raced', NEW o \in Object, Parent(o)' # None
               PROVE  /\ Corrected(wire', o, Parent(o)')
                      /\ filled' /\ o \in known' =>
                           view'[o].parent = Parent(o)' \/ IsTold(wire', o, Parent(o)')
    BY DEF ParentInv
  <2> DEFINE p == Parent(o)
  <2>1. /\ p \in Object /\ Contains(kids[p], o) /\ Corrected(wire, o, p)
        /\ filled /\ o \in known => view[o].parent = p \/ IsTold(wire, o, p)
        /\ Parent(o)' = p
    BY <1>5, <1>7, ParentFound DEF CacheInv, ParentInv
  <2>2. ASSUME m.kind = "gone" PROVE m.obj # o /\ m.obj # p
    <3>1. m.obj \in dead
      BY <1>3, <2>2 DEF CacheInv, TreeIsWell, GoneIsDead
    <3>2. kids[m.obj] = <<>> /\ Parent(m.obj) = None
      BY <3>1 DEF CacheInv, TreeIsWell, DeadAlone
    <3>3. p # None
      BY <1>7
    <3> QED BY <2>1, <3>2, <3>3 DEF Contains
  <2> HIDE DEF p
  <2>3. Corrected(wire', o, p)
    <3>1. ASSUME Corrects(m, o, p), NEW j \in 1..(i - 1), TellsOther(wire[j], o, p)
          PROVE  FALSE
      <4>1. m.kind \notin {"items", "child"}
        BY <3>1 DEF Corrects, Tells
      <4>2. wire[j].kind = "items"
        BY <1>3, <3>1, <4>1 DEF Arrives, IsReply, TellsOther
      <4>3. PICK k \in DOMAIN wire[j].items :
              wire[j].items[k].obj = o /\ wire[j].items[k].parent # p
        BY <3>1, <4>2 DEF TellsOther
      <4>4. TellsOther(m, wire[j].items[k].obj, wire[j].items[k].parent)
        BY <3>1, <4>3 DEF Corrects, Tells, TellsOther
      <4> QED BY <1>2, <1>5, <4>2, <4>4 DEF Outdated
    <3> QED BY <1>2, <1>3, <2>1, <3>1, TakenOut
  <2>4. ASSUME filled', o \in known'
        PROVE  view'[o].parent = p \/ IsTold(wire', o, p)
    <3>1. view[o].parent = p \/ IsTold(wire, o, p)
      BY <1>1, <2>1, <2>4
    <3>2. CASE TellsOther(m, o, p)
      BY <1>2, <1>3, <2>1, <3>2, TakenOut
    <3>3. CASE Tells(m, o, view'[o].parent) /\ ~TellsOther(m, o, p)
      BY <3>3 DEF Tells, TellsOther
    <3>4. CASE view'[o].parent = view[o].parent /\ \A q : ~Tells(m, o, q)
      BY <1>2, <1>3, <3>1, <3>4, TakenOut
    <3>5. CASE m.kind = "gone" /\ view[o].parent = m.obj
      <4>1. view[o].parent # p /\ ~Tells(m, o, p)
        BY <2>2, <3>5 DEF Tells
      <4> QED BY <1>2, <1>3, <3>1, <4>1, TakenOut
    <3> QED BY <1>6, <2>2, <3>2, <3>3, <3>4, <3>5 DEF Learns
  <2> QED BY <2>1, <2>3, <2>4
<1> QED BY <1>8, <1>9, <1>10 DEF CacheInv

\* An object is taken from its parent.
LEMMA TakeOK ==
  ASSUME CacheInv, NEW o \in Object, Take(o)
  PROVE  CacheInv'
<1> DEFINE p == Parent(o)
           m == [kind |-> "removed", src |-> p, child |-> o]
           ms == <<m>>
           rest == RemoveFirst(kids[p], o)
<1>1. TypeOK
  BY DEF CacheInv
<1>2. /\ kids' = [kids EXCEPT ![p] = rest] /\ wire' = wire \o ms /\ p # None
      /\ UNCHANGED <<dead, known, queue, filled, view>>
  BY DEF Take, Send
<1>3. p \in Object /\ Contains(kids[p], o)
  BY <1>2, ParentFound
<1> HIDE DEF p
<1>4. rest \in Seq(Object) /\ \A x : Contains(rest, x) => Contains(kids[p], x)
  BY <1>1, <1>3, RemoveFirstElements DEF TypeOK
<1>5. m \in Message /\ m.kind = "removed"
  BY <1>3 DEF Message
<1> HIDE DEF m, rest
<1>6. ms \in Seq(Message) /\ Len(ms) = 1 /\ ms[1] = m
  BY <1>5
<1> HIDE DEF ms
<1>7. \A x \in Object : kids'[x] = IF x = p THEN rest ELSE kids[x]
  BY <1>1, <1>2 DEF TypeOK
<1>8. NoneGains
  BY <1>4, <1>7 DEF NoneGains
<1>9. \A k \in 1..Len(ms), x \in Object : ~TellsOther(ms[k], x, Parent(x))
  BY <1>5, <1>6 DEF TellsOther
<1>10. ParentInv'
  <2>1. StaysOutdated
    BY DEF Take, StaysOutdated
  <2> QED BY <1>2, <1>6, <1>8, <1>9, <2>1, StepKeepsParents
<1>11. TreeIsWell'
  <2>1. GoneIsDead(ms, dead)
    BY <1>5, <1>6 DEF GoneIsDead
  <2>2. p \notin dead
    BY <1>3 DEF CacheInv, TreeIsWell, DeadAlone, Contains
  <2>3. \A x \in dead : kids'[x] = kids[x]
    BY <1>1, <1>7, <2>2 DEF TypeOK
  <2> QED BY <1>2, <1>6, <1>8, <2>1, <2>3, StepKeepsTree
<1>12. TypeOK'
  <2>1. wire' \in Seq(Message)
    BY <1>1, <1>2, <1>6, SentAfter DEF TypeOK
  <2>2. kids' \in [Object -> Seq(Object)]
    BY <1>1, <1>2, <1>4 DEF TypeOK
  <2> QED BY <1>1, <1>2, <2>1, <2>2 DEF TypeOK
<1> QED BY <1>10, <1>11, <1>12 DEF CacheInv
\* A dead object has no children, and nobody has it.
LEMMA DestroyOK ==
  ASSUME CacheInv, NEW o \in Object, Destroy(o)
  PROVE  CacheInv'
<1> DEFINE m == [kind |-> "gone", obj |-> o]
           ms == IF o \in known THEN <<m>> ELSE <<>>
<1>1. TypeOK
  BY DEF CacheInv
<1>2. /\ kids' = [kids EXCEPT ![o] = <<>>] /\ dead' = dead \cup {o} /\ known' = known \ {o}
      /\ Parent(o) = None /\ queue' \in {queue, RemoveFirst(queue, o)}
      /\ UNCHANGED <<filled, view>>
  BY DEF Destroy
<1>3. m \in Message /\ m.kind = "gone" /\ m.obj = o
  BY DEF Message
<1>4. wire' = wire \o ms
  <2>1. CASE o \in known
    BY <2>1 DEF Destroy, Send
  <2>2. CASE o \notin known
    <3>1. wire' = wire /\ ms = <<>> /\ wire \in Seq(Message)
      BY <1>1, <2>2 DEF Destroy, TypeOK
    <3> QED BY <3>1
  <2> QED BY <2>1, <2>2
<1> HIDE DEF m
<1>5. ms \in Seq(Message) /\ \A k \in 1..Len(ms) : ms[k] = m
  BY <1>3
<1> HIDE DEF ms
<1>6. \A x \in Object : kids'[x] = IF x = o THEN <<>> ELSE kids[x]
  BY <1>1, <1>2 DEF TypeOK
<1>7. NoneGains
  BY <1>6 DEF NoneGains, Contains
<1>8. \A k \in 1..Len(ms), x \in Object : ~TellsOther(ms[k], x, Parent(x))
  BY <1>3, <1>5 DEF TellsOther
<1>9. ParentInv'
  <2>1. StaysOutdated
    BY DEF Destroy, StaysOutdated
  <2> QED BY <1>2, <1>4, <1>5, <1>7, <1>8, <2>1, StepKeepsParents
<1>10. TreeIsWell'
  <2>1. OneParent'
    BY <1>7 DEF CacheInv, TreeIsWell, OneParent, NoneGains
  <2>2. DeadAlone'
    <3> SUFFICES ASSUME NEW x \in dead' PROVE kids'[x] = <<>> /\ Parent(x)' = None
      BY DEF DeadAlone
    <3>1. x \in Object
      BY <1>1, <1>2 DEF TypeOK
    <3>2. Parent(x) = None /\ kids'[x] = <<>>
      BY <1>2, <1>6, <3>1 DEF CacheInv, TreeIsWell, DeadAlone
    <3> QED BY <1>7, <3>1, <3>2, ParentKept DEF CacheInv, TreeIsWell
  <2>3. GoneIsDead(wire', dead')
    <3>1. GoneIsDead(wire, dead')
      BY <1>2 DEF CacheInv, TreeIsWell, GoneIsDead
    <3>2. GoneIsDead(ms, dead')
      BY <1>2, <1>3, <1>5 DEF GoneIsDead
    <3> QED BY <1>1, <1>4, <1>5, <3>1, <3>2, SentKeepsGone DEF TypeOK
  <2> QED BY <2>1, <2>2, <2>3 DEF TreeIsWell
<1>11. TypeOK'
  <2>1. wire' \in Seq(Message)
    BY <1>1, <1>4, <1>5, SentAfter DEF TypeOK
  <2>2. kids' \in [Object -> Seq(Object)]
    BY <1>1, <1>2 DEF TypeOK
  <2>3. queue' \in Seq(Object)
    BY <1>1, <1>2, RemoveFirstElements DEF TypeOK
  <2> QED BY <1>1, <1>2, <2>1, <2>2, <2>3 DEF TypeOK
<1> QED BY <1>9, <1>10, <1>11 DEF CacheInv

\* What an insertion does to the tree.
LEMMA InsertedTree ==
  ASSUME TypeOK, NEW o \in Object, NEW p \in Object, NEW i \in Nat, Insert(o, p, i)
  PROVE  /\ \A x, q \in Object :
              Contains(kids'[q], x) <=> (x = o /\ q = p) \/ Contains(kids[q], x)
         /\ \A q \in Object : ~Contains(kids[q], o)
         /\ \A x \in Object : Parent(x)' = IF x = o THEN p ELSE Parent(x)
<1> DEFINE more == InsertAt(kids[p], i + 1, o)
<1>1. kids' = [kids EXCEPT ![p] = more] /\ Parent(o) = None /\ i \in 0..Len(kids[p])
  BY DEF Insert
<1>2. \A x : Contains(more, x) <=> x = o \/ Contains(kids[p], x)
  <2>1. kids[p] \in Seq(Object)
    BY DEF TypeOK
  <2>2. i + 1 \in 1..(Len(kids[p]) + 1)
    BY <1>1, <2>1
  <2> QED BY <2>1, <2>2, InsertAtElements, SMTT(40)
<1> HIDE DEF more
<1>3. \A x \in Object : kids'[x] = IF x = p THEN more ELSE kids[x]
  BY <1>1 DEF TypeOK
<1>4. \A x, q \in Object :
        Contains(kids'[q], x) <=> (x = o /\ q = p) \/ Contains(kids[q], x)
  BY <1>2, <1>3
<1>5. \A q \in Object : ~Contains(kids[q], o)
  BY <1>1, ParentFound
<1>6. ASSUME NEW x \in Object
      PROVE  Parent(x)' = IF x = o THEN p ELSE Parent(x)
  <2>1. Parents(x)' = IF x = o THEN {p} ELSE Parents(x)
    BY <1>4, <1>5 DEF Parents
  <2>2. CASE x = o
    BY <2>1, <2>2 DEF Parent
  <2>3. CASE x # o
    BY <2>1, <2>3 DEF Parent
  <2> QED BY <2>2, <2>3
<1> QED BY <1>4, <1>5, <1>6

\* The new parent is announced behind whatever tells an old one.
LEMMA InsertOK ==
  ASSUME CacheInv, NEW o \in Object, NEW p \in Object, NEW i \in Nat, Insert(o, p, i)
  PROVE  CacheInv'
<1> DEFINE m == [kind |-> "parent", obj |-> o, parent |-> p]
           n == [kind |-> "added", src |-> p, index |-> i, child |-> o]
           ms == <<m, n>>
           more == InsertAt(kids[p], i + 1, o)
<1>1. TypeOK
  BY DEF CacheInv
<1>2. /\ kids' = [kids EXCEPT ![p] = more] /\ wire' = wire \o ms
      /\ Parent(o) = None /\ o \notin dead /\ p \notin dead /\ i \in 0..Len(kids[p])
      /\ queue' \in {queue, Append(queue, o)}
      /\ UNCHANGED <<dead, known, filled, view>>
  BY DEF Insert, Send
<1>3. more \in Seq(Object)
  <2>1. kids[p] \in Seq(Object)
    BY <1>1 DEF TypeOK
  <2>2. i + 1 \in 1..(Len(kids[p]) + 1)
    BY <1>2, <2>1
  <2> QED BY <2>1, <2>2, InsertAtElements
<1> HIDE DEF more
<1>4. /\ m \in Message /\ m.kind = "parent" /\ m.obj = o /\ m.parent = p
      /\ n \in Message /\ n.kind = "added"
  BY DEF Message
<1> HIDE DEF m, n
<1>5. ms \in Seq(Message) /\ Len(ms) = 2 /\ ms[1] = m /\ ms[2] = n
  BY <1>4
<1>6. \A x \in Object : kids'[x] = IF x = p THEN more ELSE kids[x]
  BY <1>1, <1>2 DEF TypeOK
<1>7. \A x, q \in Object :
        Contains(kids'[q], x) <=> (x = o /\ q = p) \/ Contains(kids[q], x)
  BY <1>1, InsertedTree
<1>8. \A q \in Object : ~Contains(kids[q], o)
  BY <1>1, InsertedTree
<1>9. \A x \in Object : Parent(x)' = IF x = o THEN p ELSE Parent(x)
  BY <1>1, InsertedTree
<1>10. ParentInv'
  <2> SUFFICES ASSUME "outdated" \notin raced', NEW x \in Object, Parent(x)' # None
               PROVE  /\ Corrected(wire', x, Parent(x)')
                      /\ filled' /\ x \in known' =>
                           view'[x].parent = Parent(x)' \/ IsTold(wire', x, Parent(x)')
    BY DEF ParentInv
  <2>0. "outdated" \notin raced
    BY DEF Insert, Race
  <2>1. wire \in Seq(Message)
    BY <1>1 DEF TypeOK
  <2>2. CASE x = o
    <3>1. Corrects(m, o, p) /\ ~TellsOther(m, o, p) /\ ~TellsOther(n, o, p)
      BY <1>4 DEF Corrects, TellsOther, Tells
    <3>2. Corrected(wire', o, p) /\ IsTold(wire', o, p)
      BY <1>2, <1>4, <2>1, <3>1, NewsCorrects
    <3>3. Parent(x)' = p
      BY <1>9, <2>2
    <3> QED BY <2>2, <3>2, <3>3
  <2>3. CASE x # o
    <3> DEFINE q == Parent(x)
    <3>1. Parent(x)' = q /\ q # None
      BY <1>9, <2>3
    <3>2. /\ Corrected(wire, x, q)
          /\ filled /\ x \in known => view[x].parent = q \/ IsTold(wire, x, q)
      BY <2>0, <3>1 DEF CacheInv, ParentInv
    <3> HIDE DEF q
    <3>3. \A k \in 1..Len(ms) : ~TellsOther(ms[k], x, q)
      <4>1. ~TellsOther(m, x, q) /\ ~TellsOther(n, x, q)
        BY <1>4, <2>3 DEF TellsOther
      <4> HIDE DEF ms
      <4> QED BY <1>5, <4>1
    <3> HIDE DEF ms
    <3>4. Corrected(wire', x, q) /\ (IsTold(wire, x, q) => IsTold(wire', x, q))
      BY <1>2, <1>5, <2>1, <3>2, <3>3, SentKeepsTold
    <3>5. filled' /\ x \in known' => view'[x].parent = q \/ IsTold(wire', x, q)
      BY <1>2, <3>2, <3>4
    <3> QED BY <3>1, <3>4, <3>5
  <2> QED BY <2>2, <2>3
<1>11. TreeIsWell'
  <2>1. OneParent'
    BY <1>7, <1>8 DEF CacheInv, TreeIsWell, OneParent
  <2>2. DeadAlone'
    <3> SUFFICES ASSUME NEW x \in dead PROVE kids'[x] = <<>> /\ Parent(x)' = None
      BY <1>2 DEF DeadAlone
    <3>1. x \in Object /\ kids[x] = <<>> /\ Parent(x) = None
      BY <1>1 DEF CacheInv, TreeIsWell, DeadAlone, TypeOK
    <3> QED BY <1>2, <1>6, <1>9, <3>1
  <2>3. GoneIsDead(wire', dead')
    <3>1. GoneIsDead(ms, dead)
      <4> HIDE DEF ms
      <4> QED BY <1>4, <1>5 DEF GoneIsDead
    <3> HIDE DEF ms
    <3> QED BY <1>1, <1>2, <1>5, <3>1, SentKeepsGone DEF CacheInv, TreeIsWell, TypeOK
  <2> QED BY <2>1, <2>2, <2>3 DEF TreeIsWell
<1>12. TypeOK'
  <2> HIDE DEF ms
  <2>1. wire' \in Seq(Message)
    BY <1>1, <1>2, <1>5, SentAfter DEF TypeOK
  <2>2. kids' \in [Object -> Seq(Object)]
    BY <1>1, <1>2, <1>3 DEF TypeOK
  <2>3. queue' \in Seq(Object)
    <3>1. queue \in Seq(Object)
      BY <1>1 DEF TypeOK
    <3>2. Append(queue, o) \in Seq(Object)
      BY <3>1
    <3> QED BY <1>2, <3>1, <3>2
  <2> QED BY <1>1, <1>2, <2>1, <2>2, <2>3 DEF TypeOK
<1> QED BY <1>10, <1>11, <1>12 DEF CacheInv

LEMMA CacheStep == CacheInv /\ [Next]_vars => CacheInv'
<1> SUFFICES ASSUME CacheInv, [Next]_vars PROVE CacheInv'
  OBVIOUS
<1>1. CASE UNCHANGED vars
  <2>1. /\ UNCHANGED <<kids, dead, known, queue, wire, filled, view, raced>>
        /\ \A o : Parent(o)' = Parent(o)
    BY <1>1 DEF vars, serverVars, Parent, Parents
  <2> QED BY <2>1 DEF CacheInv, TypeOK, TreeIsWell, OneParent, DeadAlone, ParentInv
<1>2. 0..Cardinality(Object) \subseteq Nat
  BY ObjectAssumption, FS_CardinalityType
<1>3. ASSUME NEW o \in Object, NEW p \in Object, NEW i \in 0..Cardinality(Object),
             Insert(o, p, i)
      PROVE  CacheInv'
  BY <1>2, <1>3, InsertOK
<1>4. ASSUME NEW p \in Object, NEW i \in 0..Cardinality(Object), GetChild(p, i)
      PROVE  CacheInv'
  BY <1>2, <1>4, GetChildOK
<1>5. ASSUME NEW o \in Object, Take(o) \/ Destroy(o) PROVE CacheInv'
  BY <1>5, TakeOK, DestroyOK
<1> QED
  BY <1>1, <1>3, <1>4, <1>5, AnnounceOK, GetItemsOK, GetItemsFailsOK, HandleOK DEF Next

-----------------------------------------------------------------------------
(* Lists, place by place *)

NoneTwiceIn(s) == \A i, j \in 1..Len(s) : s[i] = s[j] => i = j

\* What is left when one element is taken out.
LEMMA RemoveFirstKeeps ==
  ASSUME NEW S, NEW s \in Seq(S), NEW x
  PROVE  /\ NoneTwiceIn(s) => NoneTwiceIn(RemoveFirst(s, x))
         /\ \A y : Contains(s, y) /\ y # x => Contains(RemoveFirst(s, x), y)
<1>1. CASE RemoveFirst(s, x) = s /\ ~Contains(s, x)
  BY <1>1
<1>2. CASE \E p \in 1..Len(s) : RemoveFirst(s, x) = RemoveAt(s, p) /\ s[p] = x
  <2>1. PICK p \in 1..Len(s) : RemoveFirst(s, x) = RemoveAt(s, p) /\ s[p] = x
    BY <1>2
  <2> DEFINE t == RemoveAt(s, p)
  <2>2. /\ t \in Seq(S) /\ Len(t) = Len(s) - 1 /\ Len(s) \in Nat
        /\ \A i \in 1..(Len(s) - 1) : t[i] = s[Skip(p, i)]
    BY RemoveAtElements
  <2> HIDE DEF t
  <2>3. ASSUME NoneTwiceIn(s), NEW i \in 1..Len(t), NEW j \in 1..Len(t), t[i] = t[j]
        PROVE  i = j
    <3>1. /\ Skip(p, i) \in 1..Len(s) /\ Skip(p, j) \in 1..Len(s)
          /\ t[i] = s[Skip(p, i)] /\ t[j] = s[Skip(p, j)]
      BY <2>2 DEF Skip
    <3>2. Skip(p, i) = Skip(p, j)
      BY <2>3, <3>1 DEF NoneTwiceIn
    <3> QED BY <2>2, <3>2 DEF Skip
  <2>4. ASSUME NEW y, Contains(s, y), y # x PROVE Contains(t, y)
    <3>1. PICK j \in 1..Len(s) : s[j] = y
      BY <2>4 DEF Contains
    <3>2. j # p
      BY <2>1, <2>4, <3>1
    <3> DEFINE k == IF j < p THEN j ELSE j - 1
    <3>3. k \in 1..(Len(s) - 1) /\ Skip(p, k) = j
      BY <2>2, <3>2 DEF Skip
    <3> HIDE DEF k
    <3>4. k \in 1..Len(t) /\ t[k] = y
      BY <2>2, <3>1, <3>3
    <3> QED BY <3>4 DEF Contains
  <2> QED BY <2>1, <2>3, <2>4 DEF NoneTwiceIn, t
<1> QED BY <1>1, <1>2, RemoveFirstIs

\* A new element is put in.
LEMMA InsertAtKeeps ==
  ASSUME NEW S, NEW s \in Seq(S), NEW e \in S, NEW i \in 1..(Len(s) + 1),
         NoneTwiceIn(s), ~Contains(s, e)
  PROVE  NoneTwiceIn(InsertAt(s, i, e))
<1> DEFINE t == InsertAt(s, i, e)
<1>1. /\ t \in Seq(S) /\ Len(t) = Len(s) + 1
      /\ \A k \in 1..(i - 1) : t[k] = s[k]
      /\ t[i] = e
      /\ \A k \in (i + 1)..(Len(s) + 1) : t[k] = s[k - 1]
  BY InsertAtPlaces
<1> HIDE DEF t
<1> SUFFICES ASSUME NEW j \in 1..Len(t), NEW k \in 1..Len(t), t[j] = t[k] PROVE j = k
  BY DEF NoneTwiceIn, t
<1> DEFINE From(n) == IF n < i THEN n ELSE n - 1
<1>2. ASSUME NEW n \in 1..Len(t), n # i
      PROVE  From(n) \in 1..Len(s) /\ t[n] = s[From(n)] /\ t[n] # e
  <2>1. From(n) \in 1..Len(s) /\ t[n] = s[From(n)]
    BY <1>1, <1>2
  <2> QED BY <2>1 DEF Contains
<1>3. CASE j = i \/ k = i
  BY <1>1, <1>2, <1>3
<1>4. CASE j # i /\ k # i
  <2>1. From(j) = From(k)
    <3>1. /\ From(j) \in 1..Len(s) /\ t[j] = s[From(j)]
          /\ From(k) \in 1..Len(s) /\ t[k] = s[From(k)]
      BY <1>2, <1>4
    <3> HIDE DEF From
    <3> QED BY <3>1 DEF NoneTwiceIn
  <2> QED BY <1>4, <2>1
<1> QED BY <1>3, <1>4

\* Places of a list that has another length, or another entry in one place.
LEMMA SizedPlaces ==
  ASSUME NEW S, Hole \in S, NEW s \in Seq(S), NEW n \in Nat, NEW i \in 1..n, i <= Len(s)
  PROVE  Sized(s, n)[i] = s[i]
BY DEF Sized

IsPlaced(t, s, i, o) ==
  /\ Len(t) = (IF i < Len(s) THEN Len(s) ELSE i + 1)
  /\ t[i + 1] = o
  /\ \A j \in 1..Len(s) : j # i + 1 => t[j] = s[j]

LEMMA PlacedPlaces ==
  ASSUME NEW S, Hole \in S, NEW s \in Seq(S), NEW i \in Nat, NEW o \in S
  PROVE  IsPlaced(Placed(s, i, o), s, i, o)
<1> DEFINE n == IF i < Len(s) THEN Len(s) ELSE i + 1
           t == Sized(s, n)
<1>1. n \in Nat /\ i + 1 \in 1..n /\ \A j \in 1..Len(s) : j \in 1..n
  OBVIOUS
<1>2. Placed(s, i, o) = [t EXCEPT ![i + 1] = o]
  BY DEF Placed
<1> HIDE DEF n
<1>3. t \in Seq(S) /\ Len(t) = n
  BY <1>1, SizedType
<1>4. \A j \in 1..Len(s) : t[j] = s[j]
  BY <1>1 DEF Sized
<1> HIDE DEF t
<1>5. t \in [1..n -> S]
  BY <1>3
<1>6. [t EXCEPT ![i + 1] = o] \in [1..n -> S]
  BY <1>5
<1>7. Len([t EXCEPT ![i + 1] = o]) = n
  BY <1>1, <1>6
<1> QED BY <1>1, <1>2, <1>4, <1>5, <1>7 DEF n, IsPlaced

\* The right entry is put where it is.
LEMMA PlacedSame ==
  ASSUME NEW S, Hole \in S, NEW s \in Seq(S), NEW i \in Nat, i < Len(s)
  PROVE  Placed(s, i, s[i + 1]) = s
<1> DEFINE t == Placed(s, i, s[i + 1])
<1>1. s[i + 1] \in S
  OBVIOUS
<1>2. /\ t \in Seq(S) /\ Len(t) = Len(s) /\ t[i + 1] = s[i + 1]
      /\ \A j \in 1..Len(s) : j # i + 1 => t[j] = s[j]
  <2>1. IsPlaced(t, s, i, s[i + 1])
    BY <1>1, PlacedPlaces, Zenon
  <2>2. t \in Seq(S)
    BY <1>1, PlacedType, Zenon
  <2> HIDE DEF t
  <2> QED BY <2>1, <2>2 DEF IsPlaced
<1> HIDE DEF t
<1>3. \A j \in 1..Len(s) : t[j] = s[j]
  BY <1>2
<1>4. t = s
  BY <1>2, <1>3
<1> QED BY <1>4 DEF t

-----------------------------------------------------------------------------
(* What a message does to the lists *)

\* The lists and flags of w are those of v, but for o: these are s and flag.
ListIs(v, w, o, s, flag) ==
  /\ w \in Views
  /\ \A x \in Object : /\ w[x].kids = IF x = o THEN s ELSE v[x].kids
                       /\ w[x].flag = IF x = o THEN flag ELSE v[x].flag
SameLists(v, w) ==
  w \in Views /\ \A x \in Object : w[x].kids = v[x].kids /\ w[x].flag = v[x].flag

LEMMA KidsSetIs ==
  ASSUME NEW v \in Views, NEW o \in Object, NEW s \in Seq(Entry)
  PROVE  ListIs(v, SetKids(v, o, s), o, s, v[o].flag)
<1>1. v[o] \in View
  BY DEF Views
<1>2. /\ [v[o] EXCEPT !.kids = s] \in View /\ [v[o] EXCEPT !.kids = s].kids = s
      /\ [v[o] EXCEPT !.kids = s].flag = v[o].flag
  BY <1>1 DEF View
<1> QED BY <1>2 DEF Views, SetKids, ListIs

LEMMA ListSetIs ==
  ASSUME NEW v \in Views, NEW o \in Object, NEW s \in Seq(Entry), NEW flag \in BOOLEAN
  PROVE  ListIs(v, SetList(v, o, s, flag), o, s, flag)
<1> DEFINE w == SetKids(v, o, s)
<1>1. w \in Views /\ ListIs(v, w, o, s, v[o].flag)
  BY KidsSetIs DEF ListIs
<1>2. SetList(v, o, s, flag) = [w EXCEPT ![o].flag = flag]
  BY DEF SetList, SetKids
<1> HIDE DEF w
<1>3. /\ [w[o] EXCEPT !.flag = flag] \in View /\ [w[o] EXCEPT !.flag = flag].kids = w[o].kids
      /\ [w[o] EXCEPT !.flag = flag].flag = flag
  <2>1. w[o] \in View
    BY <1>1 DEF Views
  <2> QED BY <2>1 DEF View
<1> QED BY <1>1, <1>2, <1>3 DEF Views, ListIs

LEMMA ParentSetSame ==
  ASSUME NEW v \in Views, NEW o \in Object, NEW p, p \in Object \/ p = None
  PROVE  SameLists(v, SetParent(v, o, p))
<1>1. v[o] \in View
  BY DEF Views
<1>2. /\ [v[o] EXCEPT !.parent = p] \in View /\ [v[o] EXCEPT !.parent = p].kids = v[o].kids
      /\ [v[o] EXCEPT !.parent = p].flag = v[o].flag
  BY <1>1 DEF View
<1> QED BY <1>2 DEF Views, SetParent, SameLists

\* An item puts its object into the list of the parent and gives its own list the
\* right length.
ListWith(v, it, x) ==
  IF it.index # None /\ x = it.parent THEN Placed(v[x].kids, it.index, it.obj) ELSE v[x].kids
ItemLists(v, w, it) ==
  \A x \in Object :
    /\ w[x].kids = IF x = it.obj THEN Sized(ListWith(v, it, x), it.count) ELSE ListWith(v, it, x)
    /\ w[x].flag = (x = it.obj \/ v[x].flag)

LEMMA ItemListsAre ==
  ASSUME NEW v \in Views, NEW it \in ObjectItem
  PROVE  ItemLists(v, WithItem(v, it), it)
<1> DEFINE own == SetParent(v, it.obj, it.parent)
           put == IF it.index = None THEN own
                  ELSE [own EXCEPT ![it.parent].kids = Placed(@, it.index, it.obj)]
           sized == Sized(put[it.obj].kids, it.count)
<1>1. /\ it.obj \in Object /\ it.parent \in Object \cup {None} /\ it.count \in Nat
      /\ it.index = None \/ (it.index \in Nat /\ it.parent \in Object)
  BY DEF ObjectItem
<1>2. SameLists(v, own)
  BY <1>1, ParentSetSame
<1>3. WithItem(v, it) = [put EXCEPT ![it.obj].kids = sized, ![it.obj].flag = TRUE]
  BY DEF WithItem, SetParent
<1> HIDE DEF own
<1>4. /\ put \in Views
      /\ \A x \in Object : put[x].kids = ListWith(v, it, x) /\ put[x].flag = v[x].flag
  <2>1. CASE it.index = None
    BY <1>2, <2>1 DEF SameLists, ListWith
  <2>2. CASE it.index # None
    <3>1. own[it.parent].kids \in Seq(Entry) /\ it.obj \in Entry /\ Hole \in Entry
      BY <1>1, <1>2, <2>2 DEF Views, View, Entry, SameLists
    <3> DEFINE placed == Placed(own[it.parent].kids, it.index, it.obj)
               p == it.parent
    <3>2. placed \in Seq(Entry)
      BY <1>1, <2>2, <3>1, PlacedType
    <3>3. put = SetKids(own, p, placed) /\ p \in Object
      BY <1>1, <2>2 DEF SetKids
    <3>4. placed = ListWith(v, it, p)
      BY <1>2, <2>2, <3>3 DEF ListWith, SameLists
    <3>5. \A x \in Object : x # p => ListWith(v, it, x) = v[x].kids
      BY DEF ListWith
    <3>6. ListIs(own, put, p, placed, own[p].flag)
      <4> HIDE DEF placed, put, p
      <4> QED BY <1>2, <3>2, <3>3, KidsSetIs DEF SameLists
    <3> HIDE DEF placed, put, p
    <3> QED BY <1>2, <3>3, <3>4, <3>5, <3>6 DEF ListIs, SameLists
  <2> QED BY <2>1, <2>2
<1> HIDE DEF put
<1>5. sized \in Seq(Entry)
  <2>1. put[it.obj].kids \in Seq(Entry) /\ Hole \in Entry
    BY <1>1, <1>4 DEF Views, View, Entry
  <2> QED BY <1>1, <2>1, SizedType
<1>6. sized = Sized(ListWith(v, it, it.obj), it.count)
  BY <1>1, <1>4
<1> HIDE DEF sized
<1>7. WithItem(v, it) = SetList(put, it.obj, sized, TRUE)
  BY <1>3 DEF SetList
<1>8. TRUE \in BOOLEAN
  OBVIOUS
<1>9. ListIs(put, WithItem(v, it), it.obj, sized, TRUE)
  BY <1>1, <1>4, <1>5, <1>7, <1>8, ListSetIs, Zenon
<1> SUFFICES ASSUME NEW x \in Object
             PROVE  LET w == WithItem(v, it)
                    IN /\ w[x].kids = IF x = it.obj THEN Sized(ListWith(v, it, x), it.count)
                                      ELSE ListWith(v, it, x)
                       /\ w[x].flag = (x = it.obj \/ v[x].flag)
  BY DEF ItemLists
<1>10. CASE x = it.obj
  BY <1>6, <1>9, <1>10 DEF ListIs
<1>11. CASE x # it.obj
  <2>1. v[x].flag \in BOOLEAN
    BY DEF Views, View
  <2> QED BY <1>4, <1>9, <1>11, <2>1 DEF ListIs
<1> QED BY <1>10, <1>11

-----------------------------------------------------------------------------
(* The items of a tree *)

NoneTwice == \A p \in Object : NoneTwiceIn(kids[p])
TreeOK == TypeOK /\ OneParent /\ NoneTwice

\* An item has the one place of its object and the length of its list.
IsItem(it, x) ==
  /\ it \in ObjectItem /\ it.obj = x /\ it.count = Len(kids[x])
  /\ it.index # None =>
       /\ it.index \in Nat /\ it.parent \in Object
       /\ it.index < Len(kids[it.parent]) /\ kids[it.parent][it.index + 1] = x
  /\ \A o \in Object : \A i \in 1..Len(kids[o]) :
       kids[o][i] = x => it.index # None /\ it.parent = o /\ i = it.index + 1

LEMMA ItemPlace ==
  ASSUME TreeOK, NEW x \in Object
  PROVE  IsItem(Item(x), x)
<1> DEFINE index == IF Parent(x) = None THEN None ELSE Index(kids[Parent(x)], x) - 1
           it == Item(x)
<1>1. it \in ObjectItem /\ it.obj = x /\ it.parent = Parent(x)
  BY ItemTells DEF TreeOK
<1>2. it = [obj |-> x, parent |-> Parent(x), count |-> Len(kids[x]), index |-> index]
  BY DEF Item
<1> HIDE DEF index, it
<1>3. it.count = Len(kids[x]) /\ it.index = index
  BY <1>2
<1>4. CASE Parent(x) = None
  <2>1. index = None
    BY <1>4 DEF index
  <2>2. \A o \in Object : ~Contains(kids[o], x)
    BY <1>4, ParentFound
  <2>3. \A o \in Object : \A i \in 1..Len(kids[o]) : kids[o][i] # x
    BY <2>2 DEF Contains
  <2> QED BY <1>1, <1>3, <2>1, <2>3 DEF IsItem, it
<1>5. CASE Parent(x) # None
  <2> DEFINE p == Parent(x)
             s == kids[p]
  <2>1. p \in Object /\ Contains(s, x)
    BY <1>5, ParentFound
  <2>2. s \in Seq(Object) /\ NoneTwiceIn(s)
    BY <2>1 DEF TreeOK, TypeOK, NoneTwice
  <2>3. index = Index(s, x) - 1
    BY <1>5 DEF index
  <2> HIDE DEF s
  <2>4. \E i \in DOMAIN s : s[i] = x
    BY <2>1 DEF Contains
  <2>5. Index(s, x) \in DOMAIN s /\ s[Index(s, x)] = x
    BY <2>4 DEF Index
  <2>6. /\ index \in Nat /\ index < Len(s) /\ s[index + 1] = x
        /\ index + 1 \in 1..Len(s)
    BY <2>2, <2>3, <2>5
  <2>7. index # None
    BY <2>6, ObjectAssumption
  <2>8. ASSUME NEW o \in Object, NEW i \in 1..Len(kids[o]), kids[o][i] = x
        PROVE  o = p /\ i = index + 1
    <3>1. Contains(kids[o], x)
      BY <2>8 DEF Contains
    <3>2. o = p
      BY <2>1, <3>1 DEF TreeOK, OneParent, s
    <3>3. i \in 1..Len(s) /\ s[i] = x
      BY <2>8, <3>2 DEF s
    <3> QED BY <2>2, <2>6, <3>2, <3>3 DEF NoneTwiceIn
  <2> HIDE DEF p
  <2>9. it.parent = p
    BY <1>1 DEF p
  <2> QED BY <1>1, <1>3, <2>1, <2>6, <2>7, <2>8, <2>9 DEF IsItem, s, it
<1> QED BY <1>4, <1>5

\* Of the objects C the view v has list and length right as far as they are in it; the
\* other lists that were right before, in u, are.
Places(t, s, C) ==
  \A i \in 1..Len(s) : s[i] \in C => i <= Len(t) /\ t[i] = s[i]
Catches(u, v, C) ==
  \A o \in Object :
    /\ v[o].flag = (o \in C \/ u[o].flag)
    /\ o \in C => Len(v[o].kids) = Len(kids[o])
    /\ Places(v[o].kids, kids[o], C)
    /\ o \notin C /\ u[o].kids = kids[o] => v[o].kids = kids[o]

LEMMA ItemAdds ==
  ASSUME TreeOK, NEW u \in Views, NEW v \in Views, NEW C, Catches(u, v, C), NEW x \in Object
  PROVE  Catches(u, WithItem(v, Item(x)), C \cup {x})
<1> DEFINE it == Item(x)
           w == WithItem(v, it)
<1>1. IsItem(it, x)
  BY ItemPlace
<1> HIDE DEF it
<1>2. w \in Views /\ ItemLists(v, w, it)
  BY <1>1, ItemHeard, ItemListsAre DEF IsItem
<1> HIDE DEF w
<1> SUFFICES ASSUME NEW o \in Object
             PROVE  /\ w[o].flag = (o \in C \cup {x} \/ u[o].flag)
                    /\ o \in C \cup {x} => Len(w[o].kids) = Len(kids[o])
                    /\ Places(w[o].kids, kids[o], C \cup {x})
                    /\ o \notin C \cup {x} /\ u[o].kids = kids[o] => w[o].kids = kids[o]
  BY DEF Catches, w, it
<1> DEFINE s == kids[o]
           t == v[o].kids
           a == ListWith(v, it, o)
<1>3. /\ v[o].flag = (o \in C \/ u[o].flag) /\ (o \in C => Len(t) = Len(s))
      /\ Places(t, s, C) /\ (o \notin C /\ u[o].kids = s => t = s)
  BY DEF Catches
<1>4. /\ s \in Seq(Object) /\ s \in Seq(Entry) /\ t \in Seq(Entry) /\ x \in Entry /\ Hole \in Entry
      /\ Len(s) \in Nat /\ Len(t) \in Nat
  <2>1. s \in Seq(Object) /\ t \in Seq(Entry)
    BY DEF TreeOK, TypeOK, Views, View
  <2>2. Object \subseteq Entry /\ Hole \in Entry
    BY DEF Entry
  <2> HIDE DEF s, t
  <2>3. s \in Seq(Entry)
    BY <2>1, <2>2
  <2> QED BY <2>1, <2>2, <2>3
<1>5. \/ a = t /\ \A i \in 1..Len(s) : s[i] # x
      \/ /\ it.index \in Nat /\ it.index < Len(s) /\ s[it.index + 1] = x
         /\ a = Placed(t, it.index, x) /\ \A i \in 1..Len(s) : s[i] = x => i = it.index + 1
  <2>1. CASE it.index # None /\ it.parent = o
    BY <1>1, <2>1 DEF IsItem, ListWith
  <2>2. CASE ~(it.index # None /\ it.parent = o)
    BY <1>1, <2>2 DEF IsItem, ListWith
  <2> QED BY <2>1, <2>2
<1>6. w[o].kids = IF o = x THEN Sized(a, Len(s)) ELSE a
  BY <1>1, <1>2 DEF ItemLists, IsItem
<1>7. w[o].flag = (o \in C \cup {x} \/ u[o].flag)
  BY <1>1, <1>2, <1>3 DEF ItemLists, IsItem
<1> HIDE DEF s, t, a
<1>8. /\ a \in Seq(Entry) /\ Len(a) \in Nat /\ Places(a, s, C \cup {x})
      /\ (Len(t) = Len(s) => Len(a) = Len(s))
      /\ (t = s => a = s)
  <2>1. CASE a = t /\ \A i \in 1..Len(s) : s[i] # x
    BY <1>3, <1>4, <2>1 DEF Places
  <2>2. CASE /\ it.index \in Nat /\ it.index < Len(s) /\ s[it.index + 1] = x
             /\ a = Placed(t, it.index, x)
             /\ \A i \in 1..Len(s) : s[i] = x => i = it.index + 1
    <3> DEFINE k == it.index
    <3>1. k \in Nat /\ k < Len(s) /\ s[k + 1] = x /\ a = Placed(t, k, x)
      BY <2>2
    <3>2. /\ a \in Seq(Entry) /\ Len(a) = (IF k < Len(t) THEN Len(t) ELSE k + 1)
          /\ a[k + 1] = x /\ \A j \in 1..Len(t) : j # k + 1 => a[j] = t[j]
      <4> HIDE DEF k
      <4>1. Placed(t, k, x) \in Seq(Entry)
        BY <1>4, <3>1, PlacedType
      <4>2. IsPlaced(Placed(t, k, x), t, k, x)
        BY <1>4, <3>1, PlacedPlaces, Zenon
      <4> QED BY <3>1, <4>1, <4>2 DEF IsPlaced
    <3>3. ASSUME NEW i \in 1..Len(s), s[i] \in C \cup {x}
          PROVE  i <= Len(a) /\ a[i] = s[i]
      <4>1. CASE i = k + 1
        BY <1>4, <3>1, <3>2, <4>1
      <4>2. CASE i # k + 1
        <5>1. s[i] \in C
          BY <2>2, <3>3, <4>2
        <5>2. i <= Len(t) /\ t[i] = s[i]
          BY <1>3, <5>1 DEF Places
        <5> QED BY <1>4, <3>1, <3>2, <4>2, <5>2
      <4> QED BY <4>1, <4>2
    <3>4. t = s => a = s
      BY <1>4, <2>2, <3>1, PlacedSame
    <3> HIDE DEF k
    <3> QED BY <1>4, <3>1, <3>2, <3>3, <3>4 DEF Places
  <2> QED BY <1>5, <2>1, <2>2
<1>9. CASE o = x
  <2> DEFINE b == Sized(a, Len(s))
  <2>1. b \in Seq(Entry) /\ Len(b) = Len(s)
    BY <1>4, <1>8, SizedType
  <2>2. \A i \in 1..Len(s) : i <= Len(a) => b[i] = a[i]
    BY <1>4, <1>8 DEF Sized
  <2> HIDE DEF b
  <2>3. Places(b, s, C \cup {x})
    BY <1>4, <1>8, <2>1, <2>2 DEF Places
  <2>4. w[o].kids = b
    BY <1>6, <1>9 DEF b
  <2> QED BY <1>7, <1>9, <2>1, <2>3, <2>4 DEF s
<1>10. CASE o # x
  <2>1. w[o].kids = a
    BY <1>6, <1>10
  <2>2. o \in C => Len(a) = Len(s)
    BY <1>3, <1>8
  <2>3. o \notin C /\ u[o].kids = s => a = s
    BY <1>3, <1>8
  <2> QED BY <1>7, <1>8, <1>10, <2>1, <2>2, <2>3 DEF s
<1> QED BY <1>9, <1>10

\* The objects of a list, up to the n-th.
First(s, n) == {s[k] : k \in 1..n}

LEMMA ItemsCatch ==
  ASSUME TreeOK, NEW v \in Views, NEW s \in Seq(Object), NEW items \in Seq(ObjectItem),
         Len(items) = Len(s), \A k \in 1..Len(s) : items[k] = Item(s[k]),
         NEW f, IsPath(f, v, items)
  PROVE  Catches(v, f[Len(s)], First(s, Len(s))) /\ f[Len(s)] \in Views
<1> DEFINE K == Len(s)
           P == {n \in 0..K : Catches(v, f[n], First(s, n))}
<1>1. K \in Nat /\ \A k \in 1..K : s[k] \in Object
  OBVIOUS
<1>2. f \in [0..K -> Views] /\ f[0] = v /\ \A k \in 1..K : f[k] = WithItem(f[k - 1], Item(s[k]))
  BY DEF IsPath
<1> HIDE DEF K
<1>3. 0 \in P
  <2>1. First(s, 0) = {}
    BY DEF First
  <2>2. \A o \in Object : v[o].flag \in BOOLEAN
    BY DEF Views, View
  <2> QED BY <1>1, <1>2, <2>1, <2>2 DEF Catches, Places
<1>4. ASSUME NEW n \in 1..K, n - 1 \in P PROVE n \in P
  <2> DEFINE a == f[n - 1]
             C == First(s, n - 1)
  <2>1. a \in Views /\ Catches(v, a, C) /\ s[n] \in Object /\ f[n] = WithItem(a, Item(s[n]))
    BY <1>1, <1>2, <1>4
  <2>2. First(s, n) = C \cup {s[n]}
    <3>1. 1..n = 1..(n - 1) \cup {n}
      BY <1>1
    <3> QED BY <3>1 DEF First
  <2> HIDE DEF a, C
  <2>3. Catches(v, f[n], First(s, n))
    BY <2>1, <2>2, ItemAdds
  <2> QED BY <1>1, <2>3
<1>5. K \in P
  <2> HIDE DEF P
  <2>1. 0..K \subseteq P
    BY <1>1, <1>3, <1>4, UpTo
  <2> QED BY <1>1, <2>1
<1> QED BY <1>1, <1>2, <1>5 DEF K

\* The lists in use are those of the tree, and those of the objects D are in use.
Right(v, ks, d, D) ==
  /\ \A o \in Object \ d : v[o].flag => v[o].kids = ks[o]
  /\ \A o \in Object : o \in D => v[o].flag

\* They stay it with items of objects that have each child of theirs among them, and the
\* lists of these are in use too.
LEMMA CaughtIsRight ==
  ASSUME TreeOK, NEW v \in Views, NEW w \in Views, NEW C, Catches(v, w, C),
         \A o \in C \cap Object : \A c : Contains(kids[o], c) => c \in C,
         NEW D, Right(v, kids, dead, D)
  PROVE  Right(w, kids, dead, D \cup C)
<1>0. \A o \in Object : o \in D \cup C => w[o].flag
  <2>1. \A o \in Object : w[o].flag = (o \in C \/ v[o].flag)
    BY DEF Catches
  <2>2. \A o \in Object : o \in D => v[o].flag
    BY DEF Right
  <2> QED BY <2>1, <2>2
<1> SUFFICES ASSUME NEW o \in Object \ dead, w[o].flag PROVE w[o].kids = kids[o]
  BY <1>0 DEF Right
<1> DEFINE s == kids[o]
           t == w[o].kids
<1>1. /\ (o \in C \/ v[o].flag) /\ (o \in C => Len(t) = Len(s))
      /\ Places(t, s, C) /\ (o \notin C /\ v[o].kids = s => t = s)
  BY DEF Catches
<1>2. s \in Seq(Object) /\ t \in Seq(Entry)
  BY DEF TreeOK, TypeOK, Views, View
<1>3. CASE o \in C
  <2>1. \A i \in 1..Len(s) : s[i] \in C
    BY <1>3 DEF Contains
  <2> HIDE DEF s, t
  <2>2. Len(t) = Len(s) /\ \A i \in 1..Len(s) : t[i] = s[i]
    BY <1>1, <1>3, <2>1 DEF Places
  <2>3. t = s
    BY <1>2, <2>2
  <2> QED BY <2>3 DEF s, t
<1>4. CASE o \notin C
  BY <1>1, <1>4 DEF Right
<1> QED BY <1>3, <1>4

-----------------------------------------------------------------------------
(* What becomes of the cache once the messages q on their way are handled in order;  *)
(* with lost, a reply to GetItems is not.                                             *)

Effect(v, m, lost) == IF lost /\ m.kind = "items" THEN v ELSE Handled(v, m)
IsRun(f, q, v, lost) ==
  /\ f \in [0..Len(q) -> Views] /\ f[0] = v
  /\ \A n \in 1..Len(q) : f[n] = Effect(f[n - 1], q[n], lost)
Leads(q, v, w, lost) == \E f : IsRun(f, q, v, lost) /\ f[Len(q)] = w

LEMMA EffectType ==
  ASSUME NEW v \in Views, NEW m \in Message, NEW lost
  PROVE  Effect(v, m, lost) \in Views
BY HandledHeard DEF Effect

LEMMA LeadsNowhere ==
  ASSUME NEW v \in Views, NEW w, NEW lost
  PROVE  Leads(<<>>, v, w, lost) <=> w = v
<1>1. ASSUME Leads(<<>>, v, w, lost) PROVE w = v
  BY <1>1 DEF Leads, IsRun
<1>2. Leads(<<>>, v, v, lost)
  <2> DEFINE f == [n \in 0..0 |-> v]
  <2>1. IsRun(f, <<>>, v, lost) /\ f[Len(<<>>)] = v
    BY DEF IsRun
  <2> QED BY <2>1 DEF Leads
<1> QED BY <1>1, <1>2

LEMMA LeadsOne ==
  ASSUME NEW v \in Views, NEW m \in Message, NEW lost
  PROVE  Leads(<<m>>, v, Effect(v, m, lost), lost)
<1> DEFINE w == Effect(v, m, lost)
           f == [n \in 0..1 |-> IF n = 0 THEN v ELSE w]
           q == <<m>>
<1>1. w \in Views
  BY EffectType
<1>2. f \in [0..1 -> Views] /\ f[0] = v /\ f[1] = w
  BY <1>1
<1>3. Len(q) = 1 /\ q[1] = m
  OBVIOUS
<1> HIDE DEF f, q
<1>4. \A n \in 1..1 : f[n] = Effect(f[n - 1], q[n], lost)
  BY <1>2, <1>3
<1>5. IsRun(f, q, v, lost)
  BY <1>2, <1>3, <1>4 DEF IsRun
<1> QED BY <1>2, <1>3, <1>5 DEF Leads, q

\* One run after the other.
LEMMA LeadsOn ==
  ASSUME NEW q \in Seq(Message), NEW r \in Seq(Message), NEW v, NEW w, NEW x, NEW lost,
         Leads(q, v, w, lost), Leads(r, w, x, lost)
  PROVE  Leads(q \o r, v, x, lost)
<1> DEFINE K == Len(q)
           L == Len(r)
           t == q \o r
<1>1. PICK f : IsRun(f, q, v, lost) /\ f[K] = w
  BY DEF Leads
<1>2. PICK g : IsRun(g, r, w, lost) /\ g[L] = x
  BY DEF Leads
<1> DEFINE h == [n \in 0..(K + L) |-> IF n <= K THEN f[n] ELSE g[n - K]]
<1>3. /\ K \in Nat /\ L \in Nat /\ Len(t) = K + L
      /\ \A n \in 1..K : t[n] = q[n]
      /\ \A n \in 1..L : t[K + n] = r[n]
  BY SentAfter
<1>4. /\ f \in [0..K -> Views] /\ f[0] = v /\ f[K] = w
      /\ \A n \in 1..K : f[n] = Effect(f[n - 1], q[n], lost)
  BY <1>1 DEF IsRun
<1>5. /\ g \in [0..L -> Views] /\ g[0] = w /\ g[L] = x
      /\ \A n \in 1..L : g[n] = Effect(g[n - 1], r[n], lost)
  BY <1>2 DEF IsRun
<1> HIDE DEF K, L, t
<1>6. h \in [0..(K + L) -> Views]
  BY <1>3, <1>4, <1>5
<1>7. /\ \A n \in 0..K : h[n] = f[n]
      /\ \A n \in 0..L : h[K + n] = g[n]
  <2>1. \A n \in 0..K : h[n] = f[n]
    BY <1>3
  <2>2. ASSUME NEW n \in 0..L PROVE h[K + n] = g[n]
    <3>1. K + n \in 0..(K + L) /\ (K + n) - K = n /\ (K + n <= K => n = 0 /\ K + n = K)
      BY <1>3
    <3> QED BY <1>4, <1>5, <3>1
  <2> QED BY <2>1, <2>2
<1> HIDE DEF h
<1>8. ASSUME NEW n \in 1..(K + L) PROVE h[n] = Effect(h[n - 1], t[n], lost)
  <2>1. CASE n <= K
    <3>1. n \in 1..K /\ n \in 0..K /\ n - 1 \in 0..K
      BY <1>3, <2>1
    <3> QED BY <1>3, <1>4, <1>7, <3>1
  <2>2. CASE ~(n <= K)
    <3> DEFINE k == n - K
    <3>1. k \in 1..L /\ k \in 0..L /\ k - 1 \in 0..L /\ n = K + k /\ n - 1 = K + (k - 1)
      BY <1>3, <2>2
    <3> HIDE DEF k
    <3>2. h[n] = g[k] /\ h[n - 1] = g[k - 1] /\ t[n] = r[k]
      BY <1>3, <1>7, <3>1
    <3> QED BY <1>5, <3>1, <3>2
  <2> QED BY <2>1, <2>2
<1>9. h[0] = v /\ h[K + L] = x
  BY <1>3, <1>4, <1>5, <1>7
<1> QED BY <1>3, <1>6, <1>8, <1>9 DEF Leads, IsRun, t

\* The first message is handled.
LEMMA LeadsFirst ==
  ASSUME NEW q \in Seq(Message), 1 \in 1..Len(q), NEW v, NEW w, NEW lost, Leads(q, v, w, lost)
  PROVE  Leads(RemoveAt(q, 1), Effect(v, q[1], lost), w, lost)
<1> DEFINE K == Len(q) - 1
           t == RemoveAt(q, 1)
<1>1. PICK f : IsRun(f, q, v, lost) /\ f[Len(q)] = w
  BY DEF Leads
<1> DEFINE g == [n \in 0..K |-> f[n + 1]]
<1>2. /\ K \in Nat /\ Len(q) = K + 1 /\ Len(t) = K
      /\ \A n \in 1..K : t[n] = q[n + 1]
  <2>1. /\ t \in Seq(Message) /\ Len(t) = Len(q) - 1
        /\ \A n \in 1..(Len(q) - 1) : t[n] = q[Skip(1, n)]
    BY RemoveAtElements
  <2> HIDE DEF t
  <2> QED BY <2>1 DEF Skip
<1>3. /\ f \in [0..(K + 1) -> Views] /\ f[0] = v /\ f[K + 1] = w
      /\ \A n \in 1..(K + 1) : f[n] = Effect(f[n - 1], q[n], lost)
  BY <1>1, <1>2 DEF IsRun
<1> HIDE DEF K, t
<1>4. g \in [0..K -> Views] /\ \A n \in 0..K : g[n] = f[n + 1]
  BY <1>2, <1>3
<1> HIDE DEF g
<1>5. g[0] = Effect(v, q[1], lost) /\ g[K] = w
  <2>1. f[1] = Effect(f[0], q[1], lost)
    BY <1>2, <1>3
  <2> QED BY <1>2, <1>3, <1>4, <2>1
<1>6. ASSUME NEW n \in 1..K PROVE g[n] = Effect(g[n - 1], t[n], lost)
  <2>1. n \in 0..K /\ n - 1 \in 0..K /\ n + 1 \in 1..(K + 1) /\ (n + 1) - 1 = n /\ (n - 1) + 1 = n
    BY <1>2
  <2>2. f[n + 1] = Effect(f[n], q[n + 1], lost)
    BY <1>3, <2>1
  <2> QED BY <1>2, <1>4, <2>1, <2>2
<1> QED BY <1>2, <1>4, <1>5, <1>6 DEF Leads, IsRun, t

\* A reply that is lost makes no difference if it does not come.
LEMMA LeadsWithout ==
  ASSUME NEW q \in Seq(Message), NEW i \in 1..Len(q), q[i].kind = "items", NEW v, NEW w,
         Leads(q, v, w, TRUE)
  PROVE  Leads(RemoveAt(q, i), v, w, TRUE)
<1> DEFINE K == Len(q) - 1
           t == RemoveAt(q, i)
<1>1. PICK f : IsRun(f, q, v, TRUE) /\ f[Len(q)] = w
  BY DEF Leads
<1> DEFINE g == [n \in 0..K |-> IF n < i THEN f[n] ELSE f[n + 1]]
<1>2. /\ K \in Nat /\ Len(q) = K + 1 /\ Len(t) = K /\ i \in 1..(K + 1)
      /\ \A n \in 1..K : t[n] = q[Skip(i, n)]
  <2>1. /\ t \in Seq(Message) /\ Len(t) = Len(q) - 1
        /\ \A n \in 1..(Len(q) - 1) : t[n] = q[Skip(i, n)]
    BY RemoveAtElements
  <2> HIDE DEF t
  <2> QED BY <2>1
<1>3. /\ f \in [0..(K + 1) -> Views] /\ f[0] = v /\ f[K + 1] = w
      /\ \A n \in 1..(K + 1) : f[n] = Effect(f[n - 1], q[n], TRUE)
  BY <1>1, <1>2 DEF IsRun
<1>4. f[i] = f[i - 1]
  BY <1>2, <1>3 DEF Effect
<1> HIDE DEF K, t
<1>5. g \in [0..K -> Views]
  BY <1>2, <1>3
<1>6. \A n \in 0..K : g[n] = (IF n < i THEN f[n] ELSE f[n + 1])
  OBVIOUS
<1> HIDE DEF g
<1>7. g[0] = v /\ g[K] = w
  <2>1. 0 < i
    BY <1>2
  <2>2. K < i => i = K + 1 /\ i - 1 = K
    BY <1>2
  <2> QED BY <1>2, <1>3, <1>4, <1>6, <2>1, <2>2
<1>8. ASSUME NEW n \in 1..K PROVE g[n] = Effect(g[n - 1], t[n], TRUE)
  <2>1. n \in 0..K /\ n - 1 \in 0..K /\ (n - 1) + 1 = n
    BY <1>2
  <2>2. CASE n < i
    <3>1. n - 1 < i /\ n \in 1..(K + 1) /\ Skip(i, n) = n
      BY <1>2, <2>2 DEF Skip
    <3> QED BY <1>2, <1>3, <1>6, <2>1, <2>2, <3>1
  <2>3. CASE ~(n < i)
    <3>1. /\ n + 1 \in 1..(K + 1) /\ (n + 1) - 1 = n /\ Skip(i, n) = n + 1
          /\ (n - 1 < i => n = i)
      BY <1>2, <2>3 DEF Skip
    <3>2. g[n - 1] = f[n]
      BY <1>4, <1>6, <2>1, <3>1
    <3>3. g[n] = f[n + 1] /\ t[n] = q[n + 1]
      BY <1>2, <1>6, <2>1, <2>3, <3>1
    <3>4. f[n + 1] = Effect(f[n], q[n + 1], TRUE)
      BY <1>3, <3>1
    <3> QED BY <3>2, <3>3, <3>4
  <2> QED BY <2>2, <2>3
<1> QED BY <1>2, <1>5, <1>7, <1>8 DEF Leads, IsRun, t

\* Without a reply on its way, none is lost.
NoReply(q) == \A i \in 1..Len(q) : q[i].kind # "items"

LEMMA LeadsEither ==
  ASSUME NEW q, NoReply(q), NEW v, NEW w, NEW a, NEW b, Leads(q, v, w, a)
  PROVE  Leads(q, v, w, b)
<1>1. PICK f : IsRun(f, q, v, a) /\ f[Len(q)] = w
  BY DEF Leads
<1>2. IsRun(f, q, v, b)
  BY <1>1 DEF IsRun, Effect, NoReply
<1> QED BY <1>1, <1>2 DEF Leads

-----------------------------------------------------------------------------
(* What the loops of add_pending_items find *)

\* The elements of a list, and of lists made from others.
LEMMA JoinedHas ==
  ASSUME NEW S, NEW s \in Seq(S), NEW t \in Seq(S), NEW x
  PROVE  Contains(s \o t, x) <=> Contains(s, x) \/ Contains(t, x)
<1> DEFINE u == s \o t
<1>1. /\ Len(u) = Len(s) + Len(t) /\ Len(s) \in Nat /\ Len(t) \in Nat
      /\ \A i \in 1..Len(s) : u[i] = s[i]
      /\ \A i \in 1..Len(t) : u[Len(s) + i] = t[i]
  OBVIOUS
<1> HIDE DEF u
<1>2. ASSUME Contains(u, x) PROVE Contains(s, x) \/ Contains(t, x)
  <2>1. PICK i \in 1..Len(u) : u[i] = x
    BY <1>2 DEF Contains
  <2>2. CASE i <= Len(s)
    BY <1>1, <2>1, <2>2 DEF Contains
  <2>3. CASE ~(i <= Len(s))
    <3>1. i - Len(s) \in 1..Len(t) /\ i = Len(s) + (i - Len(s))
      BY <1>1, <2>3
    <3>2. u[Len(s) + (i - Len(s))] = t[i - Len(s)]
      BY <1>1, <3>1
    <3> QED BY <2>1, <3>1, <3>2 DEF Contains
  <2> QED BY <2>2, <2>3
<1>3. ASSUME Contains(s, x) PROVE Contains(u, x)
  <2>1. PICK i \in 1..Len(s) : s[i] = x
    BY <1>3 DEF Contains
  <2> QED BY <1>1, <2>1 DEF Contains
<1>4. ASSUME Contains(t, x) PROVE Contains(u, x)
  <2>1. PICK i \in 1..Len(t) : t[i] = x
    BY <1>4 DEF Contains
  <2>2. Len(s) + i \in 1..Len(u)
    BY <1>1
  <2> QED BY <1>1, <2>1, <2>2 DEF Contains
<1> QED BY <1>2, <1>3, <1>4 DEF u

LEMMA OneHas ==
  ASSUME NEW e, NEW x
  PROVE  Contains(<<e>>, x) <=> x = e
BY DEF Contains

\* Nothing gets lost between them: what was queued, and each child of a new object, is
\* new, known or left.
CaughtIn(t, x) == x \in known \/ Contains(t.new, x) \/ Contains(t.left, x)
Stage(t) ==
  /\ \A x : Contains(queue, x) => CaughtIn(t, x)
  /\ \A x : Contains(t.new, x) => x \in Object \ known
  /\ \A x \in Object : Contains(t.new, x) => \A c : Contains(kids[x], c) => CaughtIn(t, c)

LEMMA TurnCatches ==
  ASSUME TypeOK, NEW t \in Turning, Stage(t)
  PROVE  Stage(Turn(t))
<1>1. t.new \in Seq(Object) /\ t.left \in Seq(Object)
  BY DEF Turning
<1>2. CASE t.left = <<>>
  BY <1>2 DEF Turn
<1>3. CASE t.left # <<>>
  <2> DEFINE o == Head(t.left)
             more == IF o \in known THEN <<>> ELSE kids[o]
             new == IF o \in known \/ Contains(t.new, o) THEN t.new ELSE Append(t.new, o)
             left == Tail(t.left) \o more
  <2>1. /\ o \in Object /\ Tail(t.left) \in Seq(Object) /\ <<o>> \in Seq(Object)
        /\ t.left = <<o>> \o Tail(t.left) /\ Append(t.new, o) = t.new \o <<o>>
    BY <1>1, <1>3, SMTT(40)
  <2>2. more \in Seq(Object)
    BY <2>1 DEF TypeOK
  <2>3. Turn(t) = [new |-> new, left |-> left]
    BY <1>3 DEF Turn
  <2>4. \A x : Contains(t.left, x) <=> x = o \/ Contains(Tail(t.left), x)
    <3> HIDE DEF o
    <3>1. \A x : Contains(<<o>> \o Tail(t.left), x) <=>
                 Contains(<<o>>, x) \/ Contains(Tail(t.left), x)
      BY <2>1, JoinedHas
    <3>2. \A x : Contains(<<o>>, x) <=> x = o
      BY OneHas
    <3>3. t.left = <<o>> \o Tail(t.left)
      BY <2>1
    <3>4. \A x : Contains(t.left, x) <=> Contains(<<o>> \o Tail(t.left), x)
      BY ONLY <3>3
    <3> QED BY ONLY <3>1, <3>2, <3>4, Zenon
  <2>5. \A x : Contains(new, x) <=> Contains(t.new, x) \/ (x = o /\ o \notin known)
    <3>1. \A x : Contains(t.new \o <<o>>, x) <=> Contains(t.new, x) \/ x = o
      <4> HIDE DEF o
      <4> QED BY <1>1, <2>1, JoinedHas, OneHas
    <3> QED BY <2>1, <3>1
  <2>6. \A x : Contains(left, x) <=> Contains(Tail(t.left), x) \/ Contains(more, x)
    <3> HIDE DEF o, more
    <3> QED BY <2>1, <2>2, JoinedHas
  <2>7. o \notin known => \A x : Contains(more, x) <=> Contains(kids[o], x)
    OBVIOUS
  <2> HIDE DEF o, more, new, left
  <2>8. Turn(t).new = new /\ Turn(t).left = left
    BY <2>3
  <2>9. \A x : CaughtIn(t, x) => CaughtIn(Turn(t), x)
    BY <2>4, <2>5, <2>6, <2>8 DEF CaughtIn
  <2>10. \A x : Contains(kids[o], x) => o \in known \/ CaughtIn(Turn(t), x)
    BY <2>6, <2>7, <2>8 DEF CaughtIn
  <2>11. \A x : Contains(queue, x) => CaughtIn(Turn(t), x)
    BY <2>9 DEF Stage
  <2>12. \A x : Contains(new, x) => x \in Object \ known
    BY <2>1, <2>5 DEF Stage
  <2>13. ASSUME NEW x \in Object, Contains(new, x), NEW c, Contains(kids[x], c)
         PROVE  CaughtIn(Turn(t), c)
    <3>1. CASE Contains(t.new, x)
      BY <2>9, <2>13, <3>1 DEF Stage
    <3>2. CASE x = o /\ o \notin known
      BY <2>10, <2>13, <3>2
    <3> QED BY <2>5, <2>13, <3>1, <3>2
  <2> QED BY <2>8, <2>11, <2>12, <2>13 DEF Stage
<1> QED BY <1>2, <1>3

\* At their end the queue is known or new, and so are the children of new objects.
LEMMA NewObjectsCatch ==
  ASSUME TypeOK, Turns[MaxTurns].left = <<>>
  PROVE  /\ \A x : Contains(queue, x) => x \in known \/ Contains(NewObjects, x)
         /\ \A x : Contains(NewObjects, x) => x \in Object \ known
         /\ \A x \in Object : Contains(NewObjects, x) =>
              \A c : Contains(kids[x], c) => c \in known \/ Contains(NewObjects, c)
<1> DEFINE K == MaxTurns
           P == {n \in 0..K : Stage(Turns[n])}
<1>1. /\ K \in Nat /\ Turns[0] = [new |-> <<>>, left |-> queue]
      /\ \A n \in 1..K : Turns[n] = Turn(Turns[n - 1])
      /\ \A n \in 0..K : Turns[n] \in Turning
  BY TurnsType DEF TurnsAre
<1> HIDE DEF K
<1>2. 0 \in P
  <2>1. Turns[0].new = <<>> /\ Turns[0].left = queue
    BY <1>1
  <2>2. \A x : ~Contains(<<>>, x)
    BY DEF Contains
  <2>3. Stage(Turns[0])
    BY <2>1, <2>2 DEF Stage, CaughtIn
  <2> QED BY <1>1, <2>3
<1>3. ASSUME NEW n \in 1..K, n - 1 \in P PROVE n \in P
  <2>1. n - 1 \in 0..K /\ n \in 0..K
    BY <1>1
  <2>2. Turns[n - 1] \in Turning /\ Stage(Turns[n - 1]) /\ Turns[n] = Turn(Turns[n - 1])
    BY <1>1, <1>3, <2>1
  <2>3. Stage(Turn(Turns[n - 1]))
    BY <2>2, TurnCatches
  <2> QED BY <2>1, <2>2, <2>3
<1>4. Stage(Turns[K])
  <2> HIDE DEF P
  <2>1. 0..K \subseteq P
    BY <1>1, <1>2, <1>3, UpTo
  <2> QED BY <1>1, <2>1 DEF P
<1>5. \A x : ~Contains(Turns[K].left, x)
  BY DEF Contains, K
<1> QED BY <1>4, <1>5 DEF Stage, CaughtIn, NewObjects, K

-----------------------------------------------------------------------------
(* Lists in use stay right with the signal of the change *)

\* The tree has the children s for p.
KidsAre(ks, p, s) == \A x \in Object : ks[x] = IF x = p THEN s ELSE kids[x]

\* The lists in use stay right if that of p becomes s with them.
LEMMA ListSetRight ==
  ASSUME NEW v \in Views, NEW p \in Object, NEW s \in Seq(Entry), NEW ks, KidsAre(ks, p, s),
         NEW D, Right(v, kids, dead, D)
  PROVE  Right(SetKids(v, p, s), ks, dead, D)
<1>1. ListIs(v, SetKids(v, p, s), p, s, v[p].flag)
  BY KidsSetIs
<1> QED BY <1>1 DEF ListIs, KidsAre, Right

LEMMA UnusedRight ==
  ASSUME NEW v \in Views, NEW p \in Object, NEW s, NEW ks, KidsAre(ks, p, s),
         ~v[p].flag, NEW D, Right(v, kids, dead, D)
  PROVE  Right(v, ks, dead, D)
BY DEF KidsAre, Right

\* A list without the element has it not removed.
LEMMA NothingRemoved ==
  ASSUME NEW S, NEW s \in Seq(S), NEW x, ~Contains(s, x)
  PROVE  RemoveFirst(s, x) = s
BY RemoveFirstIs DEF Contains

LEMMA ParentRight ==
  ASSUME NEW v \in Views, NEW m, m.obj \in Object, m.parent \in Object,
         NEW D, Right(v, kids, dead, D)
  PROVE  WithParent(v, m) \in Views /\ Right(WithParent(v, m), kids, dead, D)
<1>1. WithParent(v, m) = SetParent(v, m.obj, m.parent)
  BY DEF WithParent, SetParent
<1>2. SameLists(v, SetParent(v, m.obj, m.parent))
  BY ParentSetSame
<1> QED BY <1>1, <1>2 DEF SameLists, Right

LEMMA AddedRight ==
  ASSUME TypeOK, NEW v \in Views, NEW m, NEW p \in Object \ dead, NEW o \in Object,
         m.src = p, m.child = o, m.index \in 0..Len(kids[p]),
         ~Contains(kids[p], o), NEW ks, KidsAre(ks, p, InsertAt(kids[p], m.index + 1, o)),
         NEW D, Right(v, kids, dead, D)
  PROVE  Right(WithAdded(v, m), ks, dead, D)
<1> DEFINE s == kids[p]
           more == InsertAt(s, m.index + 1, o)
<1>1. s \in Seq(Object) /\ s \in Seq(Entry) /\ o \in Entry
  BY DEF TypeOK, Entry
<1>2. m.index + 1 \in 1..(Len(s) + 1) /\ ~(m.index > Len(s))
  BY <1>1
<1>3. more \in Seq(Entry)
  <2> HIDE DEF s
  <2> QED BY <1>1, <1>2, InsertAtPlaces
<1>4. CASE ~v[p].flag
  <2>1. WithAdded(v, m) = v
    BY <1>4 DEF WithAdded
  <2> QED BY <1>4, <2>1, UnusedRight
<1>5. CASE v[p].flag
  <2>1. v[p].kids = s
    BY <1>5 DEF Right
  <2>2. RemoveFirst(v[p].kids, o) = s
    <3> HIDE DEF s
    <3>1. ~Contains(s, o)
      BY DEF s
    <3> QED BY <1>1, <2>1, <3>1, NothingRemoved
  <2>3. WithAdded(v, m) = SetKids(v, p, more)
    <3> HIDE DEF s
    <3> QED BY <1>2, <1>5, <2>2 DEF WithAdded, SetKids
  <2>4. Right(SetKids(v, p, more), ks, dead, D)
    <3>1. KidsAre(ks, p, more)
      BY DEF more, s
    <3> HIDE DEF more
    <3> QED BY <1>3, <3>1, ListSetRight
  <2> QED BY <2>3, <2>4
<1> QED BY <1>4, <1>5

LEMMA RemovedRight ==
  ASSUME TypeOK, NEW v \in Views, NEW m, NEW p \in Object \ dead, NEW o \in Object,
         m.src = p, m.child = o, NEW ks, KidsAre(ks, p, RemoveFirst(kids[p], o)),
         NEW D, Right(v, kids, dead, D)
  PROVE  Right(WithRemoved(v, m), ks, dead, D)
<1> DEFINE s == kids[p]
           less == RemoveFirst(s, o)
<1>1. s \in Seq(Entry)
  BY DEF TypeOK, Entry
<1>2. less \in Seq(Entry)
  <2> HIDE DEF s
  <2> QED BY <1>1, RemoveFirstElements
<1>3. CASE ~v[p].flag
  <2>1. WithRemoved(v, m) = v
    BY <1>3 DEF WithRemoved
  <2> QED BY <1>3, <2>1, UnusedRight
<1>4. CASE v[p].flag
  <2>1. v[p].kids = s
    BY <1>4 DEF Right
  <2>2. WithRemoved(v, m) = SetKids(v, p, RemoveFirst(v[p].kids, o))
    BY <1>4 DEF WithRemoved, SetKids
  <2>3. Right(SetKids(v, p, less), ks, dead, D)
    <3>1. KidsAre(ks, p, less)
      BY DEF less, s
    <3> HIDE DEF less
    <3> QED BY <1>2, <3>1, ListSetRight
  <2> QED BY <2>1, <2>2, <2>3
<1> QED BY <1>3, <1>4

\* No list in use has the object that is gone.
LEMMA GoneRight ==
  ASSUME TypeOK, NEW v \in Views, NEW o \in Object, \A x \in Object : ~Contains(kids[x], o),
         NEW ks, \A x \in Object \ {o} : ks[x] = kids[x],
         NEW D, Right(v, kids, dead, D)
  PROVE  Right(Disposed(v, o), ks, dead \cup {o}, D \ {o})
<1>0. ASSUME NEW x \in Object, x # o PROVE Disposed(v, o)[x].flag = v[x].flag
  <2>1. v[x] \in View
    BY SMTT(40) DEF Views
  <2>2. PICK a, b : Disposed(v, o)[x] = [v[x] EXCEPT !.kids = a, !.parent = b]
    BY <1>0 DEF Disposed
  <2> QED BY <2>1, <2>2 DEF View
<1>00. \A x \in Object : x \in D \ {o} => Disposed(v, o)[x].flag
  BY <1>0 DEF Right
<1> SUFFICES ASSUME NEW x \in Object \ (dead \cup {o}), Disposed(v, o)[x].flag
             PROVE  Disposed(v, o)[x].kids = kids[x]
  BY <1>00 DEF Right
<1> DEFINE w == Disposed(v, o)
           s == kids[x]
           left == IF x = v[o].parent THEN RemoveFirst(v[x].kids, o) ELSE v[x].kids
           gone == [i \in DOMAIN left |-> IF left[i] = o THEN Gone ELSE left[i]]
           above == IF v[x].parent # o THEN v[x].parent
                    ELSE IF Contains(v[o].kids, x) THEN None ELSE Gone
<1>1. v[x] \in View /\ x # o /\ x \in Object
  BY DEF Views
<1>2. w[x] = [v[x] EXCEPT !.kids = gone, !.parent = above]
  BY <1>1 DEF Disposed
<1> HIDE DEF gone, above
<1>3. w[x].kids = gone /\ w[x].flag = v[x].flag
  <2> HIDE DEF w
  <2> QED BY <1>1, <1>2 DEF View
<1>4. v[x].kids = s
  BY <1>3 DEF Right
<1>5. s \in Seq(Object) /\ ~Contains(s, o)
  BY DEF TypeOK
<1>6. left = s
  <2> HIDE DEF s
  <2> QED BY <1>4, <1>5, NothingRemoved
<1>7. gone = s
  <2> HIDE DEF left, s
  <2>1. gone = [i \in DOMAIN s |-> IF s[i] = o THEN Gone ELSE s[i]]
    BY <1>6 DEF gone
  <2>2. \A i \in DOMAIN s : s[i] # o
    BY <1>5 DEF Contains
  <2>3. gone = [i \in DOMAIN s |-> s[i]]
    BY <2>1, <2>2
  <2> QED BY <1>5, <2>3
<1> QED BY <1>3, <1>7

\* The answer about a child is what the list has.
LEMMA ChildRight ==
  ASSUME TypeOK, NEW v \in Views, NEW m, NEW p \in Object \ dead, m.src = p,
         m.index \in 0..(Len(kids[p]) - 1), m.child = kids[p][m.index + 1],
         NEW D, Right(v, kids, dead, D)
  PROVE  Right(WithChild(v, m), kids, dead, D)
<1> DEFINE s == kids[p]
<1>1. s \in Seq(Entry) /\ Hole \in Entry
  BY DEF TypeOK, Entry
<1>2. CASE ~v[p].flag
  BY <1>2 DEF WithChild
<1>3. CASE v[p].flag
  <2>1. v[p].kids = s
    BY <1>3 DEF Right
  <2>2. m.index \in Nat /\ m.index < Len(s) /\ m.child = s[m.index + 1]
    BY <1>1
  <2> HIDE DEF s
  <2>3. Placed(v[p].kids, m.index, m.child) = s
    BY <1>1, <2>1, <2>2, PlacedSame
  <2>4. WithChild(v, m) = SetKids(v, p, s)
    BY <1>3, <2>3 DEF WithChild, SetKids
  <2>5. KidsAre(kids, p, s)
    BY DEF KidsAre, s
  <2> QED BY <1>1, <2>4, <2>5, ListSetRight
<1> QED BY <1>2, <1>3

-----------------------------------------------------------------------------
(* The lists in use, once what is on its way is handled *)

\* Handling the messages q makes the lists in use those of the tree ks.
GetsRight(q, v, lost, ks, d, D) == \E w \in Views : Leads(q, v, w, lost) /\ Right(w, ks, d, D)

LEMMA NoneGetsRight ==
  ASSUME NEW v \in Views, NEW lost, NEW ks, NEW d, NEW D, Right(v, ks, d, D)
  PROVE  GetsRight(<<>>, v, lost, ks, d, D)
<1>1. Leads(<<>>, v, v, lost)
  BY LeadsNowhere
<1> QED BY <1>1 DEF GetsRight

LEMMA OneGetsRight ==
  ASSUME NEW v \in Views, NEW m \in Message, NEW lost, NEW ks, NEW d,
         NEW D, Right(Effect(v, m, lost), ks, d, D)
  PROVE  GetsRight(<<m>>, v, lost, ks, d, D)
<1>1. Leads(<<m>>, v, Effect(v, m, lost), lost) /\ Effect(v, m, lost) \in Views
  BY LeadsOne, EffectType
<1> QED BY <1>1 DEF GetsRight

\* Less may be asked of the lists.
LEMMA LessIsDue ==
  ASSUME NEW q, NEW v, NEW lost, NEW ks, NEW d, NEW D, NEW E, E \subseteq D,
         GetsRight(q, v, lost, ks, d, D)
  PROVE  GetsRight(q, v, lost, ks, d, E)
<1>1. PICK w \in Views : Leads(q, v, w, lost) /\ Right(w, ks, d, D)
  BY DEF GetsRight
<1>2. Right(w, ks, d, E)
  BY <1>1 DEF Right
<1> QED BY <1>1, <1>2 DEF GetsRight

\* Items of objects that have each child of theirs among them.
LEMMA ItemsRight ==
  ASSUME TreeOK, NEW v \in Views, NEW D, Right(v, kids, dead, D), NEW s \in Seq(Object),
         \A x \in Object : Contains(s, x) => \A c : Contains(kids[x], c) => Contains(s, c),
         NEW items \in Seq(ObjectItem), Len(items) = Len(s),
         \A k \in 1..Len(s) : items[k] = Item(s[k]),
         NEW f, IsPath(f, v, items)
  PROVE  f[Len(s)] \in Views /\ Right(f[Len(s)], kids, dead, D \cup First(s, Len(s)))
<1> DEFINE C == First(s, Len(s))
           w == f[Len(s)]
<1>1. Catches(v, w, C) /\ w \in Views
  BY ItemsCatch
<1>2. \A x : x \in C <=> Contains(s, x)
  BY DEF First, Contains
<1> HIDE DEF C, w
<1>3. \A o \in C \cap Object : \A c : Contains(kids[o], c) => c \in C
  BY <1>2
<1>4. Right(w, kids, dead, D \cup C)
  BY <1>1, <1>3, CaughtIsRight
<1> QED BY <1>1, <1>4 DEF w, C

\* Announced one by one.
LEMMA AnnouncedRight ==
  ASSUME TreeOK, NEW v \in Views, NEW D, Right(v, kids, dead, D), NEW s \in Seq(Object),
         \A x \in Object : Contains(s, x) => \A c : Contains(kids[x], c) => Contains(s, c),
         NEW ms \in Seq(Message), Len(ms) = Len(s),
         \A k \in 1..Len(s) : ms[k].kind = "item" /\ ms[k].item = Item(s[k]),
         NEW lost
  PROVE  GetsRight(ms, v, lost, kids, dead, D \cup First(s, Len(s)))
<1> DEFINE items == [k \in 1..Len(s) |-> Item(s[k])]
<1>1. \A k \in 1..Len(s) : Item(s[k]) \in ObjectItem
  BY ItemTells DEF TreeOK
<1>2. /\ items \in Seq(ObjectItem) /\ Len(items) = Len(s)
      /\ \A k \in 1..Len(s) : items[k] = Item(s[k])
  BY <1>1
<1> HIDE DEF items
<1>3. PICK f : IsPath(f, v, items)
  <2>1. HasPath(v, items)
    BY <1>2, ItemsPath
  <2> QED BY <2>1 DEF HasPath
<1>4. f[Len(s)] \in Views /\ Right(f[Len(s)], kids, dead, D \cup First(s, Len(s)))
  BY <1>2, <1>3, ItemsRight
<1>5. IsRun(f, ms, v, lost)
  <2>1. /\ f \in [0..Len(ms) -> Views] /\ f[0] = v
        /\ \A n \in 1..Len(ms) : f[n] = WithItem(f[n - 1], items[n])
    BY <1>2, <1>3 DEF IsPath
  <2>2. ASSUME NEW n \in 1..Len(ms) PROVE f[n] = Effect(f[n - 1], ms[n], lost)
    <3>1. ms[n].kind = "item" /\ ms[n].item = items[n]
      BY <1>2
    <3>2. Effect(f[n - 1], ms[n], lost) = WithItem(f[n - 1], ms[n].item)
      BY <3>1 DEF Effect, Handled
    <3> QED BY <2>1, <3>1, <3>2
  <2> QED BY <2>1, <2>2 DEF IsRun
<1> QED BY <1>4, <1>5 DEF GetsRight, Leads

\* Together in a reply, which may be lost: then no more lists are in use.
InUse(D, s, lost) == IF lost THEN D ELSE D \cup First(s, Len(s))

LEMMA RepliedRight ==
  ASSUME TreeOK, NEW v \in Views, NEW D, Right(v, kids, dead, D), NEW s \in Seq(Object),
         \A x \in Object : Contains(s, x) => \A c : Contains(kids[x], c) => Contains(s, c),
         NEW m \in Message, m.kind = "items", m.items \in Seq(ObjectItem),
         Len(m.items) = Len(s), \A k \in 1..Len(s) : m.items[k] = Item(s[k]),
         NEW lost \in BOOLEAN
  PROVE  GetsRight(<<m>>, v, lost, kids, dead, InUse(D, s, lost))
<1> DEFINE items == m.items
<1>1. PICK f : IsPath(f, v, items) /\ WithItems(v, items) = f[Len(s)]
  <2>1. HasPath(v, items)
    BY ItemsPath
  <2> QED BY <2>1 DEF HasPath
<1>2. f[Len(s)] \in Views /\ Right(f[Len(s)], kids, dead, D \cup First(s, Len(s)))
  BY <1>1, ItemsRight
<1>3. Effect(v, m, lost) = IF lost THEN v ELSE WithItems(v, items)
  BY DEF Effect, Handled
<1>4. Right(Effect(v, m, lost), kids, dead, InUse(D, s, lost))
  BY <1>1, <1>2, <1>3 DEF InUse
<1> QED BY <1>4, OneGetsRight

-----------------------------------------------------------------------------
(* The invariant *)

\* At most one reply to GetItems is on its way, and none before the call is made.
OneReply ==
  /\ \A i, j \in 1..Len(wire) : wire[i].kind = "items" /\ wire[j].kind = "items" => i = j
  /\ ~filled => NoReply(wire)

\* The bridge's cache has the parents of what it has, and the children, unless they are
\* queued for it.
AboveIsKnown == \A o \in known : Parent(o) \in known \cup {None}
BelowIsKnown ==
  \A p \in known : \A c : Contains(kids[p], c) => c \in known \/ Contains(queue, c)

\* Once all that is on its way is handled the lists in use are those of the tree, whether
\* a reply to GetItems is lost or not; if none was, all that is known has its list in use.
Due(lost) == IF filled /\ ~lost THEN known ELSE {}
WillBeRight == \A lost \in BOOLEAN : GetsRight(wire, view, lost, kids, dead, Due(lost))

ListsInv == raced = {} => AboveIsKnown /\ BelowIsKnown /\ WillBeRight
ViewInv == CacheInv /\ NoneTwice /\ OneReply /\ ListsInv

\* More is sent.
LEMMA SendKeepsRight ==
  ASSUME TypeOK, WillBeRight, NEW ms \in Seq(Message), wire' = wire \o ms, view' = view,
         \A lost \in BOOLEAN : \A w \in Views :
           Right(w, kids, dead, Due(lost)) => GetsRight(ms, w, lost, kids', dead', Due(lost)')
  PROVE  WillBeRight'
<1> SUFFICES ASSUME NEW lost \in BOOLEAN PROVE GetsRight(wire', view', lost, kids', dead', Due(lost)')
  BY DEF WillBeRight
<1>1. PICK w \in Views : Leads(wire, view, w, lost) /\ Right(w, kids, dead, Due(lost))
  BY DEF WillBeRight, GetsRight
<1>2. PICK x \in Views : Leads(ms, w, x, lost) /\ Right(x, kids', dead', Due(lost)')
  BY <1>1 DEF GetsRight
<1>3. wire \in Seq(Message)
  BY DEF TypeOK
<1>4. Leads(wire \o ms, view, x, lost)
  BY <1>1, <1>2, <1>3, LeadsOn
<1> QED BY <1>2, <1>4 DEF GetsRight

LEMMA SendKeepsReply ==
  ASSUME TypeOK, OneReply, NEW ms \in Seq(Message), wire' = wire \o ms, NoReply(ms),
         filled' = filled
  PROVE  OneReply'
<1>1. wire \in Seq(Message)
  BY DEF TypeOK
<1>2. /\ Len(wire') = Len(wire) + Len(ms)
      /\ \A i \in 1..Len(wire) : wire'[i] = wire[i]
      /\ \A i \in 1..(Len(wire) + Len(ms)) :
           i \in 1..Len(wire) \/ (i - Len(wire) \in 1..Len(ms)
                                  /\ wire'[i] = ms[i - Len(wire)])
  BY <1>1, SentAfter
<1>3. \A i \in 1..Len(wire') : wire'[i].kind = "items" =>
        i \in 1..Len(wire) /\ wire[i].kind = "items"
  BY <1>2 DEF NoReply
<1> QED BY <1>3 DEF OneReply, NoReply

\* The call of GetItems is answered or fails.
LEMMA ReplyTaken ==
  ASSUME TypeOK, OneReply, NEW i \in 1..Len(wire), wire[i].kind = "items"
  PROVE  NoReply(RemoveAt(wire, i))
<1>1. wire \in Seq(Message)
  BY DEF TypeOK
<1>2. /\ Len(RemoveAt(wire, i)) = Len(wire) - 1
      /\ \A k \in 1..(Len(wire) - 1) : RemoveAt(wire, i)[k] = wire[Skip(i, k)]
  BY <1>1, RemoveAtElements
<1>3. \A k \in 1..(Len(wire) - 1) : Skip(i, k) \in 1..Len(wire) /\ Skip(i, k) # i
  BY <1>1 DEF Skip
<1> QED BY <1>2, <1>3 DEF NoReply, OneReply

LEMMA TakenKeepsReply ==
  ASSUME TypeOK, OneReply, NEW i \in 1..Len(wire), wire' = RemoveAt(wire, i), filled' = filled
  PROVE  OneReply'
<1>1. wire \in Seq(Message)
  BY DEF TypeOK
<1>2. /\ Len(wire') = Len(wire) - 1
      /\ \A k \in 1..(Len(wire) - 1) : wire'[k] = wire[Skip(i, k)]
  BY <1>1, RemoveAtElements
<1>3. \A k \in 1..(Len(wire) - 1) : Skip(i, k) \in 1..Len(wire)
  BY <1>1 DEF Skip
<1>4. \A j, k \in 1..(Len(wire) - 1) : Skip(i, j) = Skip(i, k) => j = k
  BY <1>1 DEF Skip
<1> QED BY <1>2, <1>3, <1>4 DEF OneReply, NoReply

\* The tree of a well formed state.
LEMMA ViewInvTree == ViewInv => TreeOK
BY DEF ViewInv, CacheInv, TreeIsWell, TreeOK

-----------------------------------------------------------------------------
(* The steps *)

\* With no race so far.
LEMMA RacedNot ==
  ASSUME NEW happens \in BOOLEAN, NEW which, Race(happens, which), raced' = {}
  PROVE  raced = {} /\ ~happens
BY DEF Race

LEMMA ViewInit == Init => ViewInv
<1> SUFFICES ASSUME Init PROVE ViewInv
  OBVIOUS
<1>0. PICK S \in SUBSET (Object \ {Root}) : \E s \in SetToSeqs(S) :
        /\ kids = [[o \in Object |-> <<>>] EXCEPT ![Root] = s]
        /\ known = {Root} \cup S
  BY DEF Init
<1>1. PICK s \in SetToSeqs(S) :
        /\ kids = [[o \in Object |-> <<>>] EXCEPT ![Root] = s]
        /\ known = {Root} \cup S
  BY <1>0
<1>2. /\ dead = {} /\ queue = <<>> /\ wire = <<>> /\ filled = FALSE
      /\ view = [o \in Object |-> Fresh]
  BY DEF Init
<1>3. CacheInv
  BY InitOK
<1>4. /\ s \in [1..Cardinality(S) -> S]
      /\ \A i, j \in 1..Cardinality(S) : i # j => s[i] # s[j]
  BY DEF SetToSeqs
<1>5. Cardinality(S) \in Nat
  BY ObjectAssumption, FS_Subset, FS_CardinalityType
<1>6. Len(s) = Cardinality(S)
  BY <1>4, <1>5
<1>7. \A p \in Object : kids[p] = IF p = Root THEN s ELSE <<>>
  BY <1>1, ObjectAssumption
<1>8. NoneTwice
  <2>1. NoneTwiceIn(s) /\ NoneTwiceIn(<<>>)
    BY <1>4, <1>6 DEF NoneTwiceIn
  <2> QED BY <1>7, <2>1 DEF NoneTwice
<1>9. \A p \in Object : \A c : Contains(kids[p], c) => p = Root /\ c \in S
  <2>1. \A c : ~Contains(<<>>, c)
    BY DEF Contains
  <2>2. \A c : Contains(s, c) => c \in S
    BY <1>4, <1>6 DEF Contains
  <2> QED BY <1>7, <2>1, <2>2
<1>10. AboveIsKnown
  BY <1>1, <1>9, ParentFound DEF AboveIsKnown
<1>11. BelowIsKnown
  <2>1. known \subseteq Object
    BY <1>3 DEF CacheInv, TypeOK
  <2> QED BY <1>1, <1>9, <2>1 DEF BelowIsKnown
<1>12. WillBeRight
  <2>1. view \in Views
    BY <1>3 DEF CacheInv, TypeOK
  <2>2. \A o \in Object : ~view[o].flag
    BY <1>2 DEF Fresh
  <2>3. Right(view, kids, dead, {})
    BY <2>2 DEF Right
  <2>4. \A lost : Due(lost) = {}
    BY <1>2 DEF Due
  <2>5. \A lost : GetsRight(<<>>, view, lost, kids, dead, {})
    BY <2>1, <2>3, NoneGetsRight
  <2> QED BY <1>2, <2>4, <2>5 DEF WillBeRight
<1>13. OneReply
  BY <1>2 DEF OneReply, NoReply
<1> QED BY <1>3, <1>8, <1>10, <1>11, <1>12, <1>13 DEF ViewInv, ListsInv

\* The new objects are announced with each child of theirs.
LEMMA AnnounceView == ViewInv /\ Announce => OneReply' /\ NoneTwice' /\ ListsInv'
<1> SUFFICES ASSUME ViewInv, Announce PROVE OneReply' /\ NoneTwice' /\ ListsInv'
  OBVIOUS
<1> DEFINE new == NewObjects
           ms == [i \in DOMAIN new |-> [kind |-> "item", item |-> Item(new[i])]]
<1>1. TypeOK /\ TreeOK
  BY ViewInvTree DEF ViewInv, CacheInv
<1>2. /\ queue' = <<>> /\ known' = known \cup Range(new) /\ wire' = wire \o ms
      /\ Turns[MaxTurns].left = <<>>
      /\ Race(\E o \in Range(new) : Parent(o) \notin known' \cup {None}, "moved")
      /\ UNCHANGED <<kids, dead, filled, view>>
  BY DEF Announce, Send
<1>3. new \in Seq(Object)
  BY <1>1, NewObjectsType
<1>4. /\ \A x : Contains(queue, x) => x \in known \/ Contains(new, x)
      /\ \A x : Contains(new, x) => x \in Object \ known
      /\ \A x \in Object : Contains(new, x) =>
           \A c : Contains(kids[x], c) => c \in known \/ Contains(new, c)
  BY <1>1, <1>2, NewObjectsCatch
<1> HIDE DEF new
<1>5. \A i \in 1..Len(new) : Item(new[i]) \in ObjectItem
  BY <1>1, <1>3, ItemTells
<1>6. /\ ms \in Seq(Message) /\ Len(ms) = Len(new)
      /\ \A i \in 1..Len(new) : ms[i] = [kind |-> "item", item |-> Item(new[i])]
  BY <1>3, <1>5 DEF Message
<1> HIDE DEF ms
<1>7. \A i \in 1..Len(new) : ms[i].kind = "item" /\ ms[i].item = Item(new[i])
  <2> SUFFICES ASSUME NEW i \in 1..Len(new)
               PROVE  ms[i].kind = "item" /\ ms[i].item = Item(new[i])
    OBVIOUS
  <2> DEFINE it == Item(new[i])
  <2>1. ms[i] = [kind |-> "item", item |-> it]
    BY <1>6
  <2> HIDE DEF it
  <2>2. ms[i].kind = "item" /\ ms[i].item = it
    BY <2>1
  <2> QED BY <2>2 DEF it
<1>8. OneReply'
  <2>1. NoReply(ms)
    BY <1>6, <1>7 DEF NoReply
  <2> QED BY <1>1, <1>2, <1>6, <2>1, SendKeepsReply DEF ViewInv
<1>9. NoneTwice'
  BY <1>2 DEF ViewInv, NoneTwice
<1>10. ASSUME raced' = {} PROVE AboveIsKnown' /\ BelowIsKnown' /\ WillBeRight'
  <2>1. raced = {} /\ \A o \in Range(new) : Parent(o) \in known' \cup {None}
    BY <1>2, <1>10, RacedNot
  <2>2. AboveIsKnown /\ BelowIsKnown /\ WillBeRight
    BY <2>1 DEF ViewInv, ListsInv
  <2>3. \A x : x \in Range(new) <=> Contains(new, x)
    BY <1>3 DEF Range, Contains
  <2>4. \A o : Parent(o)' = Parent(o)
    BY <1>2 DEF Parent, Parents
  <2>5. AboveIsKnown'
    BY <1>2, <2>1, <2>2, <2>4 DEF AboveIsKnown
  <2>6. BelowIsKnown'
    BY <1>2, <1>4, <2>2, <2>3 DEF BelowIsKnown
  <2>7. ASSUME NEW x \in Object, Contains(new, x), NEW c, Contains(kids[x], c)
        PROVE  Contains(new, c)
    <3>1. x \notin known /\ (c \in known \/ Contains(new, c))
      BY <1>4, <2>7
    <3>2. ASSUME c \in known PROVE FALSE
      <4>1. c \in Object /\ Parent(c) \in known \cup {None}
        BY <1>1, <2>2, <3>2 DEF AboveIsKnown, TypeOK
      <4>2. Parent(c) \in Object /\ Contains(kids[Parent(c)], c)
        BY <2>7, ParentFound
      <4>3. Parent(c) = x
        BY <1>1, <2>7, <4>1, <4>2 DEF TreeOK, OneParent
      <4> QED BY <3>1, <4>1, <4>2, <4>3, ObjectAssumption
    <3> QED BY <3>1, <3>2
  <2>8. ASSUME NEW lost \in BOOLEAN, NEW w \in Views, Right(w, kids, dead, Due(lost))
        PROVE  GetsRight(ms, w, lost, kids', dead', Due(lost)')
    <3> DEFINE D == Due(lost)
               E == First(new, Len(new))
    <3>1. GetsRight(ms, w, lost, kids, dead, D \cup E)
      BY <1>1, <1>3, <1>6, <1>7, <2>7, <2>8, AnnouncedRight
    <3>2. Due(lost)' \subseteq D \cup E
      <4>1. \A x : x \in E <=> Contains(new, x)
        BY DEF First, Contains
      <4> HIDE DEF E
      <4> QED BY <1>2, <2>3, <4>1 DEF Due
    <3> HIDE DEF D, E
    <3>3. GetsRight(ms, w, lost, kids, dead, Due(lost)')
      BY <3>1, <3>2, LessIsDue
    <3> QED BY <1>2, <3>3
  <2>9. WillBeRight'
    BY <1>1, <1>2, <1>6, <2>2, <2>8, SendKeepsRight
  <2> QED BY <2>5, <2>6, <2>9
<1> QED BY <1>8, <1>9, <1>10 DEF ListsInv

\* A reply has all that is known; with nothing queued, its children are known.
LEMMA GetItemsView == ViewInv /\ GetItems => OneReply' /\ NoneTwice' /\ ListsInv'
<1> SUFFICES ASSUME ViewInv, GetItems PROVE OneReply' /\ NoneTwice' /\ ListsInv'
  OBVIOUS
<1>1. TypeOK /\ TreeOK
  BY ViewInvTree DEF ViewInv, CacheInv
<1>2. PICK s \in SetToSeqs(known) :
        Send(<<[kind |-> "items", items |-> [i \in DOMAIN s |-> Item(s[i])]]>>)
  BY DEF GetItems
<1> DEFINE items == [i \in DOMAIN s |-> Item(s[i])]
           m == [kind |-> "items", items |-> items]
           ms == <<m>>
<1>3. /\ wire' = wire \o ms /\ ~filled /\ filled' = TRUE /\ Race(queue # <<>>, "early")
      /\ UNCHANGED <<kids, dead, known, queue, view>>
  BY <1>2 DEF GetItems, Send, serverVars
<1>4. s \in Seq(Object) /\ (\A o \in known : \E i \in DOMAIN s : s[i] = o)
      /\ \A i \in DOMAIN s : s[i] \in known
  <2>1. s \in Seq(Object) /\ \A o \in known : \E i \in DOMAIN s : s[i] = o
    BY <1>1, ListOfAll
  <2>2. \A i \in DOMAIN s : s[i] \in known
    BY DEF SetToSeqs
  <2> QED BY <2>1, <2>2
<1>5. \A i \in 1..Len(s) : Item(s[i]) \in ObjectItem
  BY <1>1, <1>4, ItemTells
<1>6. /\ items \in Seq(ObjectItem) /\ Len(items) = Len(s)
      /\ \A i \in 1..Len(s) : items[i] = Item(s[i])
  BY <1>4, <1>5
<1> HIDE DEF items
<1>7. m \in Message /\ m.kind = "items" /\ m.items = items
  BY <1>6 DEF Message
<1> HIDE DEF m
<1>8. ms \in Seq(Message) /\ Len(ms) = 1 /\ ms[1] = m
  BY <1>7
<1>9. OneReply'
  <2> HIDE DEF ms
  <2>1. wire \in Seq(Message) /\ NoReply(wire)
    BY <1>1, <1>3 DEF ViewInv, OneReply, TypeOK
  <2>2. Len(wire') = Len(wire) + 1 /\ \A i \in 1..Len(wire) : wire'[i] = wire[i]
    BY <1>3, <1>8, <2>1, SentAfter, SMTT(40)
  <2>3. \A i \in 1..Len(wire') : wire'[i].kind = "items" => i = Len(wire) + 1
    BY <2>1, <2>2 DEF NoReply
  <2> QED BY <1>3, <2>3 DEF OneReply
<1>10. NoneTwice'
  BY <1>3 DEF ViewInv, NoneTwice
<1>11. ASSUME raced' = {} PROVE AboveIsKnown' /\ BelowIsKnown' /\ WillBeRight'
  <2>1. raced = {} /\ queue = <<>>
    BY <1>3, <1>11, RacedNot
  <2>2. AboveIsKnown /\ BelowIsKnown /\ WillBeRight
    BY <2>1 DEF ViewInv, ListsInv
  <2>3. \A o : Parent(o)' = Parent(o)
    BY <1>3 DEF Parent, Parents
  <2>4. AboveIsKnown' /\ BelowIsKnown'
    BY <1>3, <2>2, <2>3 DEF AboveIsKnown, BelowIsKnown
  <2>5. \A x : Contains(s, x) <=> x \in known
    BY <1>4 DEF Contains
  <2>6. \A x \in Object : Contains(s, x) => \A c : Contains(kids[x], c) => Contains(s, c)
    <3>1. \A c : ~Contains(queue, c)
      BY <2>1 DEF Contains
    <3> QED BY <2>2, <2>5, <3>1 DEF BelowIsKnown
  <2>7. ASSUME NEW lost \in BOOLEAN, NEW w \in Views, Right(w, kids, dead, Due(lost))
        PROVE  GetsRight(ms, w, lost, kids', dead', Due(lost)')
    <3>1. /\ m.items \in Seq(ObjectItem) /\ Len(m.items) = Len(s)
          /\ \A k \in 1..Len(s) : m.items[k] = Item(s[k])
      BY <1>6, <1>7
    <3> DEFINE D == Due(lost)
               E == InUse(D, s, lost)
    <3>2. GetsRight(<<m>>, w, lost, kids, dead, E)
      <4>1. Right(w, kids, dead, D)
        BY <2>7
      <4> HIDE DEF D
      <4> QED BY <1>1, <1>4, <1>7, <2>6, <3>1, <4>1, RepliedRight
    <3>3. Due(lost)' \subseteq E
      <4>1. \A x : x \in First(s, Len(s)) <=> Contains(s, x)
        BY DEF First, Contains
      <4>2. known \subseteq First(s, Len(s))
        BY <2>5, <4>1
      <4> QED BY <1>3, <4>2 DEF Due, InUse
    <3> HIDE DEF E
    <3>4. GetsRight(<<m>>, w, lost, kids, dead, Due(lost)')
      BY <3>2, <3>3, LessIsDue
    <3> QED BY <1>3, <3>4
  <2> HIDE DEF ms
  <2>8. WillBeRight'
    BY <1>1, <1>3, <1>8, <2>2, <2>7, SendKeepsRight
  <2> QED BY <2>4, <2>8
<1> QED BY <1>9, <1>10, <1>11 DEF ListsInv

\* The answer about a child is what a right list has.
LEMMA GetChildView ==
  ASSUME ViewInv, NEW p \in Object, NEW i \in Nat, GetChild(p, i)
  PROVE  OneReply' /\ NoneTwice' /\ ListsInv'
<1> DEFINE m == [kind |-> "child", src |-> p, index |-> i, child |-> kids[p][i + 1]]
           ms == <<m>>
<1>1. TypeOK /\ TreeOK
  BY ViewInvTree DEF ViewInv, CacheInv
<1>2. /\ wire' = wire \o ms /\ p \notin dead /\ i \in 0..(Len(kids[p]) - 1)
      /\ UNCHANGED <<kids, dead, known, queue, filled, view, raced>>
  BY DEF GetChild, Send, serverVars
<1>3. kids[p][i + 1] \in Object
  BY <1>1, <1>2 DEF TypeOK
<1>4. /\ m \in Message /\ m.kind = "child" /\ m.src = p /\ m.index = i
      /\ m.child = kids[p][i + 1]
  BY <1>3 DEF Message
<1> HIDE DEF m
<1>5. ms \in Seq(Message) /\ Len(ms) = 1 /\ ms[1] = m
  BY <1>4
<1>6. OneReply'
  <2>1. NoReply(ms)
    BY <1>4, <1>5 DEF NoReply
  <2> HIDE DEF ms
  <2> QED BY <1>1, <1>2, <1>5, <2>1, SendKeepsReply DEF ViewInv
<1>7. NoneTwice'
  BY <1>2 DEF ViewInv, NoneTwice
<1>8. ASSUME raced' = {} PROVE AboveIsKnown' /\ BelowIsKnown' /\ WillBeRight'
  <2>1. AboveIsKnown /\ BelowIsKnown /\ WillBeRight
    BY <1>2, <1>8 DEF ViewInv, ListsInv
  <2>2. \A o : Parent(o)' = Parent(o)
    BY <1>2 DEF Parent, Parents
  <2>3. AboveIsKnown' /\ BelowIsKnown'
    BY <1>2, <2>1, <2>2 DEF AboveIsKnown, BelowIsKnown
  <2>4. ASSUME NEW lost \in BOOLEAN, NEW w \in Views, Right(w, kids, dead, Due(lost))
        PROVE  GetsRight(ms, w, lost, kids', dead', Due(lost)')
    <3> DEFINE D == Due(lost)
    <3> HIDE DEF D
    <3>0. Due(lost)' = D /\ Right(w, kids, dead, D)
      BY <1>2, <2>4 DEF D, Due
    <3>1. Right(WithChild(w, m), kids, dead, D)
      BY <1>1, <1>2, <1>4, <3>0, ChildRight
    <3>2. Effect(w, m, lost) = WithChild(w, m)
      BY <1>4 DEF Effect, Handled
    <3>3. GetsRight(<<m>>, w, lost, kids, dead, D)
      BY <1>4, <3>1, <3>2, OneGetsRight
    <3> QED BY <1>2, <3>0, <3>3
  <2> HIDE DEF ms
  <2>5. WillBeRight'
    BY <1>1, <1>2, <1>5, <2>1, <2>4, SendKeepsRight
  <2> QED BY <2>3, <2>5
<1> QED BY <1>6, <1>7, <1>8 DEF ListsInv

\* The message that is handled was counted on; with a reply, the view is also right if
\* one is lost, as no other comes.
LEMMA HandleView == ViewInv /\ Handle => OneReply' /\ NoneTwice' /\ ListsInv'
<1> SUFFICES ASSUME ViewInv, Handle PROVE OneReply' /\ NoneTwice' /\ ListsInv'
  OBVIOUS
<1>1. TypeOK /\ wire \in Seq(Message) /\ view \in Views
  BY DEF ViewInv, CacheInv, TypeOK
<1>2. UNCHANGED <<kids, dead, known, queue, filled>>
  BY DEF Handle, serverVars
<1>3. PICK i \in 1..Len(wire) :
        /\ Race(i # 1, IF Outdated(i) THEN "outdated" ELSE "overtaking")
        /\ view' = Handled(view, wire[i]) /\ wire' = RemoveAt(wire, i)
  BY <1>1 DEF Handle
<1>4. OneReply'
  BY <1>1, <1>2, <1>3, TakenKeepsReply DEF ViewInv
<1>5. NoneTwice'
  BY <1>2 DEF ViewInv, NoneTwice
<1>6. ASSUME raced' = {} PROVE AboveIsKnown' /\ BelowIsKnown' /\ WillBeRight'
  <2>1. raced = {} /\ i = 1
    BY <1>3, <1>6, RacedNot
  <2>2. AboveIsKnown /\ BelowIsKnown /\ WillBeRight
    BY <2>1 DEF ViewInv, ListsInv
  <2>3. \A o : Parent(o)' = Parent(o)
    BY <1>2 DEF Parent, Parents
  <2>4. AboveIsKnown' /\ BelowIsKnown'
    BY <1>2, <2>2, <2>3 DEF AboveIsKnown, BelowIsKnown
  <2> DEFINE m == wire[1]
  <2>5. 1 \in 1..Len(wire) /\ view' = Handled(view, m) /\ wire' = RemoveAt(wire, 1)
    BY <1>3, <2>1
  <2>6. ASSUME NEW lost, NEW D, GetsRight(wire, view, lost, kids, dead, D)
        PROVE  GetsRight(wire', Effect(view, m, lost), lost, kids, dead, D)
    <3>1. PICK w \in Views : Leads(wire, view, w, lost) /\ Right(w, kids, dead, D)
      BY <2>6 DEF GetsRight
    <3>2. Leads(RemoveAt(wire, 1), Effect(view, m, lost), w, lost)
      BY <1>1, <2>5, <3>1, LeadsFirst
    <3> QED BY <2>5, <3>1, <3>2 DEF GetsRight
  <2>7. GetsRight(wire', view', FALSE, kids, dead, Due(FALSE))
    <3>1. GetsRight(wire, view, FALSE, kids, dead, Due(FALSE))
      BY <2>2, Zenon DEF WillBeRight
    <3>2. Effect(view, m, FALSE) = view'
      BY <2>5 DEF Effect
    <3>3. GetsRight(wire', Effect(view, m, FALSE), FALSE, kids, dead, Due(FALSE))
      BY <2>6, <3>1, Zenon
    <3> QED BY <3>2, <3>3
  <2>8. GetsRight(wire', view', TRUE, kids, dead, Due(TRUE))
    <3>1. CASE m.kind = "items"
      <4>1. NoReply(wire')
        BY <1>1, <2>5, <3>1, ReplyTaken DEF ViewInv
      <4>2. PICK w \in Views : Leads(wire', view', w, FALSE) /\ Right(w, kids, dead, Due(FALSE))
        BY <2>7 DEF GetsRight
      <4>4. Right(w, kids, dead, Due(TRUE))
        BY <4>2 DEF Right, Due
      <4>3. Leads(wire', view', w, TRUE)
        BY <4>1, <4>2, LeadsEither, Zenon
      <4> QED BY <4>3, <4>4 DEF GetsRight
    <3>2. CASE m.kind # "items"
      <4>1. GetsRight(wire, view, TRUE, kids, dead, Due(TRUE))
        BY <2>2, Zenon DEF WillBeRight
      <4>2. Effect(view, m, TRUE) = view'
        BY <2>5, <3>2 DEF Effect
      <4>3. GetsRight(wire', Effect(view, m, TRUE), TRUE, kids, dead, Due(TRUE))
        BY <2>6, <4>1, Zenon
      <4> QED BY <4>2, <4>3
    <3> QED BY <3>1, <3>2
  <2>9. WillBeRight'
    <3> HIDE DEF m
    <3>1. \A lost \in BOOLEAN : GetsRight(wire', view', lost, kids, dead, Due(lost))
      BY <2>7, <2>8, Zenon
    <3>2. \A lost : Due(lost)' = Due(lost)
      BY <1>2 DEF Due
    <3> QED BY <1>2, <3>1, <3>2 DEF WillBeRight
  <2> QED BY <2>4, <2>9
<1> QED BY <1>4, <1>5, <1>6 DEF ListsInv

\* That a reply may be lost was counted on.
LEMMA GetItemsFailsView == ViewInv /\ GetItemsFails => OneReply' /\ NoneTwice' /\ ListsInv'
<1> SUFFICES ASSUME ViewInv, GetItemsFails PROVE OneReply' /\ NoneTwice' /\ ListsInv'
  OBVIOUS
<1>1. TypeOK /\ wire \in Seq(Message)
  BY DEF ViewInv, CacheInv, TypeOK
<1>2. UNCHANGED <<kids, dead, known, queue, view, raced>>
  BY DEF GetItemsFails, serverVars
<1>3. PICK i \in 1..Len(wire) : wire[i].kind = "items" /\ wire' = RemoveAt(wire, i)
  BY <1>1 DEF GetItemsFails
<1>4. NoReply(wire')
  BY <1>1, <1>3, ReplyTaken DEF ViewInv
<1>5. OneReply'
  BY <1>4 DEF OneReply, NoReply
<1>6. NoneTwice'
  BY <1>2 DEF ViewInv, NoneTwice
<1>7. ASSUME raced' = {} PROVE AboveIsKnown' /\ BelowIsKnown' /\ WillBeRight'
  <2>1. AboveIsKnown /\ BelowIsKnown /\ WillBeRight
    BY <1>2, <1>7 DEF ViewInv, ListsInv
  <2>2. \A o : Parent(o)' = Parent(o)
    BY <1>2 DEF Parent, Parents
  <2>3. AboveIsKnown' /\ BelowIsKnown'
    BY <1>2, <2>1, <2>2 DEF AboveIsKnown, BelowIsKnown
  <2>4. GetsRight(wire, view, TRUE, kids, dead, Due(TRUE))
    BY <2>1, Zenon DEF WillBeRight
  <2>5. PICK w \in Views : Leads(wire, view, w, TRUE) /\ Right(w, kids, dead, {})
    BY <2>4 DEF GetsRight, Due
  <2>6. Leads(wire', view, w, TRUE)
    BY <1>1, <1>3, <2>5, LeadsWithout
  <2>7. ASSUME NEW lost \in BOOLEAN
        PROVE  GetsRight(wire', view', lost, kids', dead', Due(lost)')
    <3>1. Leads(wire', view, w, lost)
      BY <1>4, <2>6, LeadsEither, Zenon
    <3>2. Due(lost)' = {}
      BY DEF Due, GetItemsFails
    <3> QED BY <1>2, <2>5, <3>1, <3>2 DEF GetsRight
  <2> QED BY <2>3, <2>7 DEF WillBeRight
<1> QED BY <1>5, <1>6, <1>7 DEF ListsInv

\* If no object gets a parent, those of the known ones stay known.
LEMMA AboveStaysKnown ==
  ASSUME CacheInv, NoneGains, AboveIsKnown, known' \subseteq known,
         \A x \in Object : Parent(x)' \in known => Parent(x)' \in known'
  PROVE  AboveIsKnown'
<1> SUFFICES ASSUME NEW x \in known' PROVE Parent(x)' \in known' \cup {None}
  BY DEF AboveIsKnown
<1>1. x \in Object /\ Parent(x) \in known \cup {None}
  BY DEF AboveIsKnown, CacheInv, TypeOK
<1>2. Parent(x)' = None \/ Parent(x)' = Parent(x)
  BY <1>1, ParentKept DEF CacheInv, TreeIsWell
<1> QED BY <1>1, <1>2

LEMMA TakeView ==
  ASSUME ViewInv, NEW o \in Object, Take(o)
  PROVE  OneReply' /\ NoneTwice' /\ ListsInv'
<1> DEFINE p == Parent(o)
           m == [kind |-> "removed", src |-> p, child |-> o]
           ms == <<m>>
           rest == RemoveFirst(kids[p], o)
<1>1. CacheInv /\ TypeOK
  BY DEF ViewInv, CacheInv
<1>2. /\ kids' = [kids EXCEPT ![p] = rest] /\ wire' = wire \o ms /\ p # None
      /\ UNCHANGED <<dead, known, queue, filled, view, raced>>
  BY DEF Take, Send
<1>3. p \in Object /\ Contains(kids[p], o)
  BY <1>2, ParentFound
<1>4. p \in Object \ dead
  <2>1. \A x : ~Contains(<<>>, x)
    BY DEF Contains
  <2> HIDE DEF p
  <2> QED BY <1>1, <1>3, <2>1 DEF CacheInv, TreeIsWell, DeadAlone
<1> HIDE DEF p
<1>5. /\ rest \in Seq(Object) /\ \A x : Contains(rest, x) => Contains(kids[p], x)
      /\ NoneTwiceIn(rest)
  <2>1. kids[p] \in Seq(Object) /\ NoneTwiceIn(kids[p])
    BY <1>1, <1>3 DEF TypeOK, ViewInv, NoneTwice
  <2> QED BY <2>1, RemoveFirstElements, RemoveFirstKeeps
<1>6. m \in Message /\ m.kind = "removed" /\ m.src = p /\ m.child = o
  BY <1>3 DEF Message
<1> HIDE DEF m
<1>7. ms \in Seq(Message) /\ Len(ms) = 1 /\ ms[1] = m
  BY <1>6
<1>8. KidsAre(kids', p, rest)
  BY <1>1, <1>2 DEF TypeOK, KidsAre
<1>9. OneReply'
  <2>1. NoReply(ms)
    BY <1>6, <1>7 DEF NoReply
  <2> HIDE DEF ms
  <2> QED BY <1>1, <1>2, <1>7, <2>1, SendKeepsReply DEF ViewInv
<1>10. NoneTwice'
  BY <1>5, <1>8 DEF ViewInv, NoneTwice, KidsAre
<1>11. ASSUME raced' = {} PROVE AboveIsKnown' /\ BelowIsKnown' /\ WillBeRight'
  <2>1. AboveIsKnown /\ BelowIsKnown /\ WillBeRight
    BY <1>2, <1>11 DEF ViewInv, ListsInv
  <2>2. \A x, q \in Object : Contains(kids'[q], x) => Contains(kids[q], x)
    BY <1>5, <1>8 DEF KidsAre
  <2>3. AboveIsKnown'
    BY <1>1, <1>2, <2>1, <2>2, AboveStaysKnown DEF NoneGains
  <2>4. BelowIsKnown'
    <3>1. \A q \in Object : \A x : Contains(kids'[q], x) => Contains(kids[q], x)
      BY <1>5, <1>8 DEF KidsAre
    <3>2. known \subseteq Object
      BY <1>1 DEF TypeOK
    <3> QED BY <1>2, <2>1, <3>1, <3>2 DEF BelowIsKnown
  <2>5. ASSUME NEW lost \in BOOLEAN, NEW w \in Views, Right(w, kids, dead, Due(lost))
        PROVE  GetsRight(ms, w, lost, kids', dead', Due(lost)')
    <3> DEFINE D == Due(lost)
    <3> HIDE DEF D
    <3>0. Due(lost)' = D /\ Right(w, kids, dead, D)
      BY <1>2, <2>5 DEF D, Due
    <3>1. Right(WithRemoved(w, m), kids', dead, D)
      BY <1>1, <1>4, <1>6, <1>8, <3>0, RemovedRight
    <3>2. Effect(w, m, lost) = WithRemoved(w, m)
      BY <1>6 DEF Effect, Handled
    <3>3. GetsRight(<<m>>, w, lost, kids', dead, D)
      BY <1>6, <3>1, <3>2, OneGetsRight
    <3> QED BY <1>2, <3>0, <3>3
  <2> HIDE DEF ms
  <2>6. WillBeRight'
    BY <1>1, <1>2, <1>7, <2>1, <2>5, SendKeepsRight
  <2> QED BY <2>3, <2>4, <2>6
<1> QED BY <1>9, <1>10, <1>11 DEF ListsInv

LEMMA DestroyView ==
  ASSUME ViewInv, NEW o \in Object, Destroy(o)
  PROVE  OneReply' /\ NoneTwice' /\ ListsInv'
<1> DEFINE m == [kind |-> "gone", obj |-> o]
           ms == IF o \in known THEN <<m>> ELSE <<>>
<1>1. CacheInv /\ TypeOK
  BY DEF ViewInv, CacheInv
<1>2. /\ kids' = [kids EXCEPT ![o] = <<>>] /\ dead' = dead \cup {o} /\ known' = known \ {o}
      /\ Parent(o) = None /\ queue' = IF o \in known THEN queue ELSE RemoveFirst(queue, o)
      /\ UNCHANGED <<filled, view, raced>>
  BY DEF Destroy
<1>3. m \in Message /\ m.kind = "gone" /\ m.obj = o
  BY DEF Message
<1>4. wire' = wire \o ms
  <2>1. CASE o \in known
    BY <2>1 DEF Destroy, Send
  <2>2. CASE o \notin known
    <3>1. wire' = wire /\ wire \in Seq(Message)
      BY <1>1, <2>2 DEF Destroy, TypeOK
    <3> QED BY <2>2, <3>1
  <2> QED BY <2>1, <2>2
<1> HIDE DEF m
<1>5. ms \in Seq(Message) /\ \A k \in 1..Len(ms) : ms[k] = m
  BY <1>3
<1>6. \A x \in Object : kids'[x] = IF x = o THEN <<>> ELSE kids[x]
  BY <1>1, <1>2 DEF TypeOK
<1>7. \A x : ~Contains(<<>>, x)
  BY DEF Contains
<1>8. \A q \in Object : \A x : Contains(kids'[q], x) => q # o /\ Contains(kids[q], x)
  BY <1>6, <1>7
<1>9. \A q \in Object : ~Contains(kids[q], o)
  BY <1>2, ParentFound
<1>10. OneReply'
  <2>1. NoReply(ms)
    BY <1>3, <1>5 DEF NoReply
  <2> HIDE DEF ms
  <2> QED BY <1>1, <1>2, <1>4, <1>5, <2>1, SendKeepsReply DEF ViewInv
<1>11. NoneTwice'
  <2>1. NoneTwiceIn(<<>>)
    BY DEF NoneTwiceIn
  <2> QED BY <1>6, <2>1 DEF ViewInv, NoneTwice
<1>12. ASSUME raced' = {} PROVE AboveIsKnown' /\ BelowIsKnown' /\ WillBeRight'
  <2>1. AboveIsKnown /\ BelowIsKnown /\ WillBeRight
    BY <1>2, <1>12 DEF ViewInv, ListsInv
  <2>2. AboveIsKnown'
    <3>1. \A x \in Object : Parent(x)' # None =>
            Parent(x)' \in Object /\ Contains(kids'[Parent(x)'], x)
      BY NextParentFound
    <3>2. \A x \in Object : Parent(x)' \in known => Parent(x)' # o
      <4>1. None \notin known
        BY <1>1, ObjectAssumption DEF TypeOK
      <4> QED BY <1>8, <3>1, <4>1
    <3> QED BY <1>1, <1>2, <1>8, <2>1, <3>2, AboveStaysKnown DEF NoneGains
  <2>3. BelowIsKnown'
    <3> SUFFICES ASSUME NEW p \in known', NEW c, Contains(kids'[p], c)
                 PROVE  c \in known' \/ Contains(queue', c)
      BY DEF BelowIsKnown
    <3>1. p \in known /\ p \in Object
      BY <1>1, <1>2 DEF TypeOK
    <3>2. Contains(kids[p], c) /\ c # o
      BY <1>8, <1>9, <3>1
    <3>3. c \in known \/ Contains(queue, c)
      BY <2>1, <3>1, <3>2 DEF BelowIsKnown
    <3>4. Contains(queue, c) => Contains(queue', c)
      <4>1. queue \in Seq(Object)
        BY <1>1 DEF TypeOK
      <4>2. Contains(queue, c) => Contains(RemoveFirst(queue, o), c)
        BY <3>2, <4>1, RemoveFirstKeeps
      <4> QED BY <1>2, <4>2
    <3> QED BY <1>2, <3>2, <3>3, <3>4
  <2>4. ASSUME NEW lost \in BOOLEAN, NEW w \in Views, Right(w, kids, dead, Due(lost))
        PROVE  GetsRight(ms, w, lost, kids', dead', Due(lost)')
    <3> DEFINE D == Due(lost)
    <3> HIDE DEF D
    <3>0. Due(lost)' = D \ {o} /\ Right(w, kids, dead, D)
      BY <1>2, <2>4 DEF D, Due
    <3>1. CASE o \in known
      <4>1. Right(Disposed(w, o), kids', dead \cup {o}, D \ {o})
        BY <1>1, <1>6, <1>9, <3>0, GoneRight
      <4>2. Effect(w, m, lost) = Disposed(w, o)
        BY <1>3 DEF Effect, Handled
      <4>3. GetsRight(<<m>>, w, lost, kids', dead \cup {o}, D \ {o})
        BY <1>3, <4>1, <4>2, OneGetsRight
      <4> QED BY <1>2, <3>0, <3>1, <4>3
    <3>2. CASE o \notin known
      <4>1. Right(w, kids', dead', D \ {o})
        BY <1>2, <1>6, <3>0 DEF Right
      <4> QED BY <3>0, <3>2, <4>1, NoneGetsRight
    <3> QED BY <3>1, <3>2
  <2> HIDE DEF ms
  <2>5. WillBeRight'
    BY <1>1, <1>2, <1>4, <1>5, <2>1, <2>4, SendKeepsRight
  <2> QED BY <2>2, <2>3, <2>5
<1> QED BY <1>10, <1>11, <1>12 DEF ListsInv

LEMMA InsertView ==
  ASSUME ViewInv, NEW o \in Object, NEW p \in Object, NEW i \in Nat, Insert(o, p, i)
  PROVE  OneReply' /\ NoneTwice' /\ ListsInv'
<1> DEFINE m == [kind |-> "parent", obj |-> o, parent |-> p]
           n == [kind |-> "added", src |-> p, index |-> i, child |-> o]
           ms == <<m, n>>
           more == InsertAt(kids[p], i + 1, o)
<1>1. CacheInv /\ TypeOK
  BY DEF ViewInv, CacheInv
<1>2. /\ kids' = [kids EXCEPT ![p] = more] /\ wire' = wire \o ms
      /\ p \in Object \ dead /\ i \in 0..Len(kids[p])
      /\ queue' = IF p \in known THEN Append(queue, o) ELSE queue
      /\ Race(o \in known /\ p \notin known, "moved")
      /\ UNCHANGED <<dead, known, filled, view>>
  BY DEF Insert, Send
<1>3. /\ \A x, q \in Object :
           Contains(kids'[q], x) <=> (x = o /\ q = p) \/ Contains(kids[q], x)
      /\ \A q \in Object : ~Contains(kids[q], o)
      /\ \A x \in Object : Parent(x)' = IF x = o THEN p ELSE Parent(x)
  BY <1>1, InsertedTree
<1>4. NoneTwiceIn(more)
  <2>1. kids[p] \in Seq(Object) /\ NoneTwiceIn(kids[p]) /\ ~Contains(kids[p], o)
    BY <1>1, <1>3 DEF TypeOK, ViewInv, NoneTwice
  <2>2. i + 1 \in 1..(Len(kids[p]) + 1)
    BY <1>2, <2>1
  <2> QED BY <2>1, <2>2, InsertAtKeeps
<1>5. KidsAre(kids', p, more)
  <2> HIDE DEF more
  <2> QED BY <1>1, <1>2 DEF TypeOK, KidsAre
<1>6. /\ m \in Message /\ m.kind = "parent" /\ m.obj = o /\ m.parent = p
      /\ n \in Message /\ n.kind = "added" /\ n.src = p /\ n.index = i /\ n.child = o
  BY DEF Message
<1> HIDE DEF m, n
<1>7. ms \in Seq(Message) /\ Len(ms) = 2 /\ ms[1] = m /\ ms[2] = n /\ ms = <<m>> \o <<n>>
  <2>1. ms \in Seq(Message) /\ Len(ms) = 2 /\ ms[1] = m /\ ms[2] = n
    BY <1>6
  <2> DEFINE t == <<m>> \o <<n>>
  <2>2. t \in Seq(Message) /\ Len(t) = 2 /\ t[1] = m /\ t[2] = n
    BY <1>6
  <2> HIDE DEF ms, t
  <2>3. ms = t
    BY <2>1, <2>2
  <2> QED BY <2>1, <2>3 DEF t
<1>8. OneReply'
  <2>1. NoReply(ms)
    BY <1>6, <1>7 DEF NoReply
  <2> HIDE DEF ms
  <2> QED BY <1>1, <1>2, <1>7, <2>1, SendKeepsReply DEF ViewInv
<1>9. NoneTwice'
  <2> HIDE DEF more
  <2> QED BY <1>4, <1>5 DEF ViewInv, NoneTwice, KidsAre
<1>10. ASSUME raced' = {} PROVE AboveIsKnown' /\ BelowIsKnown' /\ WillBeRight'
  <2>1. raced = {} /\ ~(o \in known /\ p \notin known)
    BY <1>2, <1>10, RacedNot
  <2>2. AboveIsKnown /\ BelowIsKnown /\ WillBeRight
    BY <2>1 DEF ViewInv, ListsInv
  <2>3. known \subseteq Object /\ queue \in Seq(Object)
    BY <1>1 DEF TypeOK
  <2>4. AboveIsKnown'
    BY <1>2, <1>3, <2>1, <2>2, <2>3 DEF AboveIsKnown
  <2>5. BelowIsKnown'
    <3> SUFFICES ASSUME NEW q \in known', NEW c, Contains(kids'[q], c)
                 PROVE  c \in known' \/ Contains(queue', c)
      BY DEF BelowIsKnown
    <3>1. q \in known /\ q \in Object
      BY <1>2, <2>3
    <3>2. \A x : Contains(Append(queue, o), x) <=> Contains(queue, x) \/ x = o
      <4>1. Append(queue, o) = queue \o <<o>> /\ <<o>> \in Seq(Object)
        BY <2>3
      <4>2. \A x : Contains(queue \o <<o>>, x) <=> Contains(queue, x) \/ Contains(<<o>>, x)
        BY <2>3, <4>1, JoinedHas
      <4> QED BY <4>1, <4>2, OneHas
    <3>3. c \in Object
      <4>1. kids'[q] \in Seq(Object)
        BY <1>1, <3>1, InsertOK DEF CacheInv, TypeOK
      <4> QED BY <4>1 DEF Contains
    <3>4. CASE c = o /\ q = p
      BY <1>2, <3>1, <3>2, <3>4
    <3>5. CASE Contains(kids[q], c)
      <4>1. c \in known \/ Contains(queue, c)
        BY <2>2, <3>1, <3>5 DEF BelowIsKnown
      <4> QED BY <1>2, <3>2, <4>1
    <3> QED BY <1>3, <3>1, <3>3, <3>4, <3>5
  <2>6. ASSUME NEW lost \in BOOLEAN, NEW w \in Views, Right(w, kids, dead, Due(lost))
        PROVE  GetsRight(ms, w, lost, kids', dead', Due(lost)')
    <3> DEFINE u == WithParent(w, m)
               D == Due(lost)
    <3> HIDE DEF D
    <3>0. Due(lost)' = D /\ Right(w, kids, dead, D)
      BY <1>2, <2>6 DEF D, Due
    <3>1. u \in Views /\ Right(u, kids, dead, D)
      BY <1>6, <3>0, ParentRight
    <3>2. Effect(w, m, lost) = u
      BY <1>6 DEF Effect, Handled
    <3> HIDE DEF u
    <3>3. Leads(<<m>>, w, u, lost)
      BY <1>6, <3>2, LeadsOne
    <3>4. Right(WithAdded(u, n), kids', dead, D)
      <4>1. /\ n.index \in 0..Len(kids[p]) /\ ~Contains(kids[p], o)
            /\ KidsAre(kids', p, InsertAt(kids[p], n.index + 1, o))
        BY <1>2, <1>3, <1>5, <1>6
      <4> QED BY <1>1, <1>2, <1>6, <3>1, <4>1, AddedRight
    <3>5. Effect(u, n, lost) = WithAdded(u, n)
      BY <1>6 DEF Effect, Handled
    <3>6. GetsRight(<<n>>, u, lost, kids', dead, D)
      BY <1>6, <3>1, <3>4, <3>5, OneGetsRight
    <3>7. PICK x \in Views : Leads(<<n>>, u, x, lost) /\ Right(x, kids', dead, D)
      BY <3>6 DEF GetsRight
    <3>8. <<m>> \in Seq(Message) /\ <<n>> \in Seq(Message)
      BY <1>6
    <3>9. Leads(<<m>> \o <<n>>, w, x, lost)
      BY <3>3, <3>7, <3>8, LeadsOn
    <3> QED BY <1>2, <1>7, <3>0, <3>7, <3>9 DEF GetsRight
  <2> HIDE DEF ms
  <2>7. WillBeRight'
    BY <1>1, <1>2, <1>7, <2>2, <2>6, SendKeepsRight
  <2> QED BY <2>4, <2>5, <2>7
<1> QED BY <1>8, <1>9, <1>10 DEF ListsInv

LEMMA ViewStep == ViewInv /\ [Next]_vars => ViewInv'
<1> SUFFICES ASSUME ViewInv, [Next]_vars PROVE OneReply' /\ NoneTwice' /\ ListsInv'
  BY CacheStep DEF ViewInv
<1>1. CASE UNCHANGED vars
  <2>1. UNCHANGED <<kids, dead, known, queue, wire, filled, view, raced>>
    BY <1>1 DEF vars, serverVars
  <2>2. \A o : Parent(o)' = Parent(o)
    BY <2>1 DEF Parent, Parents
  <2> QED BY <2>1, <2>2 DEF ViewInv, OneReply, NoReply, NoneTwice, ListsInv, AboveIsKnown,
                            BelowIsKnown, WillBeRight, Due
<1>2. 0..Cardinality(Object) \subseteq Nat
  BY ObjectAssumption, FS_CardinalityType
<1>3. ASSUME NEW o \in Object, NEW p \in Object, NEW i \in 0..Cardinality(Object),
             Insert(o, p, i)
      PROVE  OneReply' /\ NoneTwice' /\ ListsInv'
  BY <1>2, <1>3, InsertView
<1>4. ASSUME NEW p \in Object, NEW i \in 0..Cardinality(Object), GetChild(p, i)
      PROVE  OneReply' /\ NoneTwice' /\ ListsInv'
  BY <1>2, <1>4, GetChildView
<1>5. ASSUME NEW o \in Object, Take(o) \/ Destroy(o)
      PROVE  OneReply' /\ NoneTwice' /\ ListsInv'
  BY <1>5, TakeView, DestroyView
<1> QED
  BY <1>1, <1>3, <1>4, <1>5, AnnounceView, GetItemsView, GetItemsFailsView, HandleView
  DEF Next

-----------------------------------------------------------------------------

\* Whatever the application does to its tree, and whichever messages overtake others,
\* the client's cache and the messages stay well formed: no list gets a value that is
\* neither an object nor a hole or a disposed instance (g_ptr_array_set_size and the
\* indices in cache_process_children_changed and add_accessible_from_iter).
THEOREM TypeCorrect == Spec => []TypeOK
<1>1. CacheInv => TypeOK
  BY DEF CacheInv
<1> QED BY InitOK, CacheStep, <1>1, PTL DEF Spec

\* An object that is known and has a parent has that parent at the client once the
\* messages are handled: items and replies with an older parent are corrected by a
\* signal that is still to come, unless such a signal was handled before an older reply
\* to GetItems came (add_accessible_from_iter, cache_process_property_change).
THEOREM ParentsGetRight == Spec => []ParentIsRight
<1>1. CacheInv => ParentIsRight
  <2> SUFFICES ASSUME CacheInv, Settled, filled, "outdated" \notin raced,
                      NEW o \in known, Parent(o) # None
               PROVE  view[o].parent = Parent(o)
    BY DEF ParentIsRight
  <2>1. o \in Object /\ Len(wire) = 0
    BY DEF CacheInv, TypeOK, Settled
  <2> QED BY <2>1 DEF CacheInv, ParentInv, IsTold
<1> QED BY InitOK, CacheStep, <1>1, PTL DEF Spec

\* With nothing on its way the lists are as they should be.
LEMMA SettledRight ==
  ASSUME ViewInv, wire = <<>>, raced = {}
  PROVE  Right(view, kids, dead, Due(FALSE))
<1>1. GetsRight(wire, view, FALSE, kids, dead, Due(FALSE))
  BY Zenon DEF ViewInv, ListsInv, WillBeRight
<1>2. PICK w \in Views : Leads(<<>>, view, w, FALSE) /\ Right(w, kids, dead, Due(FALSE))
  BY <1>1 DEF GetsRight
<1>3. view \in Views
  BY DEF ViewInv, CacheInv, TypeOK
<1>4. w = view
  BY <1>2, <1>3, LeadsNowhere
<1> QED BY <1>2, <1>4

\* As long as nothing races, every list that is in use is that of the toolkit, child by
\* child, once the messages are handled: "added" and "removed" meet the list they were
\* sent for, and a reply, an announced object or the answer about a child fits the tree
\* as it was at that place of the order (cache_process_children_changed,
\* add_accessible_from_iter, add_pending_items, atspi_accessible_get_child_at_index).
THEOREM ListsGetRight == Spec => []ViewIsRight
<1>1. ViewInv => ViewIsRight
  <2> SUFFICES ASSUME ViewInv, wire = <<>>, raced = {}, NEW o \in Object \ dead, view[o].flag
               PROVE  view[o].kids = kids[o]
    BY DEF ViewIsRight, Settled
  <2>1. Right(view, kids, dead, Due(FALSE))
    BY SettledRight
  <2> QED BY <2>1 DEF Right
<1> QED BY ViewInit, ViewStep, <1>1, PTL DEF Spec

\* And the list of every object that the bridge knows is in use once GetItems was
\* answered: no "added" finds its list too short, and an object that is announced
\* later, or whose instance is new, has its list from its item
\* (cache_process_children_changed, add_accessible_from_iter, handle_remove_accessible).
THEOREM ListsStayInUse == Spec => []ListsAreInUse
<1>1. ViewInv => ListsAreInUse
  <2> SUFFICES ASSUME ViewInv, wire = <<>>, filled, raced = {}, NEW o \in known
               PROVE  view[o].flag
    BY DEF ListsAreInUse, Settled
  <2>1. Right(view, kids, dead, Due(FALSE))
    BY SettledRight
  <2>2. o \in Object /\ o \in Due(FALSE)
    BY DEF Due, ViewInv, CacheInv, TypeOK
  <2> QED BY <2>1, <2>2 DEF Right
<1> QED BY ViewInit, ViewStep, <1>1, PTL DEF Spec
=============================================================================

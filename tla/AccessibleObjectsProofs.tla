----------------------- MODULE AccessibleObjectsProofs -----------------------
(***************************************************************************)
(* Proofs about AccessibleObjects: references are balanced and paths lead  *)
(* to their objects in every reachable state, the cache is complete when   *)
(* no idle is pending if the toolkit attaches nothing during a traversal,  *)
(* and no lease is taken for a cached object that becomes defunct.         *)
(***************************************************************************)
EXTENDS AccessibleObjects, SequenceTheorems, FiniteSetTheorems, TLAPS

-----------------------------------------------------------------------------
(* How often an object is in a sequence *)

\* The positions of an object in a sequence are finitely many.
LEMMA PlacesType ==
  ASSUME NEW s \in Seq(Object), NEW o
  PROVE  /\ IsFiniteSet({i \in DOMAIN s : s[i] = o})
         /\ Places(s, o) \in Nat
<1>1. DOMAIN s = 1..Len(s) /\ Len(s) \in Nat
  BY LenProperties
<1>2. IsFiniteSet(1..Len(s))
  BY <1>1, FS_Interval
<1>3. {i \in DOMAIN s : s[i] = o} \in SUBSET (1..Len(s))
  BY <1>1
<1>4. IsFiniteSet({i \in DOMAIN s : s[i] = o})
  BY <1>2, <1>3, FS_Subset
<1> QED BY <1>4, FS_CardinalityType DEF Places

\* No object is in the empty sequence.
LEMMA PlacesEmpty ==
  ASSUME NEW o
  PROVE  Places(<<>>, o) = 0
<1>1. {i \in DOMAIN <<>> : <<>>[i] = o} = {}
  OBVIOUS
<1> QED BY <1>1, FS_EmptySet DEF Places

\* Sequences of one object.
LEMMA PlacesOne ==
  ASSUME NEW x \in Object, NEW o
  PROVE  Places(<<x>>, o) = IF x = o THEN 1 ELSE 0
<1>1. {i \in DOMAIN <<x>> : <<x>>[i] = o} = IF x = o THEN {1} ELSE {}
  OBVIOUS
<1> QED BY <1>1, FS_EmptySet, FS_Singleton DEF Places

\* An object is in a concatenation as often as in its parts.
LEMMA PlacesConcat ==
  ASSUME NEW s \in Seq(Object), NEW t \in Seq(Object), NEW o
  PROVE  Places(s \o t, o) = Places(s, o) + Places(t, o)
<1> DEFINE n == Len(s)
           A == {i \in DOMAIN s : s[i] = o}
           B == {i \in DOMAIN t : t[i] = o}
           C == {i \in DOMAIN (s \o t) : (s \o t)[i] = o}
           D == {i \in C : i > n}
           f == [i \in B |-> i + n]
<1>1. /\ n \in Nat /\ Len(t) \in Nat
      /\ DOMAIN s = 1..n /\ DOMAIN t = 1..Len(t)
      /\ s \o t \in Seq(Object)
      /\ DOMAIN (s \o t) = 1..(n + Len(t))
      /\ \A i \in 1..(n + Len(t)) : (s \o t)[i] = IF i <= n THEN s[i] ELSE t[i - n]
  BY LenProperties, ConcatProperties
<1>2. C = A \cup D /\ A \cap D = {}
  <2>1. A \subseteq C
    BY <1>1
  <2>2. \A i \in C : i <= n => i \in A
    BY <1>1
  <2>3. \A i \in C : i <= n \/ i > n
    BY <1>1
  <2>4. \A i \in A : ~ (i > n)
    BY <1>1
  <2> QED BY <2>1, <2>2, <2>3, <2>4
<1>3. f \in Bijection(B, D)
  <2>1. \A i \in B : i + n \in D
    BY <1>1
  <2>2. \A j \in D : j - n \in B /\ f[j - n] = j
    BY <1>1
  <2>3. \A i, j \in B : f[i] = f[j] => i = j
    BY <1>1
  <2>4. f \in [B -> D]
    BY <2>1
  <2> QED BY <2>2, <2>3, <2>4, Zenon DEF Bijection, Injection, Surjection, IsInjective
<1>4. IsFiniteSet(A) /\ IsFiniteSet(B) /\ Cardinality(A) \in Nat /\ Cardinality(B) \in Nat
  BY PlacesType DEF Places
<1>5. IsFiniteSet(D) /\ Cardinality(D) = Cardinality(B)
  <2>1. ExistsBijection(B, D)
    BY <1>3 DEF ExistsBijection
  <2> QED BY <2>1, <1>4, FS_Bijection
<1>6. Cardinality(C) = Cardinality(A) + Cardinality(D) - Cardinality(A \cap D)
  BY <1>2, <1>4, <1>5, FS_Union
<1>7. Cardinality(A \cap D) = 0
  BY <1>2, FS_EmptySet
<1>8. /\ Places(s, o) = Cardinality(A) /\ Places(t, o) = Cardinality(B)
      /\ Places(s \o t, o) = Cardinality(C)
  BY DEF Places
<1> HIDE DEF A, B, C, D
<1> QED BY <1>4, <1>5, <1>6, <1>7, <1>8

\* What is appended is there once more.
LEMMA PlacesAppend ==
  ASSUME NEW s \in Seq(Object), NEW x \in Object, NEW o
  PROVE  /\ Append(s, x) \in Seq(Object)
         /\ Places(Append(s, x), o) = Places(s, o) + (IF x = o THEN 1 ELSE 0)
<1>1. Append(s, x) = s \o <<x>> /\ <<x>> \in Seq(Object)
  BY AppendIsConcat
<1>2. Places(s \o <<x>>, o) = Places(s, o) + Places(<<x>>, o)
  BY <1>1, PlacesConcat
<1>3. s \o <<x>> \in Seq(Object)
  BY <1>1, ConcatProperties
<1> QED BY <1>1, <1>2, <1>3, PlacesOne

\* The head is there once more than in the tail.
LEMMA PlacesTail ==
  ASSUME NEW s \in Seq(Object), s # <<>>, NEW o
  PROVE  /\ Head(s) \in Object /\ Tail(s) \in Seq(Object)
         /\ Places(s, o) = (IF Head(s) = o THEN 1 ELSE 0) + Places(Tail(s), o)
<1>1. Head(s) \in Object /\ Tail(s) \in Seq(Object)
  BY HeadTailProperties
<1>2. s = <<Head(s)>> \o Tail(s)
  OBVIOUS
<1>3. <<Head(s)>> \in Seq(Object)
  BY <1>1
<1>4. Places(<<Head(s)>> \o Tail(s), o) = Places(<<Head(s)>>, o) + Places(Tail(s), o)
  BY <1>1, <1>3, PlacesConcat
<1> QED BY <1>1, <1>2, <1>4, PlacesOne

\* An object is in a sequence if and only if it has places in it.
LEMMA PlacesContains ==
  ASSUME NEW s \in Seq(Object), NEW o
  PROVE  Contains(s, o) <=> Places(s, o) > 0
<1> DEFINE A == {i \in DOMAIN s : s[i] = o}
<1>1. DOMAIN s = 1..Len(s)
  BY LenProperties
<1>2. Contains(s, o) <=> A # {}
  BY <1>1 DEF Contains
<1>3. IsFiniteSet(A) /\ Cardinality(A) \in Nat
  BY PlacesType DEF Places
<1>4. Cardinality(A) = 0 <=> A = {}
  BY <1>3, FS_EmptySet
<1> QED BY <1>2, <1>3, <1>4 DEF Places

\* Removing an object's first place takes one of its places and none of others.
LEMMA PlacesRemoveFirst ==
  ASSUME NEW s \in Seq(Object), NEW x \in Object, Contains(s, x), NEW o
  PROVE  /\ RemoveFirst(s, x) \in Seq(Object)
         /\ Places(s, o) = Places(RemoveFirst(s, x), o) + (IF x = o THEN 1 ELSE 0)
<1> DEFINE I == {i \in 1..Len(s) : s[i] = x}
           k == CHOOSE i \in I : \A j \in I : i <= j
<1>1. Len(s) \in Nat
  BY LenProperties
<1>2. I # {}
  BY DEF Contains
<1>3. k \in I
  <2>1. PICK m \in I : TRUE
    BY <1>2
  <2>2. I \subseteq Nat
    BY <1>1
  <2>3. IsWellFoundedOn(OpToRel(<, Nat), Nat)
    BY NatLessThanWellFounded
  <2>4. \E i \in I : \A j \in I : ~ (<<j, i>> \in OpToRel(<, Nat))
    BY <2>1, <2>2, <2>3, WFMin
  <2>5. \A i, j \in Nat : j < i => <<j, i>> \in OpToRel(<, Nat)
    BY DEF OpToRel
  <2>6. \E i \in I : \A j \in I : i <= j
    <3> HIDE DEF I
    <3>1. PICK i \in I : \A j \in I : ~ (<<j, i>> \in OpToRel(<, Nat))
      BY <2>4
    <3>2. \A j \in I : ~ (j < i)
      BY <3>1, <2>2, <2>5
    <3>3. \A j \in I : i <= j
      BY <3>2, <2>2
    <3> QED BY <3>3
  <2> QED BY <2>6
<1>4. RemoveFirst(s, x) = SubSeq(s, 1, k - 1) \o SubSeq(s, k + 1, Len(s))
  <2>1. SelectInSeq(s, LAMBDA v : v = x) = k
    BY <1>2 DEF SelectInSeq, Min
  <2> QED BY <2>1 DEF RemoveFirst, RemoveAt, Contains
<1> DEFINE a == SubSeq(s, 1, k - 1)
           b == SubSeq(s, k + 1, Len(s))
<1>5. k \in 1..Len(s) /\ s[k] = x
  BY <1>3
<1> HIDE DEF k
<1>6. a \in Seq(Object) /\ b \in Seq(Object)
  <2>1. \A i \in 1..(k - 1) : s[i] \in Object
    BY <1>1, <1>5, ElementOfSeq
  <2>2. \A i \in (k + 1)..Len(s) : s[i] \in Object
    BY <1>1, <1>5, ElementOfSeq
  <2>3. k - 1 \in Int /\ k + 1 \in Int /\ Len(s) \in Int
    BY <1>1, <1>5, SMTT(40)
  <2> QED BY <2>1, <2>2, <2>3, SubSeqProperties
<1>7. s = (a \o <<x>>) \o b
  <2>1. a \o <<s[k]>> = SubSeq(s, 1, k)
    <3>1. 1 \in 1..Len(s) /\ k \in 1..Len(s)
      BY <1>1, <1>5
    <3> QED BY <3>1, SubSeqRecursiveSecond
  <2>2. SubSeq(s, 1, k) \o b = SubSeq(s, 1, Len(s))
    <3>1. 1 \in 1..(Len(s) + 1) /\ k \in (1 - 1)..Len(s) /\ Len(s) \in k..Len(s)
      BY <1>1, <1>5
    <3> QED BY <3>1, ConcatAdjacentSubSeq
  <2>3. SubSeq(s, 1, Len(s)) = s
    BY SubSeqFull
  <2> QED BY <2>1, <2>2, <2>3, <1>5
<1>8. <<x>> \in Seq(Object) /\ a \o <<x>> \in Seq(Object) /\ a \o b \in Seq(Object)
  <2>1. <<x>> \in Seq(Object)
    OBVIOUS
  <2> QED BY <2>1, <1>6, ConcatProperties
<1> HIDE DEF a, b
<1>9. Places(s, o) = Places(a, o) + (IF x = o THEN 1 ELSE 0) + Places(b, o)
  <2>1. Places((a \o <<x>>) \o b, o) = Places(a \o <<x>>, o) + Places(b, o)
    <3> DEFINE c == a \o <<x>>
    <3>1. c \in Seq(Object)
      BY <1>8
    <3> HIDE DEF c
    <3>2. Places(c \o b, o) = Places(c, o) + Places(b, o)
      BY <3>1, <1>6, PlacesConcat
    <3> QED BY <3>2 DEF c
  <2>2. Places(a \o <<x>>, o) = Places(a, o) + Places(<<x>>, o)
    <3> DEFINE c == <<x>>
    <3>1. c \in Seq(Object)
      BY <1>8
    <3> HIDE DEF c
    <3>2. Places(a \o c, o) = Places(a, o) + Places(c, o)
      BY ONLY <3>1, <1>6, PlacesConcat
    <3> QED BY <3>2 DEF c
  <2> QED BY <2>1, <2>2, <1>7, PlacesOne
<1>10. Places(a \o b, o) = Places(a, o) + Places(b, o)
  BY <1>6, PlacesConcat
<1>11. RemoveFirst(s, x) = a \o b
  BY <1>4 DEF a, b
<1>12. Places(a, o) \in Nat /\ Places(b, o) \in Nat
  BY <1>6, PlacesType
<1> QED BY <1>8, <1>9, <1>10, <1>11, <1>12

\* A sequence of n times the same object.
LEMMA PlacesConstant ==
  ASSUME NEW n \in Nat, NEW x \in Object, NEW s, s = [i \in 1..n |-> x], NEW o
  PROVE  /\ s \in Seq(Object)
         /\ Places(s, o) = IF x = o THEN n ELSE 0
<1>1. s \in Seq(Object)
  BY IsASeq
<1>2. {i \in DOMAIN s : s[i] = o} = IF x = o THEN 1..n ELSE {}
  OBVIOUS
<1>3. Cardinality(1..n) = n
  BY FS_Interval
<1> QED BY <1>1, <1>2, <1>3, FS_EmptySet DEF Places

\* A sequence of all elements of a set has each once.
LEMMA PlacesOfSet ==
  ASSUME NEW S \in SUBSET Object, IsFiniteSet(S), NEW s \in SetToSeqs(S), NEW o
  PROVE  /\ s \in Seq(Object)
         /\ Places(s, o) = IF o \in S THEN 1 ELSE 0
<1> DEFINE n == Cardinality(S)
           A == {i \in DOMAIN s : s[i] = o}
<1>1. n \in Nat
  BY FS_CardinalityType
<1>2. /\ s \in [1..n -> S]
      /\ \A i, j \in 1..n : i # j => s[i] # s[j]
  BY DEF SetToSeqs
<1>3. s \in Seq(Object)
  <2>1. s \in [1..n -> Object]
    BY <1>2
  <2> QED BY <1>1, <2>1
<1>4. ASSUME o \in S
      PROVE  \E i \in 1..n : s[i] = o
  <2>1. s \in Injection(1..n, S)
    BY <1>2 DEF Injection, IsInjective
  <2>2. IsFiniteSet(1..n) /\ Cardinality(1..n) = n
    BY <1>1, FS_Interval
  <2>3. s \in Surjection(1..n, S)
    BY <2>1, <2>2, FS_Injection
  <2> QED BY <1>4, <2>3 DEF Surjection
<1>5. CASE o \in S
  <2>1. PICK i \in 1..n : s[i] = o
    BY <1>4, <1>5
  <2>2. A = {i}
    BY <1>2, <2>1
  <2> QED BY <1>3, <1>5, <2>2, FS_Singleton DEF Places
<1>6. CASE o \notin S
  <2>1. A = {}
    BY <1>2, <1>6
  <2> QED BY <1>3, <1>6, <2>1, FS_EmptySet DEF Places
<1> QED BY <1>5, <1>6

-----------------------------------------------------------------------------
(* The inductive invariants *)

\* Registers: the counter, ids and paths fit a guint.
Registers ==
  [counter : 0..(RefSize - 1), id : [Object -> 0..(RefSize - 1)],
   ptr : [Ref -> Object \cup {NoObject}], weak : SUBSET Object]

\* The types of the variables.
TypeOK ==
  /\ parent \in [Object -> Object \cup {NoObject}]
  /\ owned \subseteq Object /\ defunct \subseteq Object
  /\ refs \in [Object -> Nat] /\ leased \subseteq Object
  /\ reg \in Registers /\ cached \subseteq Object
  /\ queue \in Seq(Object) /\ toAdd \in Seq(Object)
  /\ phase \in {"none", "scan", "add"} /\ idle \in BOOLEAN /\ active \in BOOLEAN

\* What is in the tree is the toolkit's, and stays alive for that.
TreeIsOwned ==
  /\ Root \in owned
  /\ \A o \in Object : parent[o] # NoObject => {o, parent[o]} \subseteq owned

Live == {o \in Object : Alive(o)}

\* The register r when the objects in kept need their paths: an id is given once,
\* in the order of the counter, and its path leads to its object as long as the
\* weak reference to that is there.
RegisterFits(r, kept) ==
  /\ r.id[Root] = 0
  /\ \A o \in r.weak : r.id[o] # 0
  /\ \A o \in Object : r.id[o] # 0 =>
       r.ptr[r.id[o]] = IF o \in r.weak THEN o ELSE NoObject
  /\ \A o \in kept : r.id[o] # 0 => o \in r.weak
  /\ \A o, p \in Object : r.id[o] # 0 /\ r.id[o] = r.id[p] => o = p
  /\ \A o \in Object : r.id[o] <= r.counter
  /\ Cardinality({o \in Object : r.id[o] # 0}) = r.counter

\* The register fits, and neither it nor the cache keeps what is finalized.
RegisterInv ==
  /\ RegisterFits(reg, Live \ defunct)
  /\ reg.weak \subseteq Live /\ cached \subseteq Live

\* What the traversal has reached, the cache has or will get: the children that
\* belong there are in the queue or further.
Reached == cached \cup {o \in Object : Places(toAdd, o) > 0}
Waiting == {o \in Object : Places(queue, o) > 0}
TreeInv ==
  /\ phase = "none" => toAdd = <<>>
  /\ phase = "add" => queue = <<>>
  /\ phase # "none" \/ queue # <<>> => idle
  /\ \A o \in Object :
       /\ parent[o] \in Reached \ (leaves \cup defunct)
       /\ o \notin transient \cup defunct
       => o \in Reached \cup Waiting

CountInv == TypeOK /\ TreeIsOwned /\ RefsBalanced

-----------------------------------------------------------------------------
(* What the operators of the module keep *)

\* The next id fits the register.
LEMMA NextRefType ==
  ASSUME NEW r \in Registers
  PROVE  NextRef(r) \in Ref
<1>1. RefSize \in Nat /\ RefSize > 1 /\ r.counter \in 0..(RefSize - 1)
  BY RefAssumption DEF Registers
<1>2. CASE r.counter + 1 = RefSize
  <2>1. (r.counter + 1) % RefSize = 0
    BY <1>1, <1>2
  <2> QED BY <1>1, <2>1 DEF NextRef, Ref
<1>3. CASE r.counter + 1 # RefSize
  <2>1. r.counter + 1 \in Ref
    BY <1>1, <1>3 DEF Ref
  <2>2. 1 \in Ref
    BY <1>1 DEF Ref
  <2> QED BY <2>1, <2>2 DEF NextRef
<1> QED BY <1>2, <1>3

\* Asking for a path leaves a register.
LEMMA RegisteredType ==
  ASSUME NEW r \in Registers, NEW o \in Object
  PROVE  Registered(r, o) \in Registers
<1>1. NextRef(r) \in Ref
  BY NextRefType
<1>2. CASE o = Root \/ r.id[o] # 0
  BY <1>2 DEF Registered
<1>3. CASE ~(o = Root \/ r.id[o] # 0)
  <2> DEFINE ref == NextRef(r)
  <2>1. Registered(r, o) =
          [counter |-> ref, id |-> [r.id EXCEPT ![o] = ref],
           ptr |-> [r.ptr EXCEPT ![ref] = o], weak |-> r.weak \cup {o}]
    BY <1>3 DEF Registered
  <2>2. ref \in 0..(RefSize - 1)
    BY <1>1, RefAssumption DEF Ref
  <2> HIDE DEF ref
  <2>3. [r.id EXCEPT ![o] = ref] \in [Object -> 0..(RefSize - 1)]
    BY <2>2 DEF Registers
  <2>4. [r.ptr EXCEPT ![ref] = o] \in [Ref -> Object \cup {NoObject}]
    BY DEF Registers
  <2>5. r.weak \cup {o} \in SUBSET Object
    BY DEF Registers
  <2> QED BY <2>1, <2>2, <2>3, <2>4, <2>5 DEF Registers
<1> QED BY <1>2, <1>3

\* Notifying weak references leaves a register.
LEMMA DeregisteredType ==
  ASSUME NEW r \in Registers, NEW gone
  PROVE  /\ Deregistered(r, gone) \in Registers
         /\ Deregistered(r, gone).id = r.id
         /\ Deregistered(r, gone).counter = r.counter
         /\ Deregistered(r, gone).weak = r.weak \ gone
         /\ Deregistered(r, gone).ptr =
              [x \in Ref |-> IF \E o \in gone \cap r.weak : r.id[o] = x
                             THEN NoObject ELSE r.ptr[x]]
<1> DEFINE p == [x \in Ref |-> IF \E o \in gone \cap r.weak : r.id[o] = x
                               THEN NoObject ELSE r.ptr[x]]
<1>1. p \in [Ref -> Object \cup {NoObject}]
  BY DEF Registers
<1>2. Deregistered(r, gone) = [r EXCEPT !.weak = r.weak \ gone, !.ptr = p]
  BY DEF Deregistered
<1> HIDE DEF p
<1>3. /\ Deregistered(r, gone) \in Registers
      /\ Deregistered(r, gone).id = r.id
      /\ Deregistered(r, gone).counter = r.counter
      /\ Deregistered(r, gone).weak = r.weak \ gone
      /\ Deregistered(r, gone).ptr = p
  BY <1>1, <1>2 DEF Registers
<1> QED BY <1>3 DEF p

\* Settling keeps the types and what is not finalized.
LEMMA SettleType ==
  ASSUME NEW count, NEW r \in Registers, NEW in \in SUBSET Object, Settle(count, r, in)
  PROVE  /\ refs' = count /\ reg' \in Registers /\ cached' \subseteq in
         /\ \A o \in in : count[o] # 0 => o \in cached'
<1> DEFINE gone == {o \in Object : count[o] = 0}
<1>1. refs' = count /\ reg' = Deregistered(r, gone) /\ cached' = in \ gone
  BY DEF Settle, WithoutGone
<1> QED BY <1>1, DeregisteredType

\* Leasing takes a reference to what is leased newly.
LEMMA TakenType ==
  ASSUME NEW count \in [Object -> Nat], NEW held \in SUBSET Object, leased \subseteq held
  PROVE  /\ Taken(count, held) \in [Object -> Nat]
         /\ \A o \in Object :
              Taken(count, held)[o] + Holds(leased, o) = count[o] + Holds(held, o)
BY DEF Taken, Holds

\* Leasing adds no more than its object.
LEMMA LeasedType ==
  ASSUME NEW in, NEW held \in SUBSET Object, NEW o \in Object
  PROVE  /\ Leased(in, held, o) \in SUBSET Object /\ held \subseteq Leased(in, held, o)
         /\ Leased(in, held, o) \subseteq held \cup {o}
BY DEF Leased

-----------------------------------------------------------------------------
(* References are balanced *)

\* The invariant of the counts holds in the beginning.
LEMMA CountInit == Init => CountInv
<1> SUFFICES ASSUME Init PROVE CountInv
  OBVIOUS
<1> USE RootAssumption, RefAssumption DEF Init
<1>1. <<>> \in Seq(Object) /\ \A o : Places(<<>>, o) = 0
  BY PlacesEmpty
<1>2. reg \in Registers
  BY DEF Registers, Ref
<1>3. TypeOK
  BY <1>1, <1>2 DEF TypeOK
<1>4. TreeIsOwned
  BY DEF TreeIsOwned
<1>5. RefsBalanced
  BY <1>1 DEF RefsBalanced, Holds
<1> QED BY <1>3, <1>4, <1>5 DEF CountInv

\* The invariant, for one object: its references, and that they are numbers.
LEMMA Balance ==
  ASSUME CountInv, NEW x \in Object
  PROVE  /\ refs[x] = Holds(owned, x) + Holds(leased, x) + Places(queue, x) + Places(toAdd, x)
         /\ Holds(owned, x) \in 0..1 /\ Holds(leased, x) \in 0..1
         /\ Places(queue, x) \in Nat /\ Places(toAdd, x) \in Nat
<1>1. queue \in Seq(Object) /\ toAdd \in Seq(Object)
  BY DEF CountInv, TypeOK
<1>2. Places(queue, x) \in Nat /\ Places(toAdd, x) \in Nat
  BY <1>1, PlacesType
<1> QED BY <1>2 DEF CountInv, RefsBalanced, Holds

\* It holds in the next state if the references are those of the holders there.
LEMMA Balanced ==
  ASSUME TypeOK', TreeIsOwned',
         \A x \in Object :
           refs'[x] = Holds(owned', x) + Holds(leased', x) + Places(queue', x) + Places(toAdd', x)
  PROVE  CountInv'
BY DEF CountInv, RefsBalanced, Holds, Places

\* Attaching an object: each listener's place in the queue has a reference.
LEMMA CountAttach ==
  ASSUME CountInv, NEW o \in Object, NEW p \in Object, Attach(o, p)
  PROVE  CountInv'
<1> DEFINE n == Listeners(p)
           s == [i \in 1..n |-> o]
<1>1. n \in Nat
  BY DEF Listeners
<1>2. /\ parent' = [parent EXCEPT ![o] = p] /\ queue' = queue \o s
      /\ refs' = [refs EXCEPT ![o] = @ + n]
      /\ idle' = (idle \/ n > 0)
      /\ o \in owned \ {Root} /\ p \in owned
      /\ UNCHANGED <<owned, defunct, leased, reg, cached, toAdd, phase, active>>
  BY DEF Attach, traversalVars
<1> HIDE DEF n
<1>3. s \in Seq(Object) /\ \A x : Places(s, x) = IF o = x THEN n ELSE 0
  <2>1. s = [i \in 1..n |-> o]
    OBVIOUS
  <2> HIDE DEF s
  <2> QED BY <1>1, <2>1, PlacesConstant
<1> HIDE DEF s
<1>4. TypeOK
  BY DEF CountInv
<1>5. queue \in Seq(Object) /\ toAdd \in Seq(Object) /\ refs \in [Object -> Nat]
  BY <1>4 DEF TypeOK
<1>6. queue' \in Seq(Object) /\ \A x : Places(queue', x) = Places(queue, x) + Places(s, x)
  BY <1>2, <1>3, <1>5, PlacesConcat, ConcatProperties
<1>7. refs' \in [Object -> Nat]
  BY <1>1, <1>2, <1>5
<1>8. TypeOK'
  BY <1>2, <1>4, <1>6, <1>7 DEF TypeOK
<1>9. TreeIsOwned'
  BY <1>2, <1>4, RootAssumption DEF CountInv, TreeIsOwned, TypeOK
<1>10. ASSUME NEW x \in Object
       PROVE  refs'[x] = Holds(owned', x) + Holds(leased', x)
                           + Places(queue', x) + Places(toAdd', x)
  <2>1. refs'[x] = refs[x] + (IF o = x THEN n ELSE 0)
    BY <1>1, <1>2, <1>5
  <2>2. Places(queue', x) = Places(queue, x) + (IF o = x THEN n ELSE 0)
    BY <1>3, <1>6
  <2> QED BY <1>1, <1>2, <2>1, <2>2, Balance
<1> QED BY <1>8, <1>9, <1>10, Balanced

\* Detaching an object holds no reference.
LEMMA CountDetach ==
  ASSUME CountInv, NEW o \in Object, Detach(o)
  PROVE  CountInv'
<1>1. /\ parent' = [parent EXCEPT ![o] = NoObject]
      /\ UNCHANGED <<owned, defunct, refs, leased, reg, cached, queue, toAdd, phase,
                     idle, active>>
  BY DEF Detach, traversalVars
<1>2. TypeOK'
  BY <1>1 DEF CountInv, TypeOK
<1>3. TreeIsOwned'
  BY <1>1, RootAssumption DEF CountInv, TreeIsOwned, TypeOK
<1> QED BY <1>1, <1>2, <1>3, Balance, Balanced

\* The toolkit's reference goes: the object is in no tree.
LEMMA CountRelease ==
  ASSUME CountInv, NEW o \in Object, Release(o)
  PROVE  CountInv'
<1> DEFINE count == [refs EXCEPT ![o] = @ - 1]
<1>1. /\ o \in owned \ {Root} /\ parent[o] = NoObject /\ Children(o) = {}
      /\ owned' = owned \ {o} /\ Settle(count, reg, cached)
      /\ UNCHANGED <<parent, defunct, leased, queue, toAdd, phase, idle, active>>
  BY DEF Release, traversalVars
<1>2. TypeOK
  BY DEF CountInv
<1>3. refs' = count /\ reg' \in Registers /\ cached' \subseteq Object
  BY <1>1, <1>2, SettleType DEF TypeOK
<1>4. \A x \in Object : refs'[x] = refs[x] - (IF x = o THEN 1 ELSE 0)
  BY <1>2, <1>3 DEF TypeOK
<1>5. refs[o] > 0
  BY <1>1, Balance DEF Holds
<1>6. refs' \in [Object -> Nat]
  BY <1>2, <1>3, <1>5 DEF TypeOK
<1>7. TypeOK'
  BY <1>1, <1>2, <1>3, <1>6 DEF TypeOK
<1>8. TreeIsOwned'
  BY <1>1, RootAssumption DEF CountInv, TreeIsOwned, TypeOK, Children
<1>9. \A x \in Object : Holds(owned', x) = Holds(owned, x) - (IF x = o THEN 1 ELSE 0)
  BY <1>1 DEF Holds
<1> HIDE DEF count
<1>10. ASSUME NEW x \in Object
       PROVE  refs'[x] = Holds(owned', x) + Holds(leased', x)
                           + Places(queue', x) + Places(toAdd', x)
  <2>1. /\ Holds(leased', x) = Holds(leased, x)
        /\ Places(queue', x) = Places(queue, x) /\ Places(toAdd', x) = Places(toAdd, x)
    BY <1>1
  <2>2. /\ refs'[x] = refs[x] - (IF x = o THEN 1 ELSE 0)
        /\ Holds(owned', x) = Holds(owned, x) - (IF x = o THEN 1 ELSE 0)
    BY <1>4, <1>9
  <2> QED BY <2>1, <2>2, Balance
<1> QED BY <1>7, <1>8, <1>10, Balanced

\* An object is deregistered: the references are the leases' and the queue's.
LEMMA CountDeregister ==
  ASSUME CountInv, NEW o \in Object, NEW r \in Registers, NEW held \in SUBSET Object,
         leased \subseteq held, Deregister(o, r, held)
  PROVE  /\ reg' \in Registers /\ cached' \subseteq Object /\ leased' \subseteq Object
         /\ queue' \in Seq(Object) /\ refs' \in [Object -> Nat]
         /\ \A x \in Object :
              refs'[x] = Holds(owned, x) + Holds(leased', x)
                           + Places(queue', x) + Places(toAdd, x)
<1>1. TypeOK
  BY DEF CountInv
<1>2. cached \subseteq Object /\ refs \in [Object -> Nat] /\ queue \in Seq(Object)
  BY <1>1 DEF TypeOK
<1>3. CASE r.id[o] = 0
  <2>1. Settle(Taken(refs, held), r, cached) /\ leased' = held /\ queue' = queue
    BY <1>3 DEF Deregister
  <2>2. /\ refs' = Taken(refs, held) /\ reg' \in Registers /\ cached' \subseteq Object
    BY <1>2, <2>1, SettleType
  <2>3. /\ refs' \in [Object -> Nat]
        /\ \A x \in Object : refs'[x] + Holds(leased, x) = refs[x] + Holds(held, x)
    BY <1>2, <2>2, TakenType
  <2>4. ASSUME NEW x \in Object
        PROVE  refs'[x] = Holds(owned, x) + Holds(leased', x)
                            + Places(queue', x) + Places(toAdd, x)
    <3>1. Holds(held, x) \in Nat
      BY DEF Holds
    <3> QED BY <2>1, <2>3, <2>4, <3>1, Balance
  <2> QED BY <1>2, <2>1, <2>2, <2>3, <2>4
<1>4. CASE r.id[o] # 0
  <2> DEFINE without == [Deregistered(r, {o}) EXCEPT !.ptr[r.id[o]] = NoObject]
             sent == IF o \in cached THEN Leased(CacheAtRemoval(o), held, o) ELSE held
             waits == o \notin cached /\ Contains(queue, o)
             count == Taken(refs, sent)
             final == IF waits THEN Unqueued(count, o) ELSE count
  <2>1. /\ Settle(final, without, cached \ {o}) /\ leased' = sent
        /\ queue' = IF waits THEN RemoveFirst(queue, o) ELSE queue
    BY <1>4 DEF Deregister
  <2>2. sent \in SUBSET Object /\ leased \subseteq sent
    BY LeasedType
  <2> HIDE DEF sent
  <2>3. without \in Registers
    <3>1. Deregistered(r, {o}) \in Registers
      BY DeregisteredType
    <3> QED BY <3>1 DEF Registers
  <2> HIDE DEF without
  <2>4. /\ refs' = final /\ reg' \in Registers /\ cached' \subseteq Object
    <3> HIDE DEF final
    <3>1. cached \ {o} \in SUBSET Object
      BY <1>2
    <3> QED BY <2>1, <2>3, <3>1, SettleType
  <2>5. /\ count \in [Object -> Nat]
        /\ \A x \in Object : count[x] + Holds(leased, x) = refs[x] + Holds(sent, x)
    BY <1>2, <2>2, TakenType
  <2> HIDE DEF count
  <2>6. \A x \in Object : Holds(sent, x) \in Nat
    BY DEF Holds
  <2>7. ASSUME NEW x \in Object
        PROVE  count[x] = Holds(owned, x) + Holds(sent, x)
                            + Places(queue, x) + Places(toAdd, x)
    <3>1. /\ count[x] + Holds(leased, x) = refs[x] + Holds(sent, x)
          /\ count[x] \in Nat /\ Holds(sent, x) \in Nat
      BY <2>5, <2>6
    <3> QED BY <3>1, Balance
  <2>8. CASE ~waits
    <3>1. refs' = count /\ queue' = queue
      BY <2>1, <2>4, <2>8
    <3> QED BY <1>2, <2>1, <2>2, <2>4, <2>5, <2>7, <3>1
  <2>9. CASE waits
    <3>1. queue' = RemoveFirst(queue, o) /\ refs' = [count EXCEPT ![o] = @ - 1]
      BY <2>1, <2>4, <2>9 DEF Unqueued
    <3>2. Contains(queue, o)
      BY <2>9
    <3>3. queue' \in Seq(Object)
      BY <1>2, <3>1, <3>2, PlacesRemoveFirst
    <3>4. \A x : Places(queue, x) = Places(queue', x) + (IF o = x THEN 1 ELSE 0)
      BY <1>2, <3>1, <3>2, PlacesRemoveFirst
    <3>5. \A x : Places(queue', x) \in Nat
      BY <3>3, PlacesType
    <3>6. ASSUME NEW x \in Object
          PROVE  /\ refs'[x] = Holds(owned, x) + Holds(sent, x)
                                 + Places(queue', x) + Places(toAdd, x)
                 /\ refs'[x] \in Nat
      <4>1. refs'[x] = count[x] - (IF o = x THEN 1 ELSE 0)
        BY <2>5, <3>1
      <4> QED BY <2>6, <2>7, <3>4, <3>5, <4>1, Balance
    <3>7. refs' \in [Object -> Nat]
      BY <2>5, <3>1, <3>6
    <3> QED BY <2>1, <2>2, <2>4, <3>3, <3>6, <3>7
  <2> QED BY <2>8, <2>9
<1> QED BY <1>3, <1>4

\* An object becomes defunct.
LEMMA CountDefunct ==
  ASSUME CountInv, NEW o \in Object, Defunct(o)
  PROVE  CountInv'
<1>1. /\ defunct' = defunct \cup {o}
      /\ UNCHANGED <<parent, owned, toAdd, phase, idle, active>>
  BY DEF Defunct, traversalVars
<1>2. TypeOK
  BY DEF CountInv
<1>3. /\ reg' \in Registers /\ cached' \subseteq Object /\ leased' \subseteq Object
      /\ queue' \in Seq(Object) /\ refs' \in [Object -> Nat]
      /\ \A x \in Object :
           refs'[x] = Holds(owned, x) + Holds(leased', x)
                        + Places(queue', x) + Places(toAdd, x)
  <2>1. reg \in Registers /\ leased \in SUBSET Object
    BY <1>2 DEF TypeOK
  <2>2. CASE Deregister(o, reg, leased)
    BY <2>1, <2>2, CountDeregister
  <2>3. CASE Deregister(o, Registered(reg, o), Leased(cached, leased, o))
    <3>1. Registered(reg, o) \in Registers
      BY <2>1, RegisteredType
    <3>2. /\ Leased(cached, leased, o) \in SUBSET Object
          /\ leased \subseteq Leased(cached, leased, o)
      BY <2>1, LeasedType
    <3> QED BY <2>3, <3>1, <3>2, CountDeregister
  <2>4. CASE UNCHANGED <<refs, leased, reg, cached, queue>>
    BY <1>2, <2>4, Balance DEF TypeOK
  <2> QED BY <2>2, <2>3, <2>4 DEF Defunct
<1>4. TypeOK'
  BY <1>1, <1>2, <1>3 DEF TypeOK
<1>5. TreeIsOwned'
  BY <1>1 DEF CountInv, TreeIsOwned
<1> QED BY <1>1, <1>3, <1>4, <1>5, Balanced

\* A reference is sent, with a lease.
LEMMA CountSendReference ==
  ASSUME CountInv, NEW o \in Object, SendReference(o)
  PROVE  CountInv'
<1>1. /\ reg' = Registered(reg, o) /\ leased' = Leased(cached, leased, o)
      /\ refs' = Taken(refs, leased')
      /\ UNCHANGED <<parent, owned, defunct, cached, queue, toAdd, phase, idle, active>>
  BY DEF SendReference, traversalVars, toolkitVars
<1>2. TypeOK
  BY DEF CountInv
<1>3. reg' \in Registers
  BY <1>1, <1>2, RegisteredType DEF TypeOK
<1>4. leased' \in SUBSET Object /\ leased \subseteq leased'
  BY <1>1, <1>2, LeasedType DEF TypeOK
<1>5. /\ refs' \in [Object -> Nat]
      /\ \A x \in Object : refs'[x] + Holds(leased, x) = refs[x] + Holds(leased', x)
  <2> DEFINE held == Leased(cached, leased, o)
  <2>1. held \in SUBSET Object /\ leased \subseteq held /\ refs \in [Object -> Nat]
    BY <1>1, <1>2, <1>4 DEF TypeOK
  <2> HIDE DEF held
  <2>2. /\ Taken(refs, held) \in [Object -> Nat]
        /\ \A x \in Object :
             Taken(refs, held)[x] + Holds(leased, x) = refs[x] + Holds(held, x)
    BY <2>1, TakenType
  <2>3. leased' = held /\ refs' = Taken(refs, held)
    BY <1>1 DEF held
  <2> QED BY <2>2, <2>3
<1>6. TypeOK'
  BY <1>1, <1>2, <1>3, <1>4, <1>5 DEF TypeOK
<1>7. TreeIsOwned'
  BY <1>1 DEF CountInv, TreeIsOwned
<1>8. ASSUME NEW x \in Object
      PROVE  refs'[x] = Holds(owned', x) + Holds(leased', x)
                          + Places(queue', x) + Places(toAdd', x)
  <2>1. Holds(leased', x) \in Nat
    BY DEF Holds
  <2> QED BY <1>1, <1>5, <2>1, Balance
<1> QED BY <1>6, <1>7, <1>8, Balanced

\* A lease ends.
LEMMA CountLeaseEnds ==
  ASSUME CountInv, NEW o \in Object, LeaseEnds(o)
  PROVE  CountInv'
<1> DEFINE count == [refs EXCEPT ![o] = @ - 1]
<1>1. /\ o \in leased /\ leased' = leased \ {o} /\ Settle(count, reg, cached)
      /\ UNCHANGED <<parent, owned, defunct, queue, toAdd, phase, idle, active>>
  BY DEF LeaseEnds, traversalVars, toolkitVars
<1>2. TypeOK
  BY DEF CountInv
<1>3. refs' = count /\ reg' \in Registers /\ cached' \subseteq Object
  BY <1>1, <1>2, SettleType DEF TypeOK
<1>4. \A x \in Object : refs'[x] = refs[x] - (IF x = o THEN 1 ELSE 0)
  BY <1>2, <1>3 DEF TypeOK
<1>5. refs[o] > 0
  BY <1>1, Balance DEF Holds
<1>6. refs' \in [Object -> Nat]
  BY <1>2, <1>3, <1>5 DEF TypeOK
<1>7. TypeOK'
  BY <1>1, <1>2, <1>3, <1>6 DEF TypeOK
<1>8. TreeIsOwned'
  BY <1>1 DEF CountInv, TreeIsOwned
<1>9. \A x \in Object : Holds(leased', x) = Holds(leased, x) - (IF x = o THEN 1 ELSE 0)
  BY <1>1 DEF Holds
<1> HIDE DEF count
<1>10. ASSUME NEW x \in Object
       PROVE  refs'[x] = Holds(owned', x) + Holds(leased', x)
                           + Places(queue', x) + Places(toAdd', x)
  <2>1. /\ Holds(owned', x) = Holds(owned, x)
        /\ Places(queue', x) = Places(queue, x) /\ Places(toAdd', x) = Places(toAdd, x)
    BY <1>1
  <2>2. /\ refs'[x] = refs[x] - (IF x = o THEN 1 ELSE 0)
        /\ Holds(leased', x) = Holds(leased, x) - (IF x = o THEN 1 ELSE 0)
    BY <1>4, <1>9
  <2> QED BY <2>1, <2>2, Balance
<1> QED BY <1>7, <1>8, <1>10, Balanced

\* A turn of the first loop: the queue's reference is the traversal's, and the
\* children have one each.
LEMMA CountScan ==
  ASSUME CountInv, Scan
  PROVE  CountInv'
<1> DEFINE o == Head(queue)
           kids == IF ScansChildren(o) THEN Children(o) ELSE {}
<1>1. TypeOK
  BY DEF CountInv
<1>2. /\ queue \in Seq(Object) /\ toAdd \in Seq(Object) /\ refs \in [Object -> Nat]
      /\ queue # <<>>
  BY <1>1 DEF TypeOK, Scan
<1>3. o \in Object /\ Tail(queue) \in Seq(Object)
  BY <1>2, PlacesTail
<1>4. ASSUME NEW x \in Object
      PROVE  /\ Places(queue, x) = (IF o = x THEN 1 ELSE 0) + Places(Tail(queue), x)
             /\ Places(Tail(queue), x) \in Nat
  BY <1>2, <1>3, PlacesTail, PlacesType
<1>5. UNCHANGED <<parent, owned, defunct, leased, phase, idle, active>>
  BY DEF Scan, toolkitVars
<1>6. TreeIsOwned'
  BY <1>5 DEF CountInv, TreeIsOwned
<1>7. CASE o \in transient
  <2> DEFINE count == [refs EXCEPT ![o] = @ - 1]
  <2>1. queue' = Tail(queue) /\ Settle(count, reg, cached) /\ toAdd' = toAdd
    BY <1>7 DEF Scan
  <2>2. refs' = count /\ reg' \in Registers /\ cached' \subseteq Object
    BY <1>1, <2>1, SettleType DEF TypeOK
  <2>3. \A x \in Object : refs'[x] = refs[x] - (IF x = o THEN 1 ELSE 0)
    BY <1>2, <2>2
  <2>4. refs[o] > 0
    <3> HIDE DEF o
    <3>1. Places(queue, o) = 1 + Places(Tail(queue), o) /\ Places(Tail(queue), o) \in Nat
      BY <1>3, <1>4
    <3> QED BY <1>3, <3>1, Balance
  <2>5. refs' \in [Object -> Nat]
    BY <1>2, <1>3, <2>2, <2>4
  <2>6. TypeOK'
    BY <1>1, <1>3, <1>5, <2>1, <2>2, <2>5 DEF TypeOK
  <2> HIDE DEF count, o
  <2>7. ASSUME NEW x \in Object
        PROVE  refs'[x] = Holds(owned', x) + Holds(leased', x)
                            + Places(queue', x) + Places(toAdd', x)
    <3>1. /\ Holds(owned', x) = Holds(owned, x) /\ Holds(leased', x) = Holds(leased, x)
          /\ Places(toAdd', x) = Places(toAdd, x)
          /\ Places(queue', x) = Places(Tail(queue), x)
      BY <1>5, <2>1
    <3>2. refs'[x] = refs[x] - (IF x = o THEN 1 ELSE 0)
      BY <2>3
    <3> QED BY <3>1, <3>2, <1>4, Balance
  <2> QED BY <1>6, <2>6, <2>7, Balanced
<1>8. CASE o \notin transient
  <2>1. PICK s \in SetToSeqs(kids) : queue' = Tail(queue) \o s
    BY <1>8 DEF Scan
  <2>2. /\ toAdd' = Append(toAdd, o)
        /\ refs' = [c \in Object |-> IF c \in kids THEN refs[c] + 1 ELSE refs[c]]
        /\ UNCHANGED <<reg, cached>>
    BY <1>8 DEF Scan
  <2>3. kids \in SUBSET Object /\ IsFiniteSet(kids)
    <3>1. kids \in SUBSET Object
      BY DEF Children
    <3> QED BY <3>1, FiniteAssumption, FS_Subset
  <2> HIDE DEF kids, o
  <2>4. s \in Seq(Object) /\ \A x : Places(s, x) = IF x \in kids THEN 1 ELSE 0
    BY <2>3, PlacesOfSet
  <2>5. /\ queue' \in Seq(Object)
        /\ \A x : Places(queue', x) = Places(Tail(queue), x) + Places(s, x)
    BY <1>3, <2>1, <2>4, PlacesConcat, ConcatProperties
  <2>6. /\ toAdd' \in Seq(Object)
        /\ \A x : Places(toAdd', x) = Places(toAdd, x) + (IF o = x THEN 1 ELSE 0)
    BY <1>2, <1>3, <2>2, PlacesAppend
  <2>7. /\ refs' \in [Object -> Nat]
        /\ \A x \in Object : refs'[x] = refs[x] + (IF x \in kids THEN 1 ELSE 0)
    BY <1>2, <2>2
  <2>8. TypeOK'
    BY <1>1, <1>5, <2>2, <2>5, <2>6, <2>7 DEF TypeOK
  <2>9. ASSUME NEW x \in Object
        PROVE  refs'[x] = Holds(owned', x) + Holds(leased', x)
                            + Places(queue', x) + Places(toAdd', x)
    <3>1. Holds(owned', x) = Holds(owned, x) /\ Holds(leased', x) = Holds(leased, x)
      BY <1>5
    <3>2. /\ Places(queue', x) = Places(Tail(queue), x) + (IF x \in kids THEN 1 ELSE 0)
          /\ Places(toAdd', x) = Places(toAdd, x) + (IF o = x THEN 1 ELSE 0)
          /\ refs'[x] = refs[x] + (IF x \in kids THEN 1 ELSE 0)
      BY <2>4, <2>5, <2>6, <2>7
    <3> QED BY <3>1, <3>2, <1>4, Balance
  <2> QED BY <1>6, <2>8, <2>9, Balanced
<1> QED BY <1>7, <1>8

\* A turn of the second loop: the leases have their references, and that of the
\* traversal goes.
LEMMA CountAdd ==
  ASSUME CountInv, Add
  PROVE  CountInv'
<1> DEFINE o == Head(toAdd)
           in == cached \cup {o}
           named == IF o \in cached THEN {} ELSE {o, parent[o]} \ {NoObject}
           held == IF named = {} \/ parent[o] = NoObject THEN leased
                   ELSE Leased(in, leased, parent[o])
           own == IF named = {} THEN reg ELSE Registered(reg, o)
           both == IF named = {} \/ parent[o] = NoObject THEN own
                   ELSE Registered(own, parent[o])
           count == Taken(refs, held)
           final == [count EXCEPT ![o] = @ - 1]
<1>1. TypeOK
  BY DEF CountInv
<1>2. /\ queue \in Seq(Object) /\ toAdd \in Seq(Object) /\ refs \in [Object -> Nat]
      /\ toAdd # <<>> /\ reg \in Registers /\ cached \subseteq Object /\ leased \subseteq Object
  BY <1>1 DEF TypeOK, Add
<1>3. o \in Object /\ Tail(toAdd) \in Seq(Object)
  BY <1>2, PlacesTail
<1>4. ASSUME NEW x \in Object
      PROVE  /\ Places(toAdd, x) = (IF o = x THEN 1 ELSE 0) + Places(Tail(toAdd), x)
             /\ Places(Tail(toAdd), x) \in Nat
  BY <1>2, <1>3, PlacesTail, PlacesType
<1>5. /\ toAdd' = Tail(toAdd) /\ leased' = held /\ Settle(final, both, in)
      /\ UNCHANGED <<parent, owned, defunct, queue, phase, idle, active>>
  BY DEF Add, toolkitVars
<1>6. TreeIsOwned'
  BY <1>5 DEF CountInv, TreeIsOwned
<1>7. parent[o] # NoObject => parent[o] \in Object
  BY <1>1, <1>3 DEF TypeOK
<1> HIDE DEF o
<1>8. held \in SUBSET Object /\ leased \subseteq held
  BY <1>2, <1>7 DEF Leased
<1>9. both \in Registers
  <2>1. own \in Registers
    BY <1>2, <1>3, RegisteredType
  <2> HIDE DEF own
  <2> QED BY <1>7, <2>1, RegisteredType
<1>10. in \in SUBSET Object
  BY <1>2, <1>3
<1> HIDE DEF held, both, in
<1>11. /\ count \in [Object -> Nat]
       /\ \A x \in Object : count[x] + Holds(leased, x) = refs[x] + Holds(held, x)
  BY <1>2, <1>8, TakenType
<1> HIDE DEF count
<1>12. refs' = final /\ reg' \in Registers /\ cached' \subseteq Object
  <2> HIDE DEF final
  <2> QED BY <1>5, <1>9, <1>10, SettleType
<1>13. \A x \in Object : refs'[x] = count[x] - (IF x = o THEN 1 ELSE 0)
  BY <1>11, <1>12
<1>14. ASSUME NEW x \in Object
       PROVE  /\ refs'[x] = Holds(owned', x) + Holds(leased', x)
                              + Places(queue', x) + Places(toAdd', x)
              /\ refs'[x] \in Nat
  <2>1. /\ Holds(owned', x) = Holds(owned, x) /\ Holds(leased', x) = Holds(held, x)
        /\ Places(queue', x) = Places(queue, x)
        /\ Places(toAdd', x) = Places(Tail(toAdd), x)
    BY <1>5
  <2>2. Holds(held, x) \in Nat
    BY DEF Holds
  <2>3. /\ count[x] + Holds(leased, x) = refs[x] + Holds(held, x)
        /\ refs'[x] = count[x] - (IF x = o THEN 1 ELSE 0) /\ count[x] \in Nat
    BY <1>11, <1>13
  <2> QED BY <2>1, <2>2, <2>3, <1>4, Balance
<1>15. refs' \in [Object -> Nat]
  BY <1>11, <1>12, <1>14
<1>16. TypeOK'
  BY <1>1, <1>3, <1>5, <1>8, <1>12, <1>15 DEF TypeOK
<1> QED BY <1>6, <1>14, <1>16, Balanced

\* Every step keeps the invariant of the counts.
LEMMA CountNext == CountInv /\ [Next]_vars => CountInv'
<1> SUFFICES ASSUME CountInv, [Next]_vars PROVE CountInv'
  OBVIOUS
<1>1. ASSUME NEW o \in Object, NEW p \in Object, Attach(o, p) PROVE CountInv'
  BY <1>1, CountAttach
<1>2. ASSUME NEW o \in Object, Detach(o) PROVE CountInv'
  BY <1>2, CountDetach
<1>3. ASSUME NEW o \in Object, Release(o) PROVE CountInv'
  BY <1>3, CountRelease
<1>4. ASSUME NEW o \in Object, Defunct(o) PROVE CountInv'
  BY <1>4, CountDefunct
<1>5. ASSUME NEW o \in Object, SendReference(o) PROVE CountInv'
  BY <1>5, CountSendReference
<1>6. ASSUME NEW o \in Object, LeaseEnds(o) PROVE CountInv'
  BY <1>6, CountLeaseEnds
<1>7. ASSUME \/ Clients \/ Begin \/ EndScan \/ End \/ UNCHANGED vars
      PROVE  CountInv'
  <2>1. /\ UNCHANGED <<parent, owned, defunct, refs, leased, reg, cached, queue, toAdd>>
        /\ phase' \in {phase, "none", "scan", "add"} /\ idle' \in {idle, FALSE}
        /\ active' \in {active, ~active}
    BY <1>7 DEF Clients, Begin, EndScan, End, vars, toolkitVars, traversalVars
  <2>2. TypeOK'
    BY <2>1 DEF CountInv, TypeOK
  <2>3. TreeIsOwned'
    BY <2>1 DEF CountInv, TreeIsOwned
  <2> QED BY <2>1, <2>2, <2>3, Balance, Balanced
<1>8. ASSUME Scan PROVE CountInv'
  BY <1>8, CountScan
<1>9. ASSUME Add PROVE CountInv'
  BY <1>9, CountAdd
<1> QED BY <1>1, <1>2, <1>3, <1>4, <1>5, <1>6, <1>7, <1>8, <1>9 DEF Next, Traversal

\* The references to an object are those of the toolkit, its lease, the queue
\* and the traversal, and nobody else's: none is leaked and none dropped twice,
\* whatever the toolkit does in the calls of the traversal.
THEOREM ReferencesAreBalanced == Spec => []RefsBalanced
<1>1. CountInv => RefsBalanced
  BY DEF CountInv
<1> QED BY <1>1, CountInit, CountNext, PTL DEF Spec

-----------------------------------------------------------------------------
(* Paths lead to their objects *)

\* The ids suffice: there are fewer objects to be registered, which the root is
\* not, than there are ids.
IdsSuffice == Cardinality(Object) <= RefSize

\* A path that is asked for: a register that fits has an id left.
LEMMA RegisteredFits ==
  ASSUME IdsSuffice, NEW r \in Registers, NEW kept \in SUBSET Object,
         RegisterFits(r, kept), NEW o \in Object
  PROVE  RegisterFits(Registered(r, o), kept)
<1> DEFINE given == {x \in Object : r.id[x] # 0}
           others == Object \ {Root}
<1>1. CASE o = Root \/ r.id[o] # 0
  BY <1>1 DEF Registered
<1>2. CASE o # Root /\ r.id[o] = 0
  <2>1. /\ r.counter \in 0..(RefSize - 1) /\ RefSize \in Nat /\ RefSize > 1
        /\ r.id \in [Object -> 0..(RefSize - 1)] /\ r.weak \subseteq Object
        /\ r.ptr \in [Ref -> Object \cup {NoObject}]
    BY RefAssumption DEF Registers
  <2>2. IsFiniteSet(others) /\ Cardinality(others) = Cardinality(Object) - 1
    <3>1. Root \in Object
      BY RootAssumption
    <3> QED BY <3>1, FiniteAssumption, FS_RemoveElement
  <2>3. given \cup {o} \subseteq others
    BY <1>2 DEF RegisterFits
  <2>4. IsFiniteSet(given)
    BY FiniteAssumption, FS_Subset
  <2>5. IsFiniteSet(given \cup {o}) /\ Cardinality(given \cup {o}) = r.counter + 1
    <3>1. o \notin given /\ Cardinality(given) = r.counter
      BY <1>2 DEF RegisterFits
    <3> HIDE DEF given
    <3> QED BY <2>4, <3>1, FS_AddElement
  <2>6. r.counter + 1 < RefSize
    <3>1. Cardinality(given \cup {o}) <= Cardinality(others)
      BY <2>2, <2>3, FS_Subset
    <3>2. Cardinality(Object) \in Nat
      BY FiniteAssumption, FS_CardinalityType
    <3> QED BY <2>1, <2>2, <2>5, <3>1, <3>2 DEF IdsSuffice
  <2>7. NextRef(r) = r.counter + 1
    <3>1. (r.counter + 1) % RefSize # 0
      BY <2>1, <2>6
    <3> QED BY <3>1 DEF NextRef
  <2> DEFINE ref == r.counter + 1
             q == [counter |-> ref, id |-> [r.id EXCEPT ![o] = ref],
                   ptr |-> [r.ptr EXCEPT ![ref] = o], weak |-> r.weak \cup {o}]
  <2>8. Registered(r, o) = q
    BY <1>2, <2>7 DEF Registered
  <2>9. ref \in Ref /\ ref \in Nat
    BY <2>1, <2>6 DEF Ref
  <2>10. \A x \in Object : q.id[x] = IF x = o THEN ref ELSE r.id[x]
    BY <2>1
  <2>11. \A x \in Object : r.id[x] \in Nat /\ r.id[x] <= r.counter
    BY <2>1 DEF RegisterFits
  <2>12. q.id[Root] = 0
    BY <1>2, <2>10, RootAssumption DEF RegisterFits
  <2>13. \A x \in q.weak : q.id[x] # 0
    BY <2>1, <2>9, <2>10 DEF RegisterFits, Ref
  <2>14. ASSUME NEW x \in Object, q.id[x] # 0
         PROVE  q.ptr[q.id[x]] = IF x \in q.weak THEN x ELSE NoObject
    <3>1. CASE x = o
      BY <2>1, <2>9, <2>10, <3>1
    <3>2. CASE x # o
      <4>1. q.id[x] = r.id[x] /\ r.id[x] # ref /\ r.id[x] \in Ref
        BY <2>1, <2>9, <2>10, <2>11, <2>14, <3>2 DEF Ref
      <4>2. q.ptr[q.id[x]] = r.ptr[r.id[x]]
        BY <2>1, <4>1
      <4> QED BY <2>14, <3>2, <4>1, <4>2 DEF RegisterFits
    <3> QED BY <3>1, <3>2
  <2>15. \A x \in kept : q.id[x] # 0 => x \in q.weak
    BY <2>10 DEF RegisterFits
  <2>16. ASSUME NEW x \in Object, NEW y \in Object, q.id[x] # 0, q.id[x] = q.id[y]
         PROVE  x = y
    <3>1. CASE x = o \/ y = o
      BY <2>9, <2>10, <2>11, <2>16, <2>1, <3>1
    <3>2. CASE x # o /\ y # o
      BY <2>10, <2>16, <3>2 DEF RegisterFits
    <3> QED BY <3>1, <3>2
  <2>17. \A x \in Object : q.id[x] <= q.counter
    BY <2>1, <2>9, <2>10, <2>11
  <2>18. Cardinality({x \in Object : q.id[x] # 0}) = q.counter
    <3>1. {x \in Object : q.id[x] # 0} = given \cup {o}
      BY <2>9, <2>10 DEF Ref
    <3> QED BY <2>5, <3>1
  <2> HIDE DEF q
  <2>19. RegisterFits(q, kept)
    BY <2>12, <2>13, <2>14, <2>15, <2>16, <2>17, <2>18 DEF RegisterFits
  <2> QED BY <2>8, <2>19
<1> QED BY <1>1, <1>2

\* Paths that are dropped: the register fits what is kept.
LEMMA DeregisteredFits ==
  ASSUME NEW r \in Registers, NEW kept \in SUBSET Object, RegisterFits(r, kept),
         NEW gone, NEW less \in SUBSET (kept \ gone)
  PROVE  RegisterFits(Deregistered(r, gone), less)
<1> DEFINE q == Deregistered(r, gone)
<1>1. /\ q.id = r.id /\ q.counter = r.counter /\ q.weak = r.weak \ gone
      /\ q.ptr = [x \in Ref |-> IF \E o \in gone \cap r.weak : r.id[o] = x
                                THEN NoObject ELSE r.ptr[x]]
  BY DeregisteredType
<1>2. r.id \in [Object -> 0..(RefSize - 1)] /\ r.weak \subseteq Object
  BY DEF Registers
<1> HIDE DEF q
<1>3. ASSUME NEW o \in Object, r.id[o] # 0
      PROVE  q.ptr[r.id[o]] = IF o \in q.weak THEN o ELSE NoObject
  <2>1. r.id[o] \in Ref
    BY <1>2, <1>3, RefAssumption DEF Ref
  <2>2. r.ptr[r.id[o]] = IF o \in r.weak THEN o ELSE NoObject
    BY <1>3 DEF RegisterFits
  <2>3. (\E p \in gone \cap r.weak : r.id[p] = r.id[o]) <=> o \in gone \cap r.weak
    BY <1>2, <1>3 DEF RegisterFits
  <2> QED BY <1>1, <2>1, <2>2, <2>3
<1>4. \A o \in q.weak : q.id[o] # 0
  BY <1>1 DEF RegisterFits
<1>5. \A o \in less : q.id[o] # 0 => o \in q.weak
  BY <1>1 DEF RegisterFits
<1>6. RegisterFits(q, less)
  BY <1>1, <1>3, <1>4, <1>5 DEF RegisterFits
<1> QED BY <1>6 DEF q

\* Settling with a register that fits, when no finalized object comes to life.
LEMMA SettleFits ==
  ASSUME NEW count \in [Object -> Nat], NEW r \in Registers, NEW in \in SUBSET Object,
         Settle(count, r, in), NEW kept \in SUBSET Object, RegisterFits(r, kept),
         {x \in Object : count[x] > 0} \ defunct' \subseteq kept
  PROVE  RegisterInv'
<1> DEFINE gone == {x \in Object : count[x] = 0}
<1>1. refs' = count /\ reg' = Deregistered(r, gone) /\ cached' = in \ gone
  BY DEF Settle, WithoutGone
<1>2. Live' = {x \in Object : count[x] > 0}
  BY <1>1 DEF Live, Alive
<1>3. (Live \ defunct)' \in SUBSET (kept \ gone)
  BY <1>2
<1>4. RegisterFits(reg', (Live \ defunct)')
  BY <1>1, <1>3, DeregisteredFits
<1>5. reg'.weak = r.weak \ gone /\ r.weak \subseteq Object
  BY <1>1, DeregisteredType DEF Registers
<1>6. reg'.weak \subseteq Live' /\ cached' \subseteq Live'
  BY <1>1, <1>2, <1>5
<1> QED BY <1>4, <1>6 DEF RegisterInv, RegisterFits

\* The register in the beginning.
LEMMA RegisterInit == Init => RegisterInv
<1> SUFFICES ASSUME Init PROVE RegisterInv
  OBVIOUS
<1>1. /\ reg.counter = 0 /\ reg.weak = {} /\ \A o \in Object : reg.id[o] = 0
      /\ \A o \in Object : refs[o] = 1
      /\ cached = {Root}
  BY DEF Init
<1>2. {o \in Object : reg.id[o] # 0} = {}
  BY <1>1
<1>3. Cardinality({o \in Object : reg.id[o] # 0}) = 0
  BY <1>2, FS_EmptySet
<1>4. RegisterFits(reg, Live \ defunct)
  BY <1>1, <1>3, RootAssumption DEF RegisterFits, Live
<1> QED BY <1>1, <1>4, RootAssumption DEF RegisterInv, Live, Alive

\* The objects with references: the toolkit's, the leased, the waiting.
LEMMA LiveObjects ==
  ASSUME CountInv
  PROVE  /\ owned \subseteq Live /\ leased \subseteq Live
         /\ \A o \in Object : Places(queue, o) > 0 \/ Places(toAdd, o) > 0 => o \in Live
<1>1. TypeOK
  BY DEF CountInv
<1>2. ASSUME NEW o \in owned PROVE refs[o] > 0
  <2>1. o \in Object /\ Holds(owned, o) = 1
    BY <1>1 DEF Holds, TypeOK
  <2> QED BY <2>1, Balance
<1>3. ASSUME NEW o \in leased PROVE refs[o] > 0
  <2>1. o \in Object /\ Holds(leased, o) = 1
    BY <1>1 DEF Holds, TypeOK
  <2> QED BY <2>1, Balance
<1>4. \A o \in Object : Places(queue, o) > 0 \/ Places(toAdd, o) > 0 => refs[o] > 0
  BY Balance
<1> QED BY <1>1, <1>2, <1>3, <1>4 DEF Live, Alive, TypeOK

\* Nothing is finalized, and the register and the cache stay.
LEMMA RegisterStays ==
  ASSUME CountInv, RegisterInv, reg' = reg, cached' = cached, defunct' = defunct, Live' = Live
  PROVE  RegisterInv'
BY DEF RegisterInv, RegisterFits

\* Deregistering an object that lives, with leases for objects that live.
LEMMA RegisterDeregister ==
  ASSUME CountInv, NEW o \in Object, NEW r \in Registers, NEW held \in SUBSET Live,
         leased \subseteq held, o \in Live, RegisterFits(r, Live \ defunct),
         defunct' = defunct \cup {o}, Deregister(o, r, held)
  PROVE  RegisterInv'
<1> DEFINE kept == Live \ defunct'
<1>1. /\ cached \in SUBSET Object /\ refs \in [Object -> Nat] /\ queue \in Seq(Object)
      /\ Live \in SUBSET Object /\ leased \in SUBSET Object
      /\ Live = {x \in Object : refs[x] > 0}
  BY DEF CountInv, TypeOK, Live, Alive
<1>2. kept \in SUBSET (Live \ defunct)
  BY <1>1
<1>3. CASE r.id[o] = 0
  <2>1. Settle(Taken(refs, held), r, cached)
    BY <1>3 DEF Deregister
  <2>2. held \in SUBSET Object
    BY <1>1
  <2>3. /\ Taken(refs, held) \in [Object -> Nat]
        /\ \A x \in Object : Taken(refs, held)[x] > 0 => x \in Live
    BY <1>1, <2>2, TakenType DEF Taken
  <2>4. Live \ defunct \in SUBSET Object
    BY <1>1
  <2>5. {x \in Object : Taken(refs, held)[x] > 0} \ defunct' \subseteq Live \ defunct
    BY <2>3
  <2> QED BY <1>1, <2>1, <2>3, <2>4, <2>5, SettleFits
<1>4. CASE r.id[o] # 0
  <2> DEFINE q == Deregistered(r, {o})
             without == [q EXCEPT !.ptr[r.id[o]] = NoObject]
             sent == IF o \in cached THEN Leased(CacheAtRemoval(o), held, o) ELSE held
             waits == o \notin cached /\ Contains(queue, o)
             count == Taken(refs, sent)
             final == IF waits THEN Unqueued(count, o) ELSE count
  <2>1. Settle(final, without, cached \ {o})
    BY <1>4 DEF Deregister
  <2>2. sent \in SUBSET Live /\ leased \subseteq sent
    BY DEF Leased
  <2> HIDE DEF sent
  <2>3. q \in Registers /\ q.id = r.id /\ o \notin q.weak
    <3>1. /\ q \in Registers /\ q.id = r.id /\ q.weak = r.weak \ {o}
      BY DeregisteredType
    <3> HIDE DEF q
    <3> QED BY <3>1
  <2>4. RegisterFits(q, kept)
    <3>1. kept \in SUBSET ((Live \ defunct) \ {o})
      BY <1>2
    <3> QED BY <1>1, <3>1, DeregisteredFits
  <2> HIDE DEF q
  <2>5. /\ without \in Registers /\ without.id = q.id /\ without.weak = q.weak
        /\ without.counter = q.counter
        /\ \A x \in Ref : without.ptr[x] = IF x = r.id[o] THEN NoObject ELSE q.ptr[x]
    BY <2>3 DEF Registers
  <2>6. RegisterFits(without, kept)
    <3>1. ASSUME NEW x \in Object, q.id[x] # 0
          PROVE  without.ptr[q.id[x]] = IF x \in q.weak THEN x ELSE NoObject
      <4>1. q.id[x] \in Ref
        BY <2>3, <3>1, RefAssumption DEF Registers, Ref
      <4>2. q.ptr[q.id[x]] = IF x \in q.weak THEN x ELSE NoObject
        BY <2>4, <3>1 DEF RegisterFits
      <4>3. q.id[x] = r.id[o] => x = o
        BY <2>3, <2>4, <3>1 DEF RegisterFits
      <4> QED BY <2>3, <2>5, <4>1, <4>2, <4>3
    <3> HIDE DEF without
    <3> QED BY <2>4, <2>5, <3>1 DEF RegisterFits
  <2>7. /\ count \in [Object -> Nat]
        /\ \A x \in Object : count[x] > 0 => x \in Live
    BY <1>1, <2>2, TakenType DEF Taken
  <2>8. final \in [Object -> Nat] /\ \A x \in Object : final[x] > 0 => x \in Live
    <3>1. CASE ~waits
      BY <2>7, <3>1
    <3>2. CASE waits
      <4>1. Places(queue, o) > 0
        BY <1>1, <3>2, PlacesContains
      <4>2. refs[o] > 0
        BY <4>1, Balance
      <4>3. count[o] >= refs[o]
        BY <1>1, <2>2, TakenType DEF Taken
      <4> HIDE DEF count
      <4>4. final = [count EXCEPT ![o] = @ - 1]
        BY <3>2 DEF Unqueued
      <4>5. count[o] - 1 \in Nat
        BY <1>1, <2>7, <4>2, <4>3
      <4> QED BY <2>7, <4>4, <4>5
    <3> QED BY <3>1, <3>2
  <2> HIDE DEF final, without
  <2>9. kept \in SUBSET Object /\ cached \ {o} \in SUBSET Object
    BY <1>1
  <2>10. {x \in Object : final[x] > 0} \ defunct' \subseteq kept
    BY <2>8
  <2> QED BY <2>1, <2>5, <2>6, <2>8, <2>9, <2>10, SettleFits
<1> QED BY <1>3, <1>4

\* An object becomes defunct.
LEMMA RegisterDefunct ==
  ASSUME IdsSuffice, CountInv, RegisterInv, NEW o \in Object, Defunct(o)
  PROVE  RegisterInv'
<1>1. defunct' = defunct \cup {o} /\ o \in owned
  BY DEF Defunct
<1>2. /\ reg \in Registers /\ RegisterFits(reg, Live \ defunct) /\ leased \subseteq Live
      /\ o \in Live /\ Live \in SUBSET Object
  BY <1>1, LiveObjects DEF CountInv, TypeOK, RegisterInv, Live
<1>3. CASE Deregister(o, reg, leased)
  BY <1>1, <1>2, <1>3, RegisterDeregister
<1>4. CASE Deregister(o, Registered(reg, o), Leased(cached, leased, o))
  <2>1. Registered(reg, o) \in Registers
    BY <1>2, RegisteredType
  <2>2. RegisterFits(Registered(reg, o), Live \ defunct)
    <3>1. Live \ defunct \in SUBSET Object
      BY <1>2
    <3> QED BY <1>2, <3>1, RegisteredFits
  <2>3. /\ Leased(cached, leased, o) \in SUBSET Live
        /\ leased \subseteq Leased(cached, leased, o)
    BY <1>2 DEF Leased
  <2> QED BY <1>1, <1>2, <1>4, <2>1, <2>2, <2>3, RegisterDeregister
<1>5. CASE UNCHANGED <<refs, leased, reg, cached, queue>>
  <2>1. Live' = Live
    BY <1>5 DEF Live, Alive
  <2>2. RegisterFits(reg, Live \ defunct')
    BY <1>1, <1>2 DEF RegisterFits
  <2> QED BY <1>5, <2>1, <2>2 DEF RegisterInv, RegisterFits
<1> QED BY <1>3, <1>4, <1>5 DEF Defunct

\* A reference is sent: its object has a path then.
LEMMA RegisterSendReference ==
  ASSUME IdsSuffice, CountInv, RegisterInv, NEW o \in Object, SendReference(o)
  PROVE  RegisterInv'
<1>1. /\ reg' = Registered(reg, o) /\ leased' = Leased(cached, leased, o)
      /\ refs' = Taken(refs, leased') /\ cached' = cached /\ defunct' = defunct
      /\ Alive(o)
  BY DEF SendReference, toolkitVars
<1>2. reg \in Registers /\ refs \in [Object -> Nat]
  BY DEF CountInv, TypeOK
<1>3. Live' = Live
  BY <1>1, <1>2 DEF Live, Alive, Taken, Leased
<1>4. RegisterFits(reg', Live \ defunct)
  <2>1. Live \ defunct \in SUBSET Object /\ RegisterFits(reg, Live \ defunct)
    BY DEF Live, RegisterInv
  <2> QED BY <1>1, <1>2, <2>1, RegisteredFits
<1>5. reg'.weak \subseteq Live
  BY <1>1, <1>2 DEF Registered, RegisterInv, Live
<1> QED BY <1>1, <1>3, <1>4, <1>5 DEF RegisterInv, RegisterFits

\* References go, and with the last one the object's path.
LEMMA RegisterSettle ==
  ASSUME CountInv, RegisterInv, NEW o \in Object, refs[o] > 0,
         Settle([refs EXCEPT ![o] = @ - 1], reg, cached), defunct' = defunct
  PROVE  RegisterInv'
<1> DEFINE count == [refs EXCEPT ![o] = @ - 1]
<1>1. /\ reg \in Registers /\ refs \in [Object -> Nat] /\ cached \in SUBSET Object
      /\ Live \ defunct \in SUBSET Object /\ RegisterFits(reg, Live \ defunct)
  BY DEF CountInv, TypeOK, Live, RegisterInv
<1>2. count \in [Object -> Nat] /\ \A x \in Object : count[x] > 0 => x \in Live
  BY <1>1 DEF Live, Alive
<1>3. Settle(count, reg, cached)
  OBVIOUS
<1> HIDE DEF count
<1>4. {x \in Object : count[x] > 0} \ defunct' \subseteq Live \ defunct
  BY <1>2
<1> QED BY <1>1, <1>2, <1>3, <1>4, SettleFits

\* A turn of the first loop.
LEMMA RegisterScan ==
  ASSUME CountInv, RegisterInv, Scan
  PROVE  RegisterInv'
<1> DEFINE o == Head(queue)
           kids == IF ScansChildren(o) THEN Children(o) ELSE {}
<1>1. /\ queue \in Seq(Object) /\ queue # <<>> /\ refs \in [Object -> Nat]
      /\ defunct' = defunct
  BY DEF CountInv, TypeOK, Scan, toolkitVars
<1>2. o \in Object /\ refs[o] > 0
  <2>1. o \in Object
    BY <1>1, PlacesTail
  <2>2. Tail(queue) \in Seq(Object)
    BY <1>1, PlacesTail
  <2>3. Places(queue, o) = 1 + Places(Tail(queue), o) /\ Places(Tail(queue), o) \in Nat
    <3> HIDE DEF o
    <3>1. Places(queue, o) = (IF Head(queue) = o THEN 1 ELSE 0) + Places(Tail(queue), o)
      BY <1>1, PlacesTail
    <3> QED BY <2>2, <3>1, PlacesType DEF o
  <2> QED BY <2>1, <2>3, Balance
<1>3. CASE o \in transient
  <2>1. Settle([refs EXCEPT ![o] = @ - 1], reg, cached)
    BY <1>3 DEF Scan
  <2> HIDE DEF o
  <2> QED BY <1>1, <1>2, <2>1, RegisterSettle
<1>4. CASE o \notin transient
  <2>1. /\ refs' = [c \in Object |-> IF c \in kids THEN refs[c] + 1 ELSE refs[c]]
        /\ reg' = reg /\ cached' = cached
    BY <1>4 DEF Scan
  <2>2. kids \subseteq Live
    <3>1. \A c \in Children(o) : c \in owned
      BY <1>2, RootAssumption DEF Children, CountInv, TreeIsOwned
    <3> QED BY <3>1, LiveObjects
  <2> HIDE DEF kids
  <2>3. Live' = Live
    BY <1>1, <2>1, <2>2 DEF Live, Alive
  <2> QED BY <1>1, <2>1, <2>3, RegisterStays
<1> QED BY <1>3, <1>4

\* A turn of the second loop: the new object and its parent have paths then.
LEMMA RegisterAdd ==
  ASSUME IdsSuffice, CountInv, RegisterInv, Add
  PROVE  RegisterInv'
<1> DEFINE o == Head(toAdd)
           in == cached \cup {o}
           named == IF o \in cached THEN {} ELSE {o, parent[o]} \ {NoObject}
           held == IF named = {} \/ parent[o] = NoObject THEN leased
                   ELSE Leased(in, leased, parent[o])
           own == IF named = {} THEN reg ELSE Registered(reg, o)
           both == IF named = {} \/ parent[o] = NoObject THEN own
                   ELSE Registered(own, parent[o])
           count == Taken(refs, held)
           final == [count EXCEPT ![o] = @ - 1]
<1>1. /\ toAdd \in Seq(Object) /\ toAdd # <<>> /\ refs \in [Object -> Nat]
      /\ reg \in Registers /\ cached \in SUBSET Object /\ leased \in SUBSET Object
      /\ Settle(final, both, in) /\ defunct' = defunct
      /\ Live \in SUBSET Object /\ RegisterFits(reg, Live \ defunct)
      /\ Live = {x \in Object : refs[x] > 0}
  BY DEF CountInv, TypeOK, Add, toolkitVars, Live, Alive, RegisterInv
<1>2. o \in Object /\ refs[o] > 0
  <2>1. o \in Object /\ Tail(toAdd) \in Seq(Object)
    BY <1>1, PlacesTail
  <2>2. Places(toAdd, o) = 1 + Places(Tail(toAdd), o) /\ Places(Tail(toAdd), o) \in Nat
    <3> HIDE DEF o
    <3>1. Places(toAdd, o) = (IF Head(toAdd) = o THEN 1 ELSE 0) + Places(Tail(toAdd), o)
      BY <1>1, PlacesTail
    <3> QED BY <2>1, <3>1, PlacesType DEF o
  <2> QED BY <2>1, <2>2, Balance, SMTT(40)
<1> HIDE DEF o
<1>3. parent[o] # NoObject => parent[o] \in Object /\ parent[o] \in Live
  <2>1. parent[o] # NoObject => parent[o] \in owned
    BY <1>2 DEF CountInv, TreeIsOwned
  <2> QED BY <1>1, <2>1, LiveObjects
<1>4. held \in SUBSET Live /\ leased \subseteq held
  BY <1>3, LiveObjects DEF Leased
<1>5. Live \ defunct \in SUBSET Object
  BY <1>1
<1>6. both \in Registers /\ RegisterFits(both, Live \ defunct)
  <2>1. own \in Registers /\ RegisterFits(own, Live \ defunct)
    BY <1>1, <1>2, <1>5, RegisteredType, RegisteredFits
  <2> HIDE DEF own
  <2> QED BY <1>3, <1>5, <2>1, RegisteredType, RegisteredFits
<1>7. in \in SUBSET Object
  BY <1>1, <1>2
<1> HIDE DEF both, held, in
<1>8. /\ count \in [Object -> Nat] /\ count[o] > 0
      /\ \A x \in Object : count[x] > 0 => x \in Live
  BY <1>1, <1>2, <1>4 DEF Taken
<1> HIDE DEF count
<1>9. final \in [Object -> Nat] /\ \A x \in Object : final[x] > 0 => x \in Live
  BY <1>2, <1>8
<1> HIDE DEF final
<1>10. {x \in Object : final[x] > 0} \ defunct' \subseteq Live \ defunct
  BY <1>1, <1>9
<1> QED BY <1>1, <1>5, <1>6, <1>7, <1>9, <1>10, SettleFits

\* Every step keeps a register that fits.
LEMMA RegisterNext ==
  ASSUME IdsSuffice, CountInv, RegisterInv, [Next]_vars
  PROVE  RegisterInv'
<1>1. ASSUME NEW o \in Object, NEW p \in Object, Attach(o, p) PROVE RegisterInv'
  <2>1. /\ refs' = [refs EXCEPT ![o] = @ + Listeners(p)] /\ o \in owned
        /\ reg' = reg /\ cached' = cached /\ defunct' = defunct
    BY <1>1 DEF Attach
  <2>2. Listeners(p) \in Nat
    BY DEF Listeners
  <2>3. o \in Live /\ refs \in [Object -> Nat]
    BY <2>1, LiveObjects DEF CountInv, TypeOK
  <2>4. Live' = Live
    BY <2>1, <2>2, <2>3 DEF Live, Alive
  <2> QED BY <2>1, <2>4, RegisterStays
<1>2. ASSUME NEW o \in Object, Detach(o) PROVE RegisterInv'
  <2>1. reg' = reg /\ cached' = cached /\ defunct' = defunct /\ refs' = refs
    BY <1>2 DEF Detach
  <2> QED BY <2>1, RegisterStays DEF Live, Alive
<1>3. ASSUME NEW o \in Object, Release(o) PROVE RegisterInv'
  <2>1. /\ o \in owned /\ defunct' = defunct
        /\ Settle([refs EXCEPT ![o] = @ - 1], reg, cached)
    BY <1>3 DEF Release
  <2>2. refs[o] > 0
    BY <2>1, LiveObjects DEF Live, Alive
  <2> QED BY <2>1, <2>2, RegisterSettle
<1>4. ASSUME NEW o \in Object, Defunct(o) PROVE RegisterInv'
  BY <1>4, RegisterDefunct
<1>5. ASSUME NEW o \in Object, SendReference(o) PROVE RegisterInv'
  BY <1>5, RegisterSendReference
<1>6. ASSUME NEW o \in Object, LeaseEnds(o) PROVE RegisterInv'
  <2>1. /\ o \in leased /\ defunct' = defunct
        /\ Settle([refs EXCEPT ![o] = @ - 1], reg, cached)
    BY <1>6 DEF LeaseEnds, toolkitVars
  <2>2. refs[o] > 0
    BY <2>1, LiveObjects DEF Live, Alive
  <2> QED BY <2>1, <2>2, RegisterSettle
<1>7. ASSUME \/ Clients \/ Begin \/ EndScan \/ End \/ UNCHANGED vars
      PROVE  RegisterInv'
  <2>1. reg' = reg /\ cached' = cached /\ defunct' = defunct /\ refs' = refs
    BY <1>7 DEF Clients, Begin, EndScan, End, vars, toolkitVars
  <2> QED BY <2>1, RegisterStays DEF Live, Alive
<1>8. ASSUME Scan PROVE RegisterInv'
  BY <1>8, RegisterScan
<1>9. ASSUME Add PROVE RegisterInv'
  BY <1>9, RegisterAdd
<1> QED BY <1>1, <1>2, <1>3, <1>4, <1>5, <1>6, <1>7, <1>8, <1>9 DEF Next, Traversal

\* As long as the ids suffice a path leads to the object it was given for or
\* nowhere: to it while it lives and is not defunct, nowhere once it is finalized,
\* and what is finalized is not in the cache.
THEOREM PathsLeadToTheirObjects ==
  ASSUME IdsSuffice
  PROVE  Spec => []PathsLeadHome
<1>1. ASSUME CountInv, RegisterInv PROVE PathsLeadHome
  <2> SUFFICES ASSUME NEW o \in Object
               PROVE  /\ Resolve(o) \in {o, NoObject}
                      /\ Alive(o) /\ o \notin defunct /\ reg.id[o] # 0 => Resolve(o) = o
                      /\ ~Alive(o) => Resolve(o) = NoObject /\ o \notin cached
    BY DEF PathsLeadHome
  <2>1. Root \in Live
    BY <1>1, LiveObjects DEF CountInv, TreeIsOwned
  <2> QED BY <1>1, <2>1 DEF RegisterInv, RegisterFits, Resolve, Live
<1>2. IdsSuffice /\ CountInv /\ RegisterInv /\ [Next]_vars => RegisterInv'
  BY RegisterNext
<1>3. CountInv /\ RegisterInv => PathsLeadHome
  BY <1>1
<1> QED BY <1>2, <1>3, CountInit, CountNext, RegisterInit, PTL DEF Spec

-----------------------------------------------------------------------------
(* The cache gets the tree *)

\* The tree in the beginning: nothing but the root.
LEMMA TreeInit == Init => TreeInv
<1> SUFFICES ASSUME Init PROVE TreeInv
  OBVIOUS
<1>1. /\ toAdd = <<>> /\ queue = <<>> /\ phase = "none" /\ cached = {Root}
      /\ parent = [o \in Object |-> NoObject]
  BY DEF Init
<1>2. Reached = {Root}
  BY <1>1, PlacesEmpty, RootAssumption DEF Reached
<1>3. \A o \in Object : parent[o] \notin Reached
  BY <1>1, <1>2, RootAssumption
<1> QED BY <1>1, <1>3 DEF TreeInv

\* The traversal after a step that changes no parent and lets no more objects
\* belong to the cache, if what it had reached or waited for and is still wanted
\* is there.
LEMMA TreeStays ==
  ASSUME CountInv, CountInv', TreeInv, parent' = parent, transient' = transient, leaves' = leaves,
         defunct \subseteq defunct',
         phase' = "none" => toAdd' = <<>>,
         phase' = "add" => queue' = <<>>,
         phase' # "none" \/ queue' # <<>> => idle',
         Reached' \subseteq Reached,
         \A o \in Object : /\ o \in Reached \cup Waiting
                           /\ o \in owned' \ (transient \cup defunct')
                           /\ parent[o] # NoObject /\ parent[o] \notin defunct'
                           => o \in Reached' \cup Waiting'
  PROVE  TreeInv'
<1> SUFFICES ASSUME NEW o \in Object, parent'[o] \in Reached' \ (leaves' \cup defunct'),
                    o \notin transient' \cup defunct'
             PROVE  o \in Reached' \cup Waiting'
  BY DEF TreeInv
<1>1. parent[o] \in Reached \ (leaves \cup defunct) /\ o \notin transient \cup defunct
  OBVIOUS
<1>2. o \in Reached \cup Waiting
  BY <1>1 DEF TreeInv
<1>3. parent[o] \in Object
  BY <1>1 DEF CountInv, TypeOK, Reached
<1>4. o \in owned' /\ parent[o] # NoObject
  BY <1>3, RootAssumption DEF CountInv, TreeIsOwned
<1> QED BY <1>2, <1>4

\* Attaching, between traversals: a cached parent's new child waits.
LEMMA TreeAttach ==
  ASSUME "attach" \notin Within, CountInv, TreeInv,
         NEW o \in Object, NEW p \in Object, Attach(o, p)
  PROVE  TreeInv'
<1> DEFINE n == Listeners(p)
           s == [i \in 1..n |-> o]
<1>1. /\ phase = "none" /\ parent' = [parent EXCEPT ![o] = p] /\ queue' = queue \o s
      /\ idle' = (idle \/ n > 0)
      /\ UNCHANGED <<defunct, transient, leaves, cached, toAdd, phase>>
  BY DEF Attach, May, traversalVars, states
<1>2. n \in Nat /\ (p \in cached => n > 0)
  BY DEF Listeners
<1>3. s = [i \in 1..n |-> o]
  OBVIOUS
<1> HIDE DEF n, s
<1>4. s \in Seq(Object) /\ \A x : Places(s, x) = IF o = x THEN n ELSE 0
  BY <1>2, <1>3, PlacesConstant
<1>5. queue \in Seq(Object) /\ parent \in [Object -> Object \cup {NoObject}]
  BY DEF CountInv, TypeOK
<1>6. \A x : Places(queue', x) = Places(queue, x) + Places(s, x)
  BY <1>1, <1>4, <1>5, PlacesConcat
<1>7. \A x : Places(queue, x) \in Nat
  BY <1>5, PlacesType
<1>8. Reached' = Reached /\ Reached = cached
  <2>1. toAdd = <<>> /\ \A x : Places(toAdd, x) = 0
    BY <1>1, PlacesEmpty DEF TreeInv
  <2>2. toAdd' = toAdd /\ cached' = cached
    BY <1>1
  <2> QED BY <2>1, <2>2 DEF Reached
<1>9. \A x \in Waiting : x \in Waiting'
  BY <1>2, <1>4, <1>6, <1>7 DEF Waiting
<1>10. p \in cached => o \in Waiting'
  BY <1>2, <1>4, <1>6, <1>7 DEF Waiting
<1>11. queue' # <<>> => idle'
  <2>1. CASE n > 0
    BY <1>1, <2>1
  <2>2. CASE n = 0
    <3>1. s = <<>>
      BY <1>3, <2>2
    <3>2. queue' = queue
      BY <1>1, <1>5, <3>1
    <3> QED BY <1>1, <3>2 DEF TreeInv
  <2> QED BY <1>2, <2>1, <2>2
<1>12. ASSUME NEW x \in Object, parent'[x] \in Reached' \ (leaves' \cup defunct'),
              x \notin transient' \cup defunct'
       PROVE  x \in Reached' \cup Waiting'
  <2>1. CASE x = o
    BY <1>1, <1>5, <1>8, <1>10, <1>12, <2>1
  <2>2. CASE x # o
    <3>1. parent'[x] = parent[x]
      BY <1>1, <1>5, <2>2
    <3>2. x \in Reached \cup Waiting
      BY <1>1, <1>8, <1>12, <3>1 DEF TreeInv
    <3> QED BY <1>8, <1>9, <3>2
  <2> QED BY <2>1, <2>2
<1>13. /\ phase' = "none" => toAdd' = <<>>
       /\ phase' # "add" /\ phase' = "none"
  BY <1>1 DEF TreeInv
<1> QED BY <1>11, <1>12, <1>13 DEF TreeInv

\* What settling finalizes is no object of the tree, if the references stay
\* balanced.
LEMMA SettledTree ==
  ASSUME CountInv', NEW count, NEW r, NEW in \in SUBSET Object, Settle(count, r, in)
  PROVE  cached' \subseteq in /\ \A x \in in : x \in owned' => x \in cached'
<1>1. refs' = count /\ cached' = in \ {o \in Object : count[o] = 0}
  BY DEF Settle, WithoutGone
<1>2. ASSUME NEW x \in in, x \in owned' PROVE refs'[x] # 0
  <2>1. queue' \in Seq(Object) /\ toAdd' \in Seq(Object)
    BY DEF CountInv, TypeOK
  <2>2. Places(queue', x) \in Nat /\ Places(toAdd', x) \in Nat
    BY <2>1, PlacesType
  <2>3. refs'[x] = Holds(owned', x) + Holds(leased', x) + Places(queue', x) + Places(toAdd', x)
    BY DEF CountInv, RefsBalanced, Places, Holds
  <2>4. Holds(owned', x) = 1 /\ Holds(leased', x) \in Nat
    BY <1>2 DEF Holds
  <2> QED BY <2>2, <2>3, <2>4
<1> QED BY <1>1, <1>2

\* A step that leaves the queue and the traversal keeps what they know.
LEMMA TreeSettles ==
  ASSUME CountInv, CountInv', TreeInv, UNCHANGED <<parent, defunct, states, queue, toAdd>>,
         phase' = phase, idle' = idle,
         cached' \subseteq cached, \A x \in cached : x \in owned' => x \in cached'
  PROVE  TreeInv'
<1>1. /\ Reached' \subseteq Reached /\ Waiting' = Waiting
      /\ \A x \in Reached : x \in owned' => x \in Reached'
  BY DEF Reached, Waiting, Places
<1> QED BY <1>1, TreeStays DEF TreeInv, states

\* An object that becomes defunct leaves the cache and the queue, and belongs to
\* neither.
LEMMA TreeDefunct ==
  ASSUME CountInv, CountInv', TreeInv, NEW o \in Object, Defunct(o)
  PROVE  TreeInv'
<1>1. /\ defunct' = defunct \cup {o}
      /\ UNCHANGED <<parent, owned, states, toAdd, phase, idle>>
  BY DEF Defunct, traversalVars
<1>2. queue \in Seq(Object) /\ cached \in SUBSET Object
  BY DEF CountInv, TypeOK
<1>3. /\ cached' \subseteq cached
      /\ \A x \in cached : x \in owned' /\ x # o => x \in cached'
      /\ queue' \in {queue, RemoveFirst(queue, o)} /\ (queue' = queue \/ Contains(queue, o))
  <2>1. ASSUME NEW r, NEW held, Deregister(o, r, held)
        PROVE  /\ cached' \subseteq cached
               /\ \A x \in cached : x \in owned' /\ x # o => x \in cached'
               /\ queue' \in {queue, RemoveFirst(queue, o)}
               /\ queue' = queue \/ Contains(queue, o)
    <3>1. \/ \E count, q : Settle(count, q, cached)
          \/ \E count, q : Settle(count, q, cached \ {o})
      BY <2>1, Zenon DEF Deregister
    <3>2. cached \in SUBSET Object /\ cached \ {o} \in SUBSET Object
      BY <1>2
    <3>3. \E in \in {cached, cached \ {o}} :
            cached' \subseteq in /\ \A x \in in : x \in owned' => x \in cached'
      BY <3>1, <3>2, SettledTree
    <3>4. /\ queue' \in {queue, RemoveFirst(queue, o)}
          /\ queue' = queue \/ Contains(queue, o)
      BY <2>1 DEF Deregister
    <3> QED BY <3>3, <3>4
  <2>2. CASE UNCHANGED <<refs, leased, reg, cached, queue>>
    BY <2>2
  <2> QED BY <2>1, <2>2 DEF Defunct
<1>4. \A x \in Object : x # o => Places(queue', x) = Places(queue, x)
  <2>1. CASE queue' = queue
    BY <2>1
  <2>2. CASE queue' = RemoveFirst(queue, o) /\ Contains(queue, o)
    <3> SUFFICES ASSUME NEW x \in Object, x # o
                 PROVE  Places(RemoveFirst(queue, o), x) = Places(queue, x)
      BY <2>2
    <3>1. /\ RemoveFirst(queue, o) \in Seq(Object)
          /\ Places(queue, x) = Places(RemoveFirst(queue, o), x) + (IF o = x THEN 1 ELSE 0)
      BY <1>2, <2>2, PlacesRemoveFirst
    <3>2. Places(RemoveFirst(queue, o), x) \in Nat
      BY <3>1, PlacesType
    <3> QED BY <3>1, <3>2
  <2> QED BY <1>3, <2>1, <2>2
<1>5. queue = <<>> => queue' = <<>>
  BY <1>3 DEF Contains
<1>6. Reached' \subseteq Reached
  BY <1>1, <1>3 DEF Reached, Places
<1>7. ASSUME NEW x \in Object, x \in Reached \cup Waiting,
             x \in owned' \ (transient \cup defunct')
      PROVE  x \in Reached' \cup Waiting'
  <2>1. x # o
    BY <1>1, <1>7
  <2>2. x \in Reached => x \in Reached'
    BY <1>1, <1>3, <1>7, <2>1 DEF Reached, Places
  <2>3. x \in Waiting => x \in Waiting'
    BY <1>4, <2>1 DEF Waiting, Places
  <2> QED BY <1>7, <2>2, <2>3
<1>8. /\ parent' = parent /\ transient' = transient /\ leaves' = leaves
      /\ defunct \subseteq defunct'
  BY <1>1 DEF states
<1>9. /\ phase' = "none" => toAdd' = <<>>
      /\ phase' = "add" => queue' = <<>>
      /\ phase' # "none" \/ queue' # <<>> => idle'
  BY <1>1, <1>5 DEF TreeInv
<1> QED BY <1>6, <1>7, <1>8, <1>9, TreeStays

\* A turn of the first loop: a transient object is passed over, another one is
\* reached, and its children wait unless they do or are not wanted.
LEMMA TreeScan ==
  ASSUME CountInv, CountInv', TreeInv, Scan
  PROVE  TreeInv'
<1> DEFINE o == Head(queue)
           kids == IF ScansChildren(o) THEN Children(o) ELSE {}
<1>1. /\ queue \in Seq(Object) /\ queue # <<>> /\ toAdd \in Seq(Object)
      /\ cached \in SUBSET Object
      /\ UNCHANGED <<parent, owned, defunct, transient, leaves, phase, idle>>
      /\ phase = "scan"
  BY DEF CountInv, TypeOK, Scan, toolkitVars, states
<1>2. o \in Object /\ Tail(queue) \in Seq(Object)
  BY <1>1, PlacesTail
<1>3. ASSUME NEW x
      PROVE  /\ Places(queue, x) = (IF o = x THEN 1 ELSE 0) + Places(Tail(queue), x)
             /\ Places(Tail(queue), x) \in Nat
  BY <1>1, <1>2, PlacesTail, PlacesType
<1>4. /\ phase' = "none" => toAdd' = <<>>
      /\ phase' = "add" => queue' = <<>>
      /\ phase' # "none" \/ queue' # <<>> => idle'
  BY <1>1 DEF TreeInv
<1>5. CASE o \in transient
  <2>1. /\ queue' = Tail(queue) /\ toAdd' = toAdd
        /\ Settle([refs EXCEPT ![o] = @ - 1], reg, cached)
    BY <1>5 DEF Scan
  <2>2. cached' \subseteq cached /\ \A x \in cached : x \in owned' => x \in cached'
    BY <1>1, <2>1, SettledTree
  <2> HIDE DEF o
  <2>3. /\ Reached' \subseteq Reached
        /\ \A x \in Reached : x \in owned' => x \in Reached'
    BY <2>1, <2>2 DEF Reached, Places
  <2>4. \A x \in Waiting \ transient : x \in Waiting'
    <3> SUFFICES ASSUME NEW x \in Object, Places(queue, x) > 0, x # o
                 PROVE  Places(queue', x) > 0
      BY <1>5 DEF Waiting, Places
    <3> QED BY <1>3, <2>1
  <2> QED BY <1>1, <1>4, <2>3, <2>4, TreeStays
<1>6. CASE o \notin transient
  <2>1. PICK s \in SetToSeqs(kids) : queue' = Tail(queue) \o s
    BY <1>6 DEF Scan
  <2>2. toAdd' = Append(toAdd, o) /\ cached' = cached
    BY <1>6 DEF Scan
  <2>3. kids \in SUBSET Object /\ IsFiniteSet(kids)
    <3>1. kids \in SUBSET Object
      BY DEF Children
    <3> QED BY <3>1, FiniteAssumption, FS_Subset
  <2>4. \A x \in Object : parent[x] = o /\ x \notin kids => o \in cached \cup leaves \cup defunct
    BY DEF Children, ScansChildren
  <2> HIDE DEF kids, o
  <2>5. s \in Seq(Object) /\ \A x : Places(s, x) = IF x \in kids THEN 1 ELSE 0
    BY <2>3, PlacesOfSet
  <2>6. \A x : Places(queue', x) = Places(Tail(queue), x) + Places(s, x)
    BY <1>2, <2>1, <2>5, PlacesConcat
  <2>7. \A x : Places(toAdd', x) = Places(toAdd, x) + (IF o = x THEN 1 ELSE 0)
    BY <1>1, <1>2, <2>2, PlacesAppend
  <2>8. \A x : Places(toAdd, x) \in Nat
    BY <1>1, PlacesType
  <2>9. Reached' = Reached \cup {o}
    <3>1. \A x \in Object : Places(toAdd', x) > 0 <=> Places(toAdd, x) > 0 \/ x = o
      BY <2>7, <2>8
    <3> QED BY <1>2, <2>2, <3>1 DEF Reached
  <2>10. Waiting \subseteq Waiting' \cup {o} /\ kids \subseteq Waiting'
    <3>1. ASSUME NEW x \in Object
          PROVE  /\ Places(queue, x) > 0 /\ x # o => Places(queue', x) > 0
                 /\ x \in kids => Places(queue', x) > 0
      BY <1>3, <2>5, <2>6
    <3> QED BY <2>3, <3>1 DEF Waiting
  <2>11. ASSUME NEW x \in Object, parent'[x] \in Reached' \ (leaves' \cup defunct'),
                x \notin transient' \cup defunct'
         PROVE  x \in Reached' \cup Waiting'
    <3>1. parent[x] \in (Reached \cup {o}) \ (leaves \cup defunct)
          /\ x \notin transient \cup defunct
      BY <1>1, <2>9, <2>11
    <3>2. CASE parent[x] \in Reached
      <4>1. x \in Reached \cup Waiting
        BY <3>1, <3>2 DEF TreeInv
      <4> QED BY <2>9, <2>10, <4>1
    <3>3. CASE parent[x] = o /\ o \notin Reached
      <4>1. o \notin cached \cup leaves \cup defunct
        BY <3>1, <3>3 DEF Reached
      <4>2. x \in kids
        BY <2>4, <3>3, <4>1
      <4> QED BY <2>10, <4>2
    <3> QED BY <3>1, <3>2, <3>3
  <2> QED BY <1>4, <2>11 DEF TreeInv
<1> QED BY <1>5, <1>6

\* A turn of the second loop: what was reached by the traversal is in the cache.
LEMMA TreeAdd ==
  ASSUME CountInv, CountInv', TreeInv, Add
  PROVE  TreeInv'
<1> DEFINE o == Head(toAdd)
           in == cached \cup {o}
<1>1. /\ toAdd \in Seq(Object) /\ toAdd # <<>> /\ cached \in SUBSET Object
      /\ toAdd' = Tail(toAdd)
      /\ UNCHANGED <<parent, owned, defunct, transient, leaves, queue, phase, idle>>
      /\ phase = "add"
      /\ \E count, r : Settle(count, r, in)
  BY DEF CountInv, TypeOK, Add, toolkitVars, states
<1>2. o \in Object /\ Tail(toAdd) \in Seq(Object)
  BY <1>1, PlacesTail
<1>3. ASSUME NEW x
      PROVE  /\ Places(toAdd, x) = (IF o = x THEN 1 ELSE 0) + Places(Tail(toAdd), x)
             /\ Places(Tail(toAdd), x) \in Nat
  BY <1>1, <1>2, PlacesTail, PlacesType
<1>4. cached' \subseteq in /\ \A x \in in : x \in owned' => x \in cached'
  <2>1. in \in SUBSET Object
    BY <1>1, <1>2
  <2> HIDE DEF in
  <2> QED BY <1>1, <2>1, SettledTree
<1> HIDE DEF o
<1>5. \A x \in Object : Places(toAdd, x) > 0 <=> x = o \/ Places(toAdd', x) > 0
  BY <1>1, <1>3
<1>6. /\ Reached' \subseteq Reached
      /\ \A x \in Reached : x \in owned' => x \in Reached'
  BY <1>2, <1>4, <1>5 DEF Reached
<1>7. Waiting' = Waiting
  BY <1>1 DEF Waiting, Places
<1>8. /\ phase' = "none" => toAdd' = <<>>
      /\ phase' = "add" => queue' = <<>>
      /\ phase' # "none" \/ queue' # <<>> => idle'
  BY <1>1 DEF TreeInv
<1> QED BY <1>1, <1>6, <1>7, <1>8, TreeStays

\* Every step keeps what the traversal knows, if the toolkit attaches nothing
\* during it.
LEMMA TreeNext ==
  ASSUME "attach" \notin Within, CountInv, CountInv', TreeInv, [Next]_vars
  PROVE  TreeInv'
<1>1. ASSUME NEW o \in Object, NEW p \in Object, Attach(o, p) PROVE TreeInv'
  BY <1>1, TreeAttach
<1>2. ASSUME NEW o \in Object, Detach(o) PROVE TreeInv'
  <2>1. /\ parent' = [parent EXCEPT ![o] = NoObject]
        /\ UNCHANGED <<defunct, transient, leaves, cached, queue, toAdd, phase, idle>>
    BY <1>2 DEF Detach, traversalVars, states
  <2>2. Reached' = Reached /\ Waiting' = Waiting /\ NoObject \notin Reached
    BY <2>1, RootAssumption DEF Reached, Waiting, Places, CountInv, TypeOK
  <2>3. parent \in [Object -> Object \cup {NoObject}]
    BY DEF CountInv, TypeOK
  <2>4. \A x \in Object : parent'[x] \in {parent[x], NoObject}
    BY <2>1, <2>3
  <2> QED BY <2>1, <2>2, <2>4 DEF TreeInv
<1>3. ASSUME NEW o \in Object, Release(o) \/ LeaseEnds(o) PROVE TreeInv'
  <2>1. /\ UNCHANGED <<parent, defunct, states, queue, toAdd>>
        /\ phase' = phase /\ idle' = idle
        /\ Settle([refs EXCEPT ![o] = @ - 1], reg, cached)
    BY <1>3 DEF Release, LeaseEnds, traversalVars, toolkitVars
  <2>2. cached \in SUBSET Object
    BY DEF CountInv, TypeOK
  <2> QED BY <2>1, <2>2, SettledTree, TreeSettles
<1>4. ASSUME NEW o \in Object, Defunct(o) PROVE TreeInv'
  BY <1>4, TreeDefunct
<1>5. ASSUME (\E o \in Object : SendReference(o)) \/ Clients \/ UNCHANGED vars PROVE TreeInv'
  <2>1. /\ UNCHANGED <<parent, defunct, states, queue, toAdd>>
        /\ phase' = phase /\ idle' = idle /\ cached' = cached
    BY <1>5 DEF SendReference, Clients, vars, traversalVars, toolkitVars
  <2> QED BY <2>1, TreeSettles
<1>6. ASSUME Begin \/ EndScan \/ End PROVE TreeInv'
  <2>1. UNCHANGED <<parent, defunct, transient, leaves, queue, toAdd, cached>>
    BY <1>6 DEF Begin, EndScan, End, toolkitVars, states
  <2>2. Reached' = Reached /\ Waiting' = Waiting
    BY <2>1 DEF Reached, Waiting, Places
  <2>3. /\ phase' = "none" => toAdd' = <<>>
        /\ phase' = "add" => queue' = <<>>
        /\ phase' # "none" \/ queue' # <<>> => idle'
    BY <1>6 DEF Begin, EndScan, End, TreeInv
  <2> QED BY <2>1, <2>2, <2>3 DEF TreeInv
<1>7. ASSUME Scan PROVE TreeInv'
  BY <1>7, TreeScan
<1>8. ASSUME Add PROVE TreeInv'
  BY <1>8, TreeAdd
<1> QED BY <1>1, <1>2, <1>3, <1>4, <1>5, <1>6, <1>7, <1>8 DEF Next, Traversal

\* When no idle is pending, the cache has all of the tree that belongs to it,
\* however subtrees were built and moved, if the toolkit attaches nothing in the
\* calls of the traversal; what becomes defunct or is released in them does no
\* harm.
THEOREM TreeGetsCached ==
  ASSUME "attach" \notin Within
  PROVE  Spec => []TreeIsCached
<1>1. ASSUME CountInv, TreeInv, ~idle, NEW o \in Object, Belongs(o) PROVE o \in cached
  <2>1. toAdd = <<>> /\ queue = <<>>
    BY <1>1 DEF TreeInv
  <2>2. Reached = cached /\ Waiting = {}
    BY <2>1, PlacesEmpty DEF Reached, Waiting
  <2> QED BY <1>1, <2>2 DEF TreeInv, Belongs
<1>2. CountInv /\ TreeInv => TreeIsCached
  BY <1>1 DEF TreeIsCached
<1>3. CountInv /\ CountInv' /\ TreeInv /\ [Next]_vars => TreeInv'
  BY TreeNext
<1> QED BY <1>2, <1>3, CountInit, CountNext, TreeInit, PTL DEF Spec

\* An object in the cache that becomes defunct gets no new lease by the signals
\* that say so.
THEOREM DefunctGetsNoLease == Spec => DefunctIsNotKept
<1>1. ASSUME [Next]_vars, NEW o \in cached, o \in defunct' \ defunct
      PROVE  o \notin leased' \ leased
  <2>1. \A x \in Object : ~(Detach(x) \/ Release(x) \/ SendReference(x) \/ LeaseEnds(x))
    BY <1>1 DEF Detach, Release, SendReference, LeaseEnds, toolkitVars
  <2>2. ~(Traversal \/ Clients \/ UNCHANGED vars)
    BY <1>1 DEF Traversal, Begin, Scan, EndScan, Add, End, Clients, vars, toolkitVars
  <2>3. \A x, p \in Object : ~Attach(x, p)
    BY <1>1 DEF Attach
  <2>4. PICK x \in Object : Defunct(x)
    BY <1>1, <2>1, <2>2, <2>3 DEF Next
  <2>5. x = o
    BY <1>1, <2>4 DEF Defunct
  <2>6. Leased(cached, leased, o) = leased
    BY <1>1 DEF Leased
  <2>7. ASSUME NEW r, Deregister(o, r, leased) PROVE leased' = leased
    BY <1>1, <2>6, <2>7 DEF Deregister, CacheAtRemoval
  <2> QED BY <2>4, <2>5, <2>6, <2>7 DEF Defunct
<1>2. [Next]_vars => [\A o \in cached : o \in defunct' \ defunct => o \notin leased' \ leased]_vars
  BY <1>1
<1> QED BY <1>2, PTL DEF Spec, DefunctIsNotKept

=============================================================================

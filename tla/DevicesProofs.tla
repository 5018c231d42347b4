---------------------------- MODULE DevicesProofs ----------------------------
(***************************************************************************)
(* The keys that assistive technologies listen for.  With an accessibility *)
(* manager the ids of a device, the keys that its backend keeps, the       *)
(* modifiers and what the manager has agree, for any number of grabs, ids, *)
(* keys and modifiers, unless a call to the manager failed; IdsIdentify    *)
(* and KeysMatchGrabs are inductive together.  The ids identify grabs with *)
(* X11 too, and X11 reports each key event once, for the device that is    *)
(* made.  What X holds for a device is what its grabs ask for, for any     *)
(* number of them and any keyboard.                                        *)
(*                                                                         *)
(* Listeners of the older interface are the registry's.  Whom it asks      *)
(* about a key event is registered, each key event ends after its last     *)
(* listener, and the counts of the key grabs are what the clients'         *)
(* registrations add up to, for any clients, registrations and keys.       *)
(***************************************************************************)
EXTENDS Devices, DeviceEventController, FiniteSetTheorems, WellFoundedInduction, TLAPS

-----------------------------------------------------------------------------
(* Lists *)

\* A set of numbers has a least one.
LEMMA Least ==
  ASSUME NEW I \in SUBSET Nat, I # {}
  PROVE  \E m \in I : \A j \in I : m <= j
<1>1. \E m \in I : \A j \in I : ~ (<<j, m>> \in OpToRel(<, Nat))
  BY NatLessThanWellFounded, WFMin
<1>2. PICK m \in I : \A j \in I : ~ (<<j, m>> \in OpToRel(<, Nat))
  BY <1>1
<1>3. \A i, j \in Nat : j < i => <<j, i>> \in OpToRel(<, Nat)
  BY DEF OpToRel
<1>4. \A j \in I : ~ (j < m)
  BY <1>2, <1>3
<1> QED BY <1>4

\* Where the i-th element of a list was before the p-th was taken out.
Skip(p, i) == IF i < p THEN i ELSE i + 1

\* One is taken out.
LEMMA RemoveAtElements ==
  ASSUME NEW S, NEW s \in Seq(S), NEW p \in 1..Len(s)
  PROVE  /\ X11!RemoveAt(s, p) \in Seq(S)
         /\ Len(X11!RemoveAt(s, p)) = Len(s) - 1
         /\ \A i \in 1..(Len(s) - 1) : X11!RemoveAt(s, p)[i] = s[Skip(p, i)]
<1> DEFINE a == SubSeq(s, 1, p - 1)
           b == SubSeq(s, p + 1, Len(s))
<1>1. /\ a \in Seq(S) /\ Len(a) = p - 1
      /\ \A i \in 1..(p - 1) : a[i] = s[i]
  OBVIOUS
<1>2. /\ b \in Seq(S) /\ Len(b) = Len(s) - p
      /\ \A i \in 1..(Len(s) - p) : b[i] = s[p + i]
  OBVIOUS
<1>3. X11!RemoveAt(s, p) = a \o b
  BY DEF X11!RemoveAt
<1> HIDE DEF a, b
<1>4. a \o b \in Seq(S) /\ Len(a \o b) = Len(s) - 1
  <2>1. Len(s) \in Nat /\ p \in Int /\ (p - 1) + (Len(s) - p) = Len(s) - 1
    OBVIOUS
  <2>2. a \in Seq(S) /\ b \in Seq(S) /\ Len(a) = p - 1 /\ Len(b) = Len(s) - p
    BY <1>1, <1>2
  <2>3. a \o b \in Seq(S) /\ Len(a \o b) = Len(a) + Len(b)
    BY ONLY <2>2
  <2> QED BY ONLY <2>1, <2>2, <2>3
<1>5. ASSUME NEW i \in 1..(Len(s) - 1) PROVE (a \o b)[i] = s[Skip(p, i)]
  <2>1. CASE i < p
    BY <1>1, <1>2, <2>1 DEF Skip
  <2>2. CASE ~(i < p)
    <3>1. (a \o b)[i] = b[i - (p - 1)]
      BY <1>1, <1>2, <2>2
    <3>2. i - (p - 1) \in 1..(Len(s) - p) /\ p + (i - (p - 1)) = i + 1
      BY <2>2
    <3> QED BY <1>2, <2>2, <3>1, <3>2 DEF Skip
  <2> QED BY <2>1, <2>2
<1> QED BY <1>3, <1>4, <1>5

\* One is put in before the p-th, or at the end.
LEMMA InsertAtElements ==
  ASSUME NEW S, NEW s \in Seq(S), NEW p \in 1..(Len(s) + 1), NEW e \in S
  PROVE  /\ InsertAt(s, p, e) \in Seq(S)
         /\ Len(InsertAt(s, p, e)) = Len(s) + 1
         /\ \A i \in 1..(Len(s) + 1) :
              InsertAt(s, p, e)[i] = IF i < p THEN s[i] ELSE IF i = p THEN e ELSE s[i - 1]
<1> DEFINE a == SubSeq(s, 1, p - 1)
           b == SubSeq(s, p, Len(s))
           c == <<e>> \o b
<1>1. /\ a \in Seq(S) /\ Len(a) = p - 1
      /\ \A i \in 1..(p - 1) : a[i] = s[i]
  OBVIOUS
<1>2. /\ b \in Seq(S) /\ Len(b) = Len(s) - p + 1
      /\ \A i \in 1..(Len(s) - p + 1) : b[i] = s[p + i - 1]
  OBVIOUS
<1>3. InsertAt(s, p, e) = (a \o <<e>>) \o b
  BY DEF InsertAt
<1> HIDE DEF a, b
<1> PICK u : u = a \o <<e>>
  OBVIOUS
<1>4. /\ u \in Seq(S) /\ Len(u) = p /\ u[p] = e
      /\ \A i \in 1..(p - 1) : u[i] = s[i]
  BY <1>1
<1> PICK n : n = Len(s)
  OBVIOUS
<1>5. n \in Nat /\ p \in 1..(n + 1)
  OBVIOUS
<1>6. u \in Seq(S) /\ b \in Seq(S) /\ Len(u) = p /\ Len(b) = n - p + 1
  BY <1>2, <1>4
<1> PICK t : t = u \o b
  OBVIOUS
<1>7. /\ t \in Seq(S) /\ Len(t) = Len(u) + Len(b)
      /\ \A i \in 1..(Len(u) + Len(b)) : t[i] = IF i <= Len(u) THEN u[i] ELSE b[i - Len(u)]
  <2>1. u \in Seq(S) /\ b \in Seq(S) /\ t = u \o b
    BY <1>6
  <2> QED BY ONLY <2>1
<1>8. Len(u) + Len(b) = n + 1
  BY ONLY <1>5, <1>6
<1>9. \A i \in 1..(n + 1) : t[i] = IF i <= p THEN u[i] ELSE b[i - p]
  BY ONLY <1>6, <1>7, <1>8
<1>10. ASSUME NEW i \in 1..(n + 1)
       PROVE  t[i] = IF i < p THEN s[i] ELSE IF i = p THEN e ELSE s[i - 1]
  <2>1. t[i] = IF i <= p THEN u[i] ELSE b[i - p]
    BY <1>9
  <2>2. CASE i < p
    <3>1. i <= p /\ i \in 1..(p - 1)
      BY ONLY <1>5, <2>2, i \in 1..(n + 1)
    <3> QED BY <1>4, <2>1, <2>2, <3>1
  <2>3. CASE i = p
    <3>1. p <= p /\ ~(p < p)
      BY ONLY <1>5
    <3> QED BY <1>4, <2>1, <2>3, <3>1
  <2>4. CASE i > p
    <3>1. i - p \in 1..(n - p + 1) /\ p + (i - p) - 1 = i - 1 /\ ~(i <= p) /\ ~(i < p) /\ i # p
      BY ONLY <1>5, <2>4, i \in 1..(n + 1)
    <3>2. b[i - p] = s[p + (i - p) - 1]
      BY <1>2, <3>1
    <3> QED BY ONLY <2>1, <3>1, <3>2
  <2>5. i < p \/ i = p \/ i > p
    BY ONLY <1>5, i \in 1..(n + 1)
  <2> QED BY <2>2, <2>3, <2>4, <2>5
<1>11. InsertAt(s, p, e) = t
  BY <1>3
<1> QED BY <1>7, <1>8, <1>10, <1>11

\* The least of some positions is one of them.
LEMMA FirstIsOne ==
  ASSUME NEW n \in Nat, NEW I \in SUBSET (1..n), I # {}
  PROVE  Min(I) \in I
<1>1. I \in SUBSET Nat
  OBVIOUS
<1>2. \E m \in I : \A j \in I : m <= j
  BY <1>1, Least
<1> QED BY <1>2, Zenon DEF Min

-----------------------------------------------------------------------------
(* The device with a manager *)

\* An id that is not in use may be given to a grab.
LEMMA NewGrabKeepsIds ==
  ASSUME IdsIdentify, NEW id, ~IsIdUsed(id), NEW kd,
         grabs' = grabs \cup {[id |-> id, kd |-> kd]}, UNCHANGED watchers
  PROVE  IdsIdentify'
PROOF
<1>1. id # 0 /\ id \notin watchers /\ \A g \in grabs : g.id # id
  BY DEF IsIdUsed
<1>2. ASSUME NEW g \in grabs', NEW h \in grabs', g.id = h.id
      PROVE  g = h
  BY <1>1, <1>2 DEF IdsIdentify
<1>3. ASSUME NEW g \in grabs'
      PROVE  g.id \notin watchers' \cup {0}
  BY <1>1 DEF IdsIdentify
<1> QED
  BY <1>2, <1>3 DEF IdsIdentify

\* The same for a watcher.
LEMMA NewWatcherKeepsIds ==
  ASSUME IdsIdentify, NEW id, ~IsIdUsed(id),
         watchers' = watchers \cup {id}, UNCHANGED grabs
  PROVE  IdsIdentify'
BY DEF IdsIdentify, IsIdUsed

-----------------------------------------------------------------------------

\* A definition that the backend does not keep is that of no grab yet.
LEMMA AddKeyGrabKeepsGrabs ==
  ASSUME GrabsAgree, NEW kd \in Definition, AddKeyGrab(kd)
  PROVE  GrabsAgree'
PROOF
<1>1. KeepGrab(kd) /\ KeyOf(kd) \notin grabbedKeys /\ grabbedKeys' = grabbedKeys \cup {KeyOf(kd)}
  BY DEF AddKeyGrab, HasKeyGrab
<1>2. PICK id \in Id : /\ ~IsIdUsed(id) /\ grabs' = grabs \cup {[id |-> id, kd |-> kd]}
                      /\ UNCHANGED watchers
  BY <1>1 DEF KeepGrab, Give, GrabId
<1>3. IdsIdentify'
  BY <1>2, NewGrabKeepsIds DEF GrabsAgree
<1> DEFINE new == [id |-> id, kd |-> kd]
<1>4. \A g \in grabs : KeyOf(g.kd) # KeyOf(kd)
  BY <1>1 DEF GrabsAgree, KeysMatchGrabs
<1>5. new.kd = kd
  OBVIOUS
<1> HIDE DEF new
<1>6. grabs' = grabs \cup {new}
  BY <1>2 DEF new
<1>7. grabbedKeys' = {KeyOf(g.kd) : g \in grabs'}
  BY <1>1, <1>5, <1>6 DEF GrabsAgree, KeysMatchGrabs
<1>8. ASSUME NEW g \in grabs', NEW h \in grabs', KeyOf(g.kd) = KeyOf(h.kd)
      PROVE  g = h
  BY <1>4, <1>5, <1>6, <1>8 DEF GrabsAgree, KeysMatchGrabs
<1>9. KeysMatchGrabs'
  BY <1>7, <1>8 DEF KeysMatchGrabs, KeyOf
<1> QED
  BY <1>3, <1>9 DEF GrabsAgree

\* The definition that the backend removes is that of no other grab.
LEMMA RemoveKeyGrabKeepsGrabs ==
  ASSUME GrabsAgree, NEW g \in grabs, RemoveKeyGrab(g)
  PROVE  GrabsAgree'
PROOF
<1>1. /\ grabs' = grabs \ {g}
      /\ watchers' = watchers
      /\ grabbedKeys' = grabbedKeys \ {KeyOf(g.kd)}
  BY DEF RemoveKeyGrab, DropGrab, Ungrabbed
<1>2. IdsIdentify'
  BY <1>1 DEF GrabsAgree, IdsIdentify
<1>3. \A h \in grabs : h # g => KeyOf(h.kd) # KeyOf(g.kd)
  BY DEF GrabsAgree, KeysMatchGrabs
<1>4. grabbedKeys' = {KeyOf(h.kd) : h \in grabs'}
  BY <1>1, <1>3 DEF GrabsAgree, KeysMatchGrabs
<1>5. KeysMatchGrabs'
  BY <1>1, <1>4 DEF GrabsAgree, KeysMatchGrabs, KeyOf
<1> QED
  BY <1>2, <1>5 DEF GrabsAgree

\* The steps that touch neither the grabs nor the watchers.
LEMMA OthersKeepGrabs ==
  ASSUME GrabsAgree, UNCHANGED <<device, grabbedKeys>>
  PROVE  GrabsAgree'
BY DEF GrabsAgree, IdsIdentify, KeysMatchGrabs, KeyOf, device

\* Every step keeps the grabs of device and backend in agreement.
LEMMA StepKeepsGrabs ==
  ASSUME GrabsAgree, [Next]_vars
  PROVE  GrabsAgree'
PROOF
<1>1. ASSUME NEW kd \in Definition, AddKeyGrab(kd) PROVE GrabsAgree'
  BY <1>1, AddKeyGrabKeepsGrabs
<1>2. ASSUME NEW g \in grabs, RemoveKeyGrab(g) PROVE GrabsAgree'
  BY <1>2, RemoveKeyGrabKeepsGrabs
<1>3. CASE AddKeyWatcher
  <2>1. IdsIdentify'
    BY <1>3, NewWatcherKeepsIds DEF AddKeyWatcher, WatchKeys, Give, GrabId, GrabsAgree
  <2>2. grabs' = grabs /\ grabbedKeys' = grabbedKeys
    BY <1>3 DEF AddKeyWatcher, WatchKeys
  <2> QED
    BY <2>1, <2>2 DEF GrabsAgree, KeysMatchGrabs, KeyOf
<1>4. CASE RefreshTimeout
  BY <1>4, OthersKeepGrabs DEF RefreshTimeout
<1>5. ASSUME NEW k \in Keysym, MapKeysymModifier(k) \/ UnmapKeysymModifier(k) \/ KeyEvent(k)
      PROVE  GrabsAgree'
  BY <1>5, OthersKeepGrabs DEF MapKeysymModifier, UnmapKeysymModifier, KeyEvent
<1>6. CASE Crash
  BY <1>6, OthersKeepGrabs DEF Crash
<1>7. CASE UNCHANGED vars
  BY <1>7, OthersKeepGrabs DEF vars
<1> QED
  BY <1>1, <1>2, <1>3, <1>4, <1>5, <1>6, <1>7 DEF Next

\* What an assistive technology removes by an id is the grab it added under
\* it, however often the ids have wrapped (get_grab_id, is_id_used), and the
\* keys that the backend keeps are those of the grabs, each once
\* (has_key_grab, remove_key_grab).
THEOREM GrabsStayInAgreement == Spec => []GrabsAgree
PROOF
<1>1. Init => GrabsAgree
  BY DEF Init, DeviceInit, GrabsAgree, IdsIdentify, KeysMatchGrabs
<1>2. GrabsAgree /\ [Next]_vars => GrabsAgree'
  BY StepKeepsGrabs
<1> QED
  BY <1>1, <1>2, PTL DEF Spec

-----------------------------------------------------------------------------

\* What modifiers are mapped to is what is grabbed for them, each once.
ModifiersKept ==
  /\ \E S : virtualModifiers \in Seq(S)
  /\ \A k : k \in grabbedModifiers <=>
              \E i \in 1..Len(virtualModifiers) : virtualModifiers[i].keysym = k
  /\ \A i, j \in 1..Len(virtualModifiers) :
       virtualModifiers[i].keysym = virtualModifiers[j].keysym => i = j

\* What the backend keeps has reached the manager.
Sending == scheduled \/ failed \/ installed = Wanted

ManagerInv == GrabsAgree /\ ModifiersKept /\ Sending

\* A key that is mapped to no modifier is put in once.
LEMMA MapKeepsModifiers ==
  ASSUME ModifiersKept, NEW k \in Keysym, MapKeysymModifier(k)
  PROVE  ModifiersKept'
PROOF
<1> PICK v : v = virtualModifiers
  OBVIOUS
<1> PICK e : e = [modifier |-> UnusedModifier, keysym |-> k]
  OBVIOUS
<1> PICK w : w = Inserted(e)
  OBVIOUS
<1>1. e.keysym = k /\ virtualModifiers' = w /\ grabbedModifiers' = grabbedModifiers \cup {k}
  BY DEF MapKeysymModifier
<1> PICK S0 : v \in Seq(S0)
  BY DEF ModifiersKept
<1> PICK S : S = S0 \cup {e}
  OBVIOUS
<1>2. v \in Seq(S) /\ e \in S /\ Len(v) \in Nat
  <2>1. S0 \subseteq S
    OBVIOUS
  <2> QED BY <2>1
<1>3. \A i \in 1..Len(v) : v[i].keysym # k
  <2>1. ModifiersOf(k) = {}
    BY DEF MapKeysymModifier
  <2>2. DOMAIN v = 1..Len(v)
    BY <1>2
  <2> QED BY <2>1, <2>2, Zenon DEF ModifiersOf, Range
<1>4. PICK p \in 1..(Len(v) + 1) :
        /\ w \in Seq(S) /\ Len(w) = Len(v) + 1
        /\ \A i \in 1..(Len(v) + 1) : w[i] = IF i < p THEN v[i] ELSE IF i = p THEN e ELSE v[i - 1]
  <2> DEFINE I == {i \in 1..Len(v) : v[i].modifier = e.modifier - 1}
             at == IF I # {} THEN Min(I) ELSE 0
  <2>1. w = IF at = 0 THEN Append(v, e) ELSE InsertAt(v, at + 1, e)
    BY DEF Inserted, SelectInSeq
  <2>2. I \in SUBSET (1..Len(v))
    OBVIOUS
  <2> HIDE DEF I
  <2>3. at \in 0..Len(v)
    <3>1. CASE I = {}
      BY <1>2, <3>1
    <3>2. CASE I # {}
      <4>1. Min(I) \in I
        BY <1>2, <2>2, <3>2, FirstIsOne
      <4>2. Min(I) \in 1..Len(v) /\ at = Min(I)
        BY <2>2, <3>2, <4>1, Zenon
      <4> QED BY ONLY <1>2, <4>2
    <3> QED BY <3>1, <3>2
  <2> HIDE DEF at
  <2>4. CASE at = 0
    <3>1. w = Append(v, e)
      BY <2>1, <2>4
    <3>2. w \in Seq(S) /\ Len(w) = Len(v) + 1 /\ w[Len(v) + 1] = e /\ \A i \in 1..Len(v) : w[i] = v[i]
      BY ONLY <1>2, <3>1
    <3>3. Len(v) + 1 \in 1..(Len(v) + 1)
      BY <1>2
    <3>4. \A i \in 1..(Len(v) + 1) : (i = Len(v) + 1 \/ i < Len(v) + 1) /\ (i < Len(v) + 1 => i \in 1..Len(v))
      BY <1>2
    <3>5. ~(Len(v) + 1 < Len(v) + 1)
      BY <1>2
    <3> QED BY ONLY <3>2, <3>3, <3>4, <3>5
  <2>5. CASE at # 0
    <3>1. at + 1 \in 1..(Len(v) + 1) /\ w = InsertAt(v, at + 1, e)
      BY <1>2, <2>1, <2>3, <2>5
    <3> PICK q \in 1..(Len(v) + 1) : q = at + 1
      BY <3>1
    <3>2. /\ w \in Seq(S) /\ Len(w) = Len(v) + 1
          /\ \A i \in 1..(Len(v) + 1) : w[i] = IF i < q THEN v[i] ELSE IF i = q THEN e ELSE v[i - 1]
      <4>1. v \in Seq(S) /\ e \in S /\ q \in 1..(Len(v) + 1)
        BY <1>2
      <4>2. w = InsertAt(v, q, e)
        BY <3>1
      <4> HIDE DEF at
      <4>3. /\ InsertAt(v, q, e) \in Seq(S)
            /\ Len(InsertAt(v, q, e)) = Len(v) + 1
            /\ \A i \in 1..(Len(v) + 1) :
                 InsertAt(v, q, e)[i] = IF i < q THEN v[i] ELSE IF i = q THEN e ELSE v[i - 1]
        BY ONLY <4>1, InsertAtElements
      <4> QED BY ONLY <4>2, <4>3
    <3> QED BY <3>2
  <2> QED BY <2>4, <2>5
<1>5. \A i \in 1..Len(w) : i = p \/ (i < p /\ i \in 1..Len(v)) \/ (i > p /\ i - 1 \in 1..Len(v))
  BY <1>2, <1>4
<1>6. \A i \in 1..Len(v) : i \in 1..Len(w) /\ i + 1 \in 1..Len(w) /\ (i < p \/ i + 1 > p)
  BY <1>2, <1>4
<1>7. ASSUME NEW x PROVE x \in grabbedModifiers \cup {k} <=> \E i \in 1..Len(w) : w[i].keysym = x
  <2>1. x \in grabbedModifiers <=> \E i \in 1..Len(v) : v[i].keysym = x
    BY DEF ModifiersKept
  <2>2. ASSUME NEW i \in 1..Len(v), v[i].keysym = x PROVE \E j \in 1..Len(w) : w[j].keysym = x
    <3>1. CASE i < p
      BY <1>4, <1>6, <2>2, <3>1
    <3>2. CASE i + 1 > p
      <4>1. ~(i + 1 < p) /\ i + 1 # p /\ (i + 1) - 1 = i /\ i + 1 \in 1..(Len(v) + 1)
        BY <1>2, <3>2
      <4>2. w[i + 1] = v[i]
        BY ONLY <1>4, <4>1
      <4> QED BY <1>6, <2>2, <4>2
    <3> QED BY <1>6, <3>1, <3>2
  <2>3. ASSUME NEW j \in 1..Len(w), w[j].keysym = x
        PROVE  x = k \/ \E i \in 1..Len(v) : v[i].keysym = x
    BY <1>1, <1>4, <1>5, <2>3
  <2>4. p \in 1..Len(w) /\ w[p].keysym = k
    BY <1>1, <1>4
  <2> QED BY <2>1, <2>2, <2>3, <2>4
<1>8. ASSUME NEW i \in 1..Len(w), NEW j \in 1..Len(w), w[i].keysym = w[j].keysym PROVE i = j
  <2> DEFINE Old(n) == IF n < p THEN n ELSE n - 1
  <2>1. \A n \in 1..Len(w) : n # p => Old(n) \in 1..Len(v) /\ w[n] = v[Old(n)]
    BY <1>4, <1>5
  <2>2. i = p <=> j = p
    <3>1. w[p].keysym = k
      BY <1>1, <1>4
    <3>2. \A n \in 1..Len(w) : n # p => w[n].keysym # k
      <4> HIDE DEF Old
      <4> QED BY <1>3, <2>1
    <3> QED BY <1>8, <3>1, <3>2
  <2>3. CASE i # p /\ j # p
    <3>1. Old(i) = Old(j)
      <4>1. /\ Old(i) \in 1..Len(v) /\ Old(j) \in 1..Len(v)
            /\ v[Old(i)].keysym = v[Old(j)].keysym
        BY <1>8, <2>1, <2>3
      <4> HIDE DEF Old
      <4> QED BY <4>1 DEF ModifiersKept
    <3> QED BY <1>4, <2>3, <3>1
  <2> QED BY <2>2, <2>3
<1> QED BY <1>1, <1>4, <1>7, <1>8 DEF ModifiersKept

\* A key that is unmapped is in the list no more.
LEMMA UnmapKeepsModifiers ==
  ASSUME ModifiersKept, NEW k \in Keysym, UnmapKeysymModifier(k)
  PROVE  ModifiersKept'
PROOF
<1> PICK v : v = virtualModifiers
  OBVIOUS
<1> PICK S : v \in Seq(S)
  BY DEF ModifiersKept
<1> DEFINE I == {i \in 1..Len(v) : v[i].keysym = k}
<1> PICK w : w = virtualModifiers'
  OBVIOUS
<1>1. /\ grabbedModifiers' = grabbedModifiers \ {k}
      /\ w = IF I # {} THEN X11!RemoveAt(v, Min(I)) ELSE v
  BY DEF UnmapKeysymModifier, RemoveFirstMatch, SelectInSeq, RemoveAt, X11!RemoveAt
<1>2. Len(v) \in Nat
  OBVIOUS
<1>3. \A i, j \in 1..Len(v) : v[i].keysym = v[j].keysym => i = j
  BY DEF ModifiersKept
<1>4. \A x : x \in grabbedModifiers <=> \E i \in 1..Len(v) : v[i].keysym = x
  BY DEF ModifiersKept
<1>5. CASE I = {}
  <2>1. w = v /\ k \notin grabbedModifiers
    BY <1>1, <1>4, <1>5
  <2> QED BY <1>1, <2>1 DEF ModifiersKept
<1>6. CASE I # {}
  <2> PICK p : p = Min(I)
    OBVIOUS
  <2>1. p \in 1..Len(v) /\ v[p].keysym = k /\ w = X11!RemoveAt(v, p)
    <3>1. I \in SUBSET (1..Len(v))
      OBVIOUS
    <3>2. p \in I
      <4> HIDE DEF I
      <4> QED BY <1>2, <1>6, <3>1, FirstIsOne
    <3> QED BY <1>1, <1>6, <3>2
  <2> HIDE DEF I
  <2>2. /\ w \in Seq(S) /\ Len(w) = Len(v) - 1
        /\ \A i \in 1..(Len(v) - 1) : w[i] = v[Skip(p, i)]
    BY <2>1, RemoveAtElements
  <2>3. \A i \in 1..Len(w) : Skip(p, i) \in 1..Len(v) /\ Skip(p, i) # p
    BY <1>2, <2>1, <2>2 DEF Skip
  <2>4. \A i, j \in 1..Len(w) : Skip(p, i) = Skip(p, j) => i = j
    BY <1>2, <2>1, <2>2 DEF Skip
  <2>5. \A i \in 1..Len(v) : i # p => \E j \in 1..Len(w) : Skip(p, j) = i
    <3> SUFFICES ASSUME NEW i \in 1..Len(v), i # p PROVE \E j \in 1..Len(w) : Skip(p, j) = i
      OBVIOUS
    <3>1. CASE i < p
      <4>1. i \in 1..Len(w) /\ Skip(p, i) = i
        BY <1>2, <2>1, <2>2, <3>1 DEF Skip
      <4> QED BY <4>1
    <3>2. CASE i > p
      <4>1. i - 1 \in 1..Len(w) /\ Skip(p, i - 1) = i
        BY <1>2, <2>1, <2>2, <3>2 DEF Skip
      <4> QED BY <4>1
    <3> QED BY <2>1, <3>1, <3>2
  <2>6. ASSUME NEW x PROVE x \in grabbedModifiers \ {k} <=> \E i \in 1..Len(w) : w[i].keysym = x
    <3>1. ASSUME NEW i \in 1..Len(v), v[i].keysym = x, x # k
          PROVE  \E j \in 1..Len(w) : w[j].keysym = x
      <4>1. PICK j \in 1..Len(w) : Skip(p, j) = i
        BY <2>1, <2>5, <3>1
      <4> QED BY <2>2, <3>1, <4>1
    <3>2. ASSUME NEW j \in 1..Len(w), w[j].keysym = x
          PROVE  x # k /\ \E i \in 1..Len(v) : v[i].keysym = x
      <4>1. w[j] = v[Skip(p, j)]
        BY <2>2
      <4> QED BY <1>3, <2>1, <2>3, <3>2, <4>1
    <3> QED BY <1>4, <3>1, <3>2
  <2>7. ASSUME NEW i \in 1..Len(w), NEW j \in 1..Len(w), w[i].keysym = w[j].keysym PROVE i = j
    <3>1. w[i] = v[Skip(p, i)] /\ w[j] = v[Skip(p, j)]
      BY <2>2
    <3> QED BY <1>3, <2>3, <2>4, <2>7, <3>1
  <2>8. grabbedModifiers' = grabbedModifiers \ {k} /\ virtualModifiers' = w
    BY <1>1
  <2> QED BY ONLY <2>2, <2>6, <2>7, <2>8 DEF ModifiersKept
<1> QED BY <1>5, <1>6

\* Every step keeps the modifiers.
LEMMA StepKeepsModifiers ==
  ASSUME ModifiersKept, [Next]_vars
  PROVE  ModifiersKept'
PROOF
<1>1. ASSUME UNCHANGED mapped PROVE ModifiersKept'
  <2>1. virtualModifiers' = virtualModifiers /\ grabbedModifiers' = grabbedModifiers
    BY <1>1 DEF mapped
  <2> QED BY <2>1 DEF ModifiersKept
<1>2. ASSUME NEW k \in Keysym, MapKeysymModifier(k) \/ UnmapKeysymModifier(k)
      PROVE  ModifiersKept'
  BY <1>2, MapKeepsModifiers, UnmapKeepsModifiers
<1>3. ASSUME \/ RefreshTimeout
             \/ \E kd \in Definition : AddKeyGrab(kd)
             \/ \E g \in grabs : RemoveKeyGrab(g)
             \/ \E k \in Keysym : KeyEvent(k)
             \/ AddKeyWatcher \/ Crash \/ UNCHANGED vars
      PROVE  UNCHANGED mapped
  BY <1>3 DEF RefreshTimeout, AddKeyGrab, RemoveKeyGrab, KeyEvent, AddKeyWatcher, Crash, vars
<1> QED
  BY <1>1, <1>2, <1>3 DEF Next

\* After every step the manager has what the backend keeps, or will be sent it,
\* or has not taken it.
LEMMA StepKeepsSending ==
  ASSUME Sending, [Next]_vars
  PROVE  Sending'
PROOF
<1>1. CASE RefreshTimeout
  <2>1. Wanted' = Wanted
    BY <1>1 DEF RefreshTimeout, Wanted, mapped, WithLocks
  <2> QED
    BY <1>1, <2>1 DEF RefreshTimeout, Sending
<1>2. ASSUME NEW kd \in Definition, AddKeyGrab(kd) PROVE Sending'
  BY <1>2 DEF AddKeyGrab, ScheduleRefresh, Sending
<1>3. ASSUME NEW g \in grabs, RemoveKeyGrab(g) PROVE Sending'
  <2>1. CASE HasKeyGrab(g.kd)
    BY <1>3, <2>1 DEF RemoveKeyGrab, ScheduleRefresh, Sending
  <2>2. CASE ~HasKeyGrab(g.kd)
    <3>1. grabbedKeys' = grabbedKeys
      BY <1>3, <2>2 DEF RemoveKeyGrab, Ungrabbed, HasKeyGrab
    <3>2. UNCHANGED <<mapped, scheduled, manager>>
      BY <1>3, <2>2 DEF RemoveKeyGrab
    <3> QED
      BY <3>1, <3>2 DEF Sending, Wanted, WithLocks, mapped, manager
  <2> QED
    BY <2>1, <2>2
<1>4. ASSUME NEW k \in Keysym, MapKeysymModifier(k) \/ UnmapKeysymModifier(k)
      PROVE  Sending'
  BY <1>4 DEF MapKeysymModifier, UnmapKeysymModifier, ScheduleRefresh, Sending
<1>5. CASE Crash
  BY <1>5 DEF Crash, Sending
<1>6. ASSUME UNCHANGED <<grabbedKeys, mapped, scheduled, manager>> PROVE Sending'
  BY <1>6 DEF Sending, Wanted, WithLocks, mapped, manager
<1>7. ASSUME NEW k \in Keysym, KeyEvent(k) PROVE Sending'
  BY <1>6, <1>7 DEF KeyEvent
<1>8. CASE AddKeyWatcher \/ UNCHANGED vars
  BY <1>6, <1>8 DEF AddKeyWatcher, vars
<1> QED
  BY <1>1, <1>2, <1>3, <1>4, <1>5, <1>7, <1>8 DEF Next

\* Together these say what the manager has of the grabs and modifiers.
LEMMA ManagerInvSuffices ==
  ASSUME ManagerInv
  PROVE  ManagerHasGrabs
PROOF
<1> SUFFICES ASSUME installed = Wanted
             PROVE  /\ installed.keys = UNION {WithLocks(KeyOf(g.kd)) : g \in grabs}
                    /\ installed.modifiers = {e.keysym : e \in Range(virtualModifiers)}
  BY DEF ManagerInv, Sending, ManagerHasGrabs
<1>1. installed.keys = UNION {WithLocks(k) : k \in grabbedKeys} /\ installed.modifiers = grabbedModifiers
  BY DEF Wanted
<1>2. grabbedKeys = {KeyOf(g.kd) : g \in grabs}
  BY DEF ManagerInv, GrabsAgree, KeysMatchGrabs
<1>3. {WithLocks(k) : k \in grabbedKeys} = {WithLocks(KeyOf(g.kd)) : g \in grabs}
  BY ONLY <1>2, Zenon
<1>4. ASSUME NEW k
      PROVE  k \in grabbedModifiers <=> \E e \in Range(virtualModifiers) : k = e.keysym
  <2>1. PICK S : virtualModifiers \in Seq(S)
    BY DEF ManagerInv, ModifiersKept
  <2>2. DOMAIN virtualModifiers = 1..Len(virtualModifiers)
    BY <2>1
  <2>3. k \in grabbedModifiers <=>
          \E i \in DOMAIN virtualModifiers : virtualModifiers[i].keysym = k
    BY <2>2 DEF ManagerInv, ModifiersKept
  <2> QED BY ONLY <2>3, Zenon DEF Range
<1>5. grabbedModifiers = {e.keysym : e \in Range(virtualModifiers)}
  BY ONLY <1>4, Zenon
<1> QED BY <1>1, <1>3, <1>5

-----------------------------------------------------------------------------
(* The device that is made *)

\* The steps of the device with X11 that give out or take back no id.
LEMMA OthersKeepIds ==
  ASSUME IdsIdentify, UNCHANGED device
  PROVE  IdsIdentify'
BY DEF IdsIdentify, device

\* The backend of X11 may refuse a grab, but the device then keeps none.
LEMMA X11KeepsIds ==
  ASSUME IdsIdentify, X11!Next
  PROVE  IdsIdentify'
PROOF
<1>1. ASSUME NEW kd \in Definition, X11!AddKeyGrab(kd) PROVE IdsIdentify'
  <2>1. X11!KeepGrab(kd)
    BY <1>1 DEF X11!AddKeyGrab
  <2>2. PICK id \in X11!Id : /\ ~IsIdUsed(id) /\ grabs' = grabs \cup {[id |-> id, kd |-> kd]}
                             /\ UNCHANGED watchers
    BY <2>1 DEF X11!KeepGrab, X11!Give, X11!GrabId, X11!IsIdUsed, IsIdUsed
  <2> QED
    BY <2>2, NewGrabKeepsIds
<1>2. ASSUME NEW g \in grabs, X11!RemoveKeyGrab(g) PROVE IdsIdentify'
  <2>1. grabs' = grabs \ {g} /\ UNCHANGED watchers
    BY <1>2 DEF X11!RemoveKeyGrab, X11!DropGrab
  <2> QED
    BY <2>1 DEF IdsIdentify
<1>3. CASE X11!AddKeyWatcher
  <2>1. X11!WatchKeys
    BY <1>3 DEF X11!AddKeyWatcher
  <2>2. PICK id \in X11!Id : ~IsIdUsed(id) /\ watchers' = watchers \cup {id} /\ UNCHANGED grabs
    BY <2>1 DEF X11!WatchKeys, X11!Give, X11!GrabId, X11!IsIdUsed, IsIdUsed
  <2> QED
    BY <2>2, NewWatcherKeepsIds
<1>4. CASE X11!Finalize
  BY <1>4 DEF X11!Finalize, IdsIdentify
<1>5. ASSUME NEW k \in ModifierKey, X11!MapModifier(k) \/ X11!UnmapModifier(k) \/ X11!Key(k)
      PROVE  IdsIdentify'
  BY <1>5, OthersKeepIds DEF X11!MapModifier, X11!UnmapModifier, X11!Key, X11!device, device
<1>6. CASE X11!GrabKeyboard \/ X11!UngrabKeyboard
  BY <1>6, OthersKeepIds DEF X11!GrabKeyboard, X11!UngrabKeyboard, X11!device, device
<1>7. ASSUME NEW w \in X11!Focus, X11!FocusMoves(w) PROVE IdsIdentify'
  BY <1>7, OthersKeepIds DEF X11!FocusMoves, X11!device, device
<1>8. CASE X11!FocusNoticed \/ X11!HandleRaw \/ X11!HandleDevice
  BY <1>8, OthersKeepIds DEF X11!FocusNoticed, X11!HandleRaw, X11!HandleDevice, X11!device, device
<1> QED
  BY <1>1, <1>2, <1>3, <1>4, <1>5, <1>6, <1>7, <1>8 DEF X11!Next

-----------------------------------------------------------------------------

\* Whichever backend the device has, however often ids wrap and whatever the
\* backend refuses, an id stands for one grab or watcher, and the keys that a
\* device with a manager keeps are those of its grabs (get_grab_id,
\* is_id_used, has_key_grab, remove_key_grab).
THEOREM IdsAndKeysStayInAgreement == DevicesSpec => []IdsAndKeysAgree
PROOF
<1>1. DevicesInit => IdsAndKeysAgree
  BY DEF DevicesInit, Init, DeviceInit, IdsAndKeysAgree, IdsIdentify, KeysMatchGrabs
<1>2. IdsAndKeysAgree /\ [DevicesNext]_<<vars, x11Only, backend>> => IdsAndKeysAgree'
  <2> SUFFICES ASSUME IdsAndKeysAgree, [DevicesNext]_<<vars, x11Only, backend>>
               PROVE  IdsAndKeysAgree'
    OBVIOUS
  <2>1. CASE backend = "x11" /\ X11!Next /\ UNCHANGED <<backend, managerOnly>>
    BY <2>1, X11KeepsIds DEF IdsAndKeysAgree
  <2>2. CASE backend = "manager" /\ Next /\ UNCHANGED <<backend, x11Only>>
    <3>1. GrabsAgree
      BY <2>2 DEF IdsAndKeysAgree, GrabsAgree
    <3>2. GrabsAgree'
      BY <2>2, <3>1, StepKeepsGrabs
    <3> QED
      BY <2>2, <3>2 DEF IdsAndKeysAgree, GrabsAgree
  <2>3. CASE UNCHANGED <<vars, x11Only, backend>>
    <3>1. UNCHANGED <<grabs, watchers, grabbedKeys, backend>>
      BY <2>3 DEF vars, device
    <3> QED
      BY <3>1 DEF IdsAndKeysAgree, IdsIdentify, KeysMatchGrabs, KeyOf
  <2> QED
    BY <2>1, <2>2, <2>3 DEF DevicesNext
<1> QED
  BY <1>1, <1>2, PTL DEF DevicesSpec

\* No change of the keys or modifiers is forgotten: once no timeout is set, and
\* if the last call did not fail, the manager has what the assistive technology
\* holds ids of and what is mapped (schedule_refresh_grabs,
\* refresh_keys_timeout_cb, has_key_grab, map_keysym_modifier).
THEOREM ManagerHearsAll == DevicesSpec => []ManagerIsTold
PROOF
<1> DEFINE Inv == backend = "manager" => ManagerInv
<1>1. DevicesInit => Inv
  <2> SUFFICES ASSUME Init PROVE ManagerInv
    BY DEF DevicesInit
  <2>1. GrabsAgree
    BY DEF Init, DeviceInit, GrabsAgree, IdsIdentify, KeysMatchGrabs
  <2>2. ModifiersKept
    <3>1. virtualModifiers = <<>> /\ grabbedModifiers = {}
      BY DEF Init
    <3>2. virtualModifiers \in Seq({}) /\ Len(virtualModifiers) = 0 /\ 1..0 = {}
      BY <3>1
    <3> QED BY <3>1, <3>2 DEF ModifiersKept
  <2>3. Sending
    BY DEF Init, Sending, Wanted, NoGrabs
  <2> QED BY <2>1, <2>2, <2>3 DEF ManagerInv
<1>2. Inv /\ [DevicesNext]_<<vars, x11Only, backend>> => Inv'
  <2> SUFFICES ASSUME Inv, [DevicesNext]_<<vars, x11Only, backend>>, backend' = "manager"
               PROVE  ManagerInv'
    OBVIOUS
  <2>1. backend = "manager" /\ [Next]_vars
    BY DEF DevicesNext
  <2>2. GrabsAgree' /\ ModifiersKept' /\ Sending'
    BY <2>1, StepKeepsGrabs, StepKeepsModifiers, StepKeepsSending DEF ManagerInv
  <2> QED BY <2>2 DEF ManagerInv
<1>3. Inv => ManagerIsTold
  BY ManagerInvSuffices DEF ManagerIsTold
<1> QED
  BY <1>1, <1>2, <1>3, PTL DEF DevicesSpec

-----------------------------------------------------------------------------
(* The key events of X *)

XEvent == [kind : {"raw", "device"}, keycode : ModifierKey, pressed : BOOLEAN, focus : X11!Focus]

\* In a queue of events, a raw event is followed at once by its companion, with the
\* focus that it had, or has none if there was no window; no other event has one.
Paired(q) ==
  /\ q \in Seq(XEvent)
  /\ \A i \in 1..Len(q) : q[i].kind = "raw" /\ q[i].focus # NoWindow =>
       i < Len(q) /\ q[i + 1].kind = "device" /\ q[i + 1].focus = q[i].focus
  /\ \A i \in 1..Len(q) : q[i].kind = "device" \/ q[i].focus = NoWindow =>
       i = Len(q) \/ q[i + 1].kind = "raw"

\* Between the two events of a pair the key was reported if the raw event says so;
\* between two pairs it was reported.
ReportedSoFar ==
  IF queue # <<>> /\ Head(queue).kind = "device"
  THEN reported = IF X11!UsingRaw(Head(queue).focus) THEN 1 ELSE 0
  ELSE reported = 1

KeysInv == focus \in X11!Focus /\ Paired(queue) /\ (raced \/ ReportedSoFar)

\* The elements of a sequence are before its last one, or are that.
LEMMA NextIndex ==
  \A n \in Nat : \A i \in 1..n : (i = n \/ i + 1 \in 1..n) /\ (i < n => i + 1 \in 1..n)
OBVIOUS

\* The elements of a sequence to which one or two are added.
LEMMA AddedElements ==
  ASSUME NEW S, NEW q \in Seq(S), NEW a \in S, NEW b \in S
  PROVE  /\ q \o <<a>> \in Seq(S) /\ Len(q \o <<a>>) = Len(q) + 1
         /\ \A i \in 1..Len(q) : (q \o <<a>>)[i] = q[i]
         /\ (q \o <<a>>)[Len(q) + 1] = a
         /\ q \o <<a, b>> \in Seq(S) /\ Len(q \o <<a, b>>) = Len(q) + 2
         /\ \A i \in 1..Len(q) : (q \o <<a, b>>)[i] = q[i]
         /\ (q \o <<a, b>>)[Len(q) + 1] = a /\ (q \o <<a, b>>)[Len(q) + 2] = b
<1>1. /\ <<a>> \in Seq(S) /\ Len(<<a>>) = 1 /\ <<a>>[1] = a
      /\ <<a, b>> \in Seq(S) /\ Len(<<a, b>>) = 2 /\ <<a, b>>[1] = a /\ <<a, b>>[2] = b
  OBVIOUS
<1>2. Len(q) \in Nat
  OBVIOUS
<1>3. ASSUME NEW p \in Seq(S)
      PROVE  /\ q \o p \in Seq(S) /\ Len(q \o p) = Len(q) + Len(p)
             /\ \A i \in 1..Len(q) : (q \o p)[i] = q[i]
             /\ \A i \in 1..Len(p) : (q \o p)[Len(q) + i] = p[i]
  BY <1>2
<1>4. 1 \in 1..1 /\ 1 \in 1..2 /\ 2 \in 1..2
  OBVIOUS
<1> QED BY ONLY <1>1, <1>3, <1>4

\* A queue without its first event.
LEMMA PairedTail ==
  ASSUME NEW q, Paired(q), q # <<>>
  PROVE  /\ Paired(Tail(q))
         /\ Head(q).kind = "raw" /\ Head(q).focus # NoWindow =>
              Tail(q) # <<>> /\ Head(Tail(q)).kind = "device" /\ Head(Tail(q)).focus = Head(q).focus
         /\ Head(q).kind = "device" \/ Head(q).focus = NoWindow =>
              Tail(q) = <<>> \/ Head(Tail(q)).kind # "device"
<1> PICK t : t = Tail(q)
  OBVIOUS
<1>1. /\ q \in Seq(XEvent) /\ Head(q) = q[1] /\ Len(q) \in Nat \ {0}
      /\ t \in Seq(XEvent) /\ Len(t) = Len(q) - 1 /\ Len(t) \in Nat
      /\ \A i \in 1..Len(t) : t[i] = q[i + 1]
  BY DEF Paired
<1>2. \A i \in 1..Len(t) : i + 1 \in 1..Len(q) /\ (i + 1 = Len(q) <=> i = Len(t))
  BY <1>1
<1>3. \A i \in 1..Len(t) : i < Len(t) => i + 1 \in 1..Len(t)
  BY <1>1
<1>4. ASSUME NEW i \in 1..Len(t), t[i].kind = "raw", t[i].focus # NoWindow
      PROVE  /\ i < Len(t) /\ t[i + 1].kind = "device"
             /\ t[i + 1].focus = t[i].focus
  <2>1. q[i + 1].kind = "raw" /\ q[i + 1].focus # NoWindow /\ i + 1 \in 1..Len(q)
    BY <1>1, <1>2, <1>4
  <2>2. /\ i + 1 < Len(q) /\ q[(i + 1) + 1].kind = "device"
        /\ q[(i + 1) + 1].focus = q[i + 1].focus
    BY <2>1 DEF Paired
  <2>3. i < Len(t) /\ i + 1 \in 1..Len(t)
    BY <1>1, <1>3, <2>2, SMTT(40)
  <2> QED BY <1>1, <2>2, <2>3
<1>5. ASSUME NEW i \in 1..Len(t), t[i].kind = "device" \/ t[i].focus = NoWindow
      PROVE  i = Len(t) \/ t[i + 1].kind = "raw"
  <2>1. (q[i + 1].kind = "device" \/ q[i + 1].focus = NoWindow) /\ i + 1 \in 1..Len(q)
    BY <1>1, <1>2, <1>5
  <2>2. i + 1 = Len(q) \/ q[(i + 1) + 1].kind = "raw"
    BY <2>1 DEF Paired
  <2>3. i = Len(t) \/ i + 1 \in 1..Len(t)
    <3>1. Len(t) \in Nat
      BY <1>1
    <3> QED BY ONLY <3>1, i \in 1..Len(t), NextIndex
  <2> QED BY <1>1, <1>2, <2>2, <2>3
<1>6. /\ 1 \in 1..Len(q)
      /\ Len(q) = 1 => t = <<>>
      /\ 1 < Len(q) => t # <<>> /\ Head(t) = q[1 + 1]
  BY <1>1, SMTT(40)
<1>7. /\ q[1].kind = "raw" /\ q[1].focus # NoWindow =>
           1 < Len(q) /\ q[1 + 1].kind = "device" /\ q[1 + 1].focus = q[1].focus
      /\ q[1].kind = "device" \/ q[1].focus = NoWindow => 1 = Len(q) \/ q[1 + 1].kind = "raw"
  BY <1>6 DEF Paired
<1>8. Paired(t)
  BY <1>1, <1>4, <1>5 DEF Paired
<1> QED BY <1>1, <1>6, <1>7, <1>8

\* A queue to which the events of another key are added.
LEMMA PairedMore ==
  ASSUME NEW q, Paired(q), NEW w,
         NEW raw \in XEvent, raw.kind = "raw", raw.focus = w,
         NEW own \in XEvent, own.kind = "device", own.focus = w,
         NEW more \in Seq(XEvent), \A i \in 1..Len(q) : more[i] = q[i],
         more[Len(q) + 1] = raw, Len(more) = Len(q) + IF w = NoWindow THEN 1 ELSE 2,
         w # NoWindow => more[Len(q) + 2] = own
  PROVE  /\ Paired(more) /\ more # <<>>
         /\ q # <<>> => Head(more) = Head(q)
         /\ q = <<>> => Head(more).kind = "raw"
<1>1. /\ raw \in XEvent /\ raw.kind = "raw" /\ raw.focus = w
      /\ own \in XEvent /\ own.kind = "device" /\ own.focus = w
  OBVIOUS
<1>2. q \in Seq(XEvent) /\ Len(q) \in Nat
  BY DEF Paired
<1>3. /\ \A i \in 1..Len(q) : more[i] = q[i]
      /\ more[Len(q) + 1] = raw
      /\ Len(more) = Len(q) + IF w = NoWindow THEN 1 ELSE 2
      /\ w # NoWindow => more[Len(q) + 2] = own
  OBVIOUS
<1>4. ASSUME NEW i \in 1..Len(more), more[i].kind = "raw", more[i].focus # NoWindow
      PROVE  i < Len(more) /\ more[i + 1].kind = "device" /\ more[i + 1].focus = more[i].focus
  <2>1. CASE i \in 1..Len(q)
    <3>1. i < Len(q) /\ q[i + 1].kind = "device" /\ q[i + 1].focus = q[i].focus
      BY <1>3, <1>4, <2>1 DEF Paired
    <3>2. i + 1 \in 1..Len(q) /\ i < Len(more)
      BY <1>2, <1>3, <3>1
    <3> QED BY <1>3, <2>1, <3>1, <3>2
  <2>2. CASE i = Len(q) + 1
    BY <1>1, <1>2, <1>3, <1>4, <2>2
  <2>3. CASE i = Len(q) + 2
    BY <1>1, <1>2, <1>3, <1>4, <2>3
  <2> QED BY <1>2, <1>3, <2>1, <2>2, <2>3
<1>5. ASSUME NEW i \in 1..Len(more), more[i].kind = "device" \/ more[i].focus = NoWindow
      PROVE  i = Len(more) \/ more[i + 1].kind = "raw"
  <2>1. CASE i \in 1..Len(q)
    <3>1. i = Len(q) \/ q[i + 1].kind = "raw"
      BY <1>3, <1>5, <2>1 DEF Paired
    <3>2. i = Len(q) \/ i + 1 \in 1..Len(q)
      BY <1>2, <2>1
    <3> QED BY <1>1, <1>3, <3>1, <3>2
  <2>2. CASE i = Len(q) + 1
    BY <1>1, <1>2, <1>3, <1>5, <2>2
  <2>3. CASE i = Len(q) + 2
    BY <1>1, <1>2, <1>3, <1>5, <2>3
  <2> QED BY <1>2, <1>3, <2>1, <2>2, <2>3
<1>6. Paired(more)
  BY <1>3, <1>4, <1>5 DEF Paired
<1>7. /\ more # <<>> /\ Head(more) = more[1]
      /\ q # <<>> => Head(q) = q[1] /\ 1 \in 1..Len(q)
      /\ q = <<>> => Len(q) + 1 = 1
  BY <1>2, <1>3
<1> QED BY <1>1, <1>3, <1>6, <1>7

\* The steps of the device with X11.  Only a key event and its handling touch the
\* queue and what was reported; the focus may change between the two of a pair.
LEMMA X11KeepsKeys ==
  ASSUME KeysInv, X11!Next
  PROVE  KeysInv'
<1>0. \A w : X11!UsingRaw(w) \in BOOLEAN
  BY DEF X11!UsingRaw
<1>1. CASE UNCHANGED <<focus, queue, reported, raced>>
  BY <1>1 DEF KeysInv, ReportedSoFar, Paired
<1>2. CASE \/ \E kd \in Definition : X11!AddKeyGrab(kd)
           \/ \E g \in grabs : X11!RemoveKeyGrab(g)
           \/ \E k \in ModifierKey : X11!MapModifier(k) \/ X11!UnmapModifier(k)
           \/ X11!AddKeyWatcher \/ X11!GrabKeyboard \/ X11!UngrabKeyboard \/ X11!Finalize
           \/ X11!FocusNoticed
  <2>1. UNCHANGED <<focus, queue, reported, raced>>
    BY <1>2 DEF X11!AddKeyGrab, X11!RemoveKeyGrab, X11!MapModifier, X11!UnmapModifier,
       X11!AddKeyWatcher, X11!GrabKeyboard, X11!UngrabKeyboard, X11!Finalize, X11!FocusNoticed,
       X11!rest, X11!server
  <2> QED BY <1>1, <2>1
<1>3. ASSUME NEW w \in X11!Focus, X11!FocusMoves(w) PROVE KeysInv'
  BY <1>3 DEF KeysInv, ReportedSoFar, Paired, X11!FocusMoves
<1>4. ASSUME NEW k \in ModifierKey, X11!Key(k) PROVE KeysInv'
  <2> PICK raw, own :
        /\ raw = [kind |-> "raw", keycode |-> k, pressed |-> k \notin down, focus |-> focus]
        /\ own = [kind |-> "device", keycode |-> k, pressed |-> k \notin down, focus |-> focus]
    OBVIOUS
  <2>1. /\ IF focus = NoWindow THEN queue' = queue \o <<raw>> ELSE queue' = queue \o <<raw, own>>
        /\ UNCHANGED <<focus, reported, raced>>
    BY <1>4 DEF X11!Key
  <2>2. focus \in X11!Focus /\ Paired(queue)
    BY DEF KeysInv
  <2>3. /\ raw \in XEvent /\ raw.kind = "raw" /\ raw.focus = focus
        /\ own \in XEvent /\ own.kind = "device" /\ own.focus = focus
    BY <2>2 DEF XEvent
  <2>4. queue \in Seq(XEvent)
    BY <2>2 DEF Paired
  <2>5. ASSUME focus = NoWindow
        PROVE  /\ Paired(queue') /\ queue' # <<>>
               /\ queue # <<>> => Head(queue') = Head(queue)
               /\ queue = <<>> => Head(queue').kind = "raw"
    <3>1. queue' = queue \o <<raw>>
      BY <2>1, <2>5
    <3>2. /\ queue' \in Seq(XEvent) /\ \A i \in 1..Len(queue) : queue'[i] = queue[i]
          /\ queue'[Len(queue) + 1] = raw /\ Len(queue') = Len(queue) + 1
      BY ONLY <2>3, <2>4, <3>1, AddedElements
    <3> QED BY ONLY <2>2, <2>3, <2>5, <3>2, PairedMore
  <2>6. ASSUME focus # NoWindow
        PROVE  /\ Paired(queue') /\ queue' # <<>>
               /\ queue # <<>> => Head(queue') = Head(queue)
               /\ queue = <<>> => Head(queue').kind = "raw"
    <3>1. queue' = queue \o <<raw, own>>
      BY <2>1, <2>6
    <3>2. /\ queue' \in Seq(XEvent) /\ \A i \in 1..Len(queue) : queue'[i] = queue[i]
          /\ queue'[Len(queue) + 1] = raw /\ Len(queue') = Len(queue) + 2
          /\ queue'[Len(queue) + 2] = own
      BY ONLY <2>3, <2>4, <3>1, AddedElements
    <3> QED BY ONLY <2>2, <2>3, <2>6, <3>2, PairedMore
  <2>7. /\ Paired(queue') /\ queue' # <<>>
        /\ queue # <<>> => Head(queue') = Head(queue)
        /\ queue = <<>> => Head(queue').kind = "raw"
    BY <2>5, <2>6
  <2>8. ReportedSoFar => ReportedSoFar'
    BY <2>1, <2>7 DEF ReportedSoFar, X11!UsingRaw
  <2> QED BY <2>1, <2>7, <2>8 DEF KeysInv, Paired
<1>5. CASE X11!HandleRaw
  <2>1. /\ queue # <<>> /\ Head(queue).kind = "raw" /\ queue' = Tail(queue)
        /\ reported' = IF ~X11!UsingRaw(focusedWindow) THEN 0 ELSE 1
        /\ raced' = (raced \/ X11!UsingRaw(Head(queue).focus) = ~X11!UsingRaw(focusedWindow))
        /\ focus' = focus
    BY <1>5 DEF X11!HandleRaw, X11!server
  <2>2. /\ Paired(Tail(queue))
        /\ Head(queue).focus # NoWindow =>
             /\ Tail(queue) # <<>> /\ Head(Tail(queue)).kind = "device"
             /\ Head(Tail(queue)).focus = Head(queue).focus
        /\ Head(queue).focus = NoWindow => Tail(queue) = <<>> \/ Head(Tail(queue)).kind # "device"
    BY <2>1, PairedTail DEF KeysInv
  <2>3. X11!UsingRaw(NoWindow)
    BY DEF X11!UsingRaw
  <2>4. ~raced' => reported' = IF X11!UsingRaw(Head(queue).focus) THEN 1 ELSE 0
    <3>1. ~raced' => ~(X11!UsingRaw(Head(queue).focus) = ~X11!UsingRaw(focusedWindow))
      BY <2>1, Zenon
    <3>2. ~raced' => (X11!UsingRaw(Head(queue).focus) <=> X11!UsingRaw(focusedWindow))
      BY ONLY <3>1, <1>0
    <3> QED BY ONLY <2>1, <3>2
  <2>5. CASE Head(queue).focus = NoWindow
    BY <2>1, <2>2, <2>3, <2>4, <2>5 DEF KeysInv, ReportedSoFar, Paired
  <2>6. CASE Head(queue).focus # NoWindow
    BY <2>1, <2>2, <2>4, <2>6 DEF KeysInv, ReportedSoFar, Paired, X11!UsingRaw
  <2> QED BY <2>5, <2>6
<1>6. CASE X11!HandleDevice
  <2>1. /\ queue # <<>> /\ Head(queue).kind = "device" /\ queue' = Tail(queue)
        /\ reported' = IF ~X11!UsingRaw(focusedWindow') THEN reported + 1 ELSE reported
        /\ raced' = (raced \/ X11!UsingRaw(Head(queue).focus) # X11!UsingRaw(focusedWindow'))
        /\ focus' = focus
    BY <1>6 DEF X11!HandleDevice, X11!IsReported, X11!server
  <2>2. /\ Paired(Tail(queue))
        /\ Tail(queue) = <<>> \/ Head(Tail(queue)).kind # "device"
    BY <2>1, PairedTail DEF KeysInv
  <2>3. ~raced' => reported' = 1
    <3>1. ~raced' => ~(X11!UsingRaw(Head(queue).focus) # X11!UsingRaw(focusedWindow'))
      BY <2>1, Zenon
    <3>2. ~raced' => (X11!UsingRaw(Head(queue).focus) <=> X11!UsingRaw(focusedWindow'))
      BY ONLY <3>1, <1>0
    <3>3. ~raced' => reported = IF X11!UsingRaw(Head(queue).focus) THEN 1 ELSE 0
      BY <2>1 DEF KeysInv, ReportedSoFar
    <3> QED BY ONLY <2>1, <3>2, <3>3
  <2> QED BY <2>1, <2>2, <2>3 DEF KeysInv, ReportedSoFar, Paired
<1> QED
  BY <1>2, <1>3, <1>4, <1>5, <1>6 DEF X11!Next

\* On X11 a key event is reported exactly once, by its raw event or by the other
\* one, whatever the focus and the modifiers do between the two, unless the device
\* was wrong about the focus (do_event_dispatch, using_raw_key_fallback).
THEOREM KeysAreReportedOnce == DevicesSpec => []KeyReportedOnce
PROOF
<1>1. DevicesInit => KeysInv
  BY DEF DevicesInit, X11!Init, KeysInv, ReportedSoFar, Paired
<1>2. KeysInv => KeyReportedOnce
  BY DEF KeysInv, ReportedSoFar, KeyReportedOnce, X11!KeyReportedOnce
<1>3. KeysInv /\ [DevicesNext]_<<vars, x11Only, backend>> => KeysInv'
  <2> SUFFICES ASSUME KeysInv, [DevicesNext]_<<vars, x11Only, backend>>
               PROVE  KeysInv'
    OBVIOUS
  <2>1. CASE UNCHANGED x11Only
    BY <2>1 DEF x11Only, KeysInv, ReportedSoFar, Paired
  <2> QED
    BY <2>1, X11KeepsKeys DEF DevicesNext
<1> QED
  BY <1>1, <1>2, <1>3, PTL DEF DevicesSpec

-----------------------------------------------------------------------------
(* Loops over a list *)

\* What holds before the loop and is kept by each turn holds after each.
LEMMA UpTo ==
  ASSUME NEW K \in Nat, NEW P, 0 \in P, \A n \in 1..K : n - 1 \in P => n \in P
  PROVE  0..K \subseteq P
<1> DEFINE I == {n \in 0..K : n \notin P}
<1>1. CASE I = {}
  BY <1>1
<1>2. CASE I # {}
  <2>1. I \in SUBSET Nat
    OBVIOUS
  <2> HIDE DEF I
  <2>2. PICK m \in I : \A j \in I : m <= j
    BY <1>2, <2>1, Least
  <2>3. m \in 0..K /\ m \notin P /\ m # 0
    BY DEF I
  <2>4. m - 1 \in 0..K /\ m \in 1..K /\ ~(m <= m - 1)
    BY <2>3
  <2>5. m - 1 \in P
    BY <2>2, <2>4 DEF I
  <2> QED BY <2>3, <2>4, <2>5
<1> QED BY <1>1, <1>2

-----------------------------------------------------------------------------
(* What X holds for a list of grabs *)

\* Two definitions are for one key and the same modifiers of X.
Alike(d, e) ==
  d.keycode = e.keycode /\ d.keysym = e.keysym /\ X11!Physical(d) = X11!Physical(e)

\* Definitions that are for one key in X are for the same one, and remove_key_grab
\* can tell them from each other.
DefinitionsAreApart ==
  \A d, e \in Definition :
    /\ X11!SameKey(d, e) <=> d = e
    /\ \/ Alike(d, e)
       \/ X11!Code(d) # X11!Code(e)
       \/ X11!Physical(d) \ {LockBit, NumBit} # X11!Physical(e) \ {LockBit, NumBit}

Entry == [kd : Definition, enabled : BOOLEAN, window : X11!Focus]

Grabbed(w, d) == X11!Granted(X11!Grabbing(w, X11!Code(d), X11!Physical(d)))
Released(w, d) == X11!Ungrabbing(w, X11!Code(d), X11!Physical(d))

\* ungrab_key gives back at least what grab_key takes.
LEMMA ReleasedAreGrabbed ==
  ASSUME NEW w, NEW d
  PROVE  Grabbed(w, d) \subseteq Released(w, d)
BY DEF Grabbed, Released, X11!Granted, X11!Grabbing, X11!Ungrabbing, X11!Combinations

\* Duplicates grab the same.
LEMMA AlikeGrabSame ==
  ASSUME NEW w, NEW d, NEW e, Alike(d, e)
  PROVE  Grabbed(w, d) = Grabbed(w, e)
<1>1. X11!Code(d) = X11!Code(e) /\ X11!Physical(d) = X11!Physical(e)
  BY DEF Alike, X11!Code
<1> QED BY <1>1 DEF Grabbed

\* Other definitions grab nothing that is given back with this one.
LEMMA OthersGrabElse ==
  ASSUME DefinitionsAreApart, NEW w, NEW d \in Definition, NEW e \in Definition, ~Alike(d, e)
  PROVE  Grabbed(w, d) \cap Released(w, e) = {}
<1> DEFINE Locks == {LockBit, NumBit}
<1>1. \/ X11!Code(d) # X11!Code(e)
      \/ X11!Physical(d) \ Locks # X11!Physical(e) \ Locks
  BY DEF DefinitionsAreApart
<1>2. ASSUME NEW c \in Grabbed(w, d), c \in Released(w, e) PROVE FALSE
  <2>1. PICK s \in SUBSET Locks : c = <<w, X11!Code(d), X11!Physical(d) \cup s>>
    BY DEF Grabbed, X11!Granted, X11!Grabbing, X11!Combinations
  <2>2. PICK t \in SUBSET Locks : c = <<w, X11!Code(e), X11!Physical(e) \cup t>>
    BY <1>2 DEF Released, X11!Ungrabbing, X11!Combinations
  <2>3. X11!Code(d) = X11!Code(e) /\ X11!Physical(d) \cup s = X11!Physical(e) \cup t
    BY <2>1, <2>2
  <2>4. X11!Physical(d) \ Locks = (X11!Physical(d) \cup s) \ Locks
    OBVIOUS
  <2>5. X11!Physical(e) \ Locks = (X11!Physical(e) \cup t) \ Locks
    OBVIOUS
  <2> QED BY <1>1, <2>3, <2>4, <2>5
<1> QED BY <1>2

\* The grabs of the entries of a list that are enabled.
Enabled(list) == {i \in 1..Len(list) : list[i].enabled}
OwnGrabs(list) == UNION {Grabbed(list[i].window, list[i].kd) : i \in Enabled(list)}

\* X holds what the entries of list that are enabled grab for window w, and xs.
Holds(list, hs, w, xs) ==
  /\ list \in Seq(Entry)
  /\ \A i \in 1..Len(list) : list[i].enabled => list[i].window = w
  /\ hs = xs \cup OwnGrabs(list)

\* Only entry i of a list changes: it is enabled or not, for a window.
Turned(l, m, i, b, w) ==
  /\ m \in Seq(Entry) /\ Len(m) = Len(l)
  /\ \A j \in 1..Len(l) : j # i => m[j] = l[j]
  /\ m[i].kd = l[i].kd /\ m[i].enabled = b /\ m[i].window = w

\* One element of a list is replaced.
LEMMA ElementChanged ==
  ASSUME NEW S, NEW l \in Seq(S), NEW i \in 1..Len(l), NEW x \in S,
         NEW m, m = [l EXCEPT ![i] = x]
  PROVE  /\ m \in Seq(S) /\ Len(m) = Len(l) /\ m[i] = x
         /\ \A j \in 1..Len(l) : j # i => m[j] = l[j]
OBVIOUS

\* The assignments of enable_key_grab and disable_key_grab.
LEMMA EntryChanged ==
  ASSUME NEW l \in Seq(Entry), NEW i \in 1..Len(l), NEW b \in BOOLEAN, NEW w \in X11!Focus
  PROVE  /\ Turned(l, [l EXCEPT ![i].enabled = b], i, b, l[i].window)
         /\ Turned(l, [l EXCEPT ![i].enabled = b, ![i].window = w], i, b, w)
<1>1. l[i] \in Entry
  OBVIOUS
<1>2. /\ [l[i] EXCEPT !.enabled = b] \in Entry
      /\ [[l[i] EXCEPT !.enabled = b] EXCEPT !.window = w] \in Entry
  BY <1>1 DEF Entry
<1>3. /\ [l[i] EXCEPT !.enabled = b].kd = l[i].kd
      /\ [l[i] EXCEPT !.enabled = b].enabled = b
      /\ [l[i] EXCEPT !.enabled = b].window = l[i].window
      /\ [[l[i] EXCEPT !.enabled = b] EXCEPT !.window = w].kd = l[i].kd
      /\ [[l[i] EXCEPT !.enabled = b] EXCEPT !.window = w].enabled = b
      /\ [[l[i] EXCEPT !.enabled = b] EXCEPT !.window = w].window = w
  BY <1>1 DEF Entry
<1>5. [l EXCEPT ![i].enabled = b] = [l EXCEPT ![i] = [l[i] EXCEPT !.enabled = b]]
  OBVIOUS
<1>6. [l EXCEPT ![i].enabled = b, ![i].window = w]
        = [l EXCEPT ![i] = [[l[i] EXCEPT !.enabled = b] EXCEPT !.window = w]]
  OBVIOUS
<1> PICK m, k : /\ m = [l EXCEPT ![i].enabled = b]
                /\ k = [l EXCEPT ![i].enabled = b, ![i].window = w]
  OBVIOUS
<1> PICK d, e : /\ d = [l[i] EXCEPT !.enabled = b]
                /\ e = [[l[i] EXCEPT !.enabled = b] EXCEPT !.window = w]
  OBVIOUS
<1>7. m = [l EXCEPT ![i] = d] /\ k = [l EXCEPT ![i] = e]
  BY <1>5, <1>6
<1>8. /\ d \in Entry /\ d.kd = l[i].kd /\ d.enabled = b /\ d.window = l[i].window
      /\ e \in Entry /\ e.kd = l[i].kd /\ e.enabled = b /\ e.window = w
  BY <1>2, <1>3
<1>9. /\ m \in Seq(Entry) /\ Len(m) = Len(l) /\ m[i] = d
      /\ \A j \in 1..Len(l) : j # i => m[j] = l[j]
  BY <1>7, <1>8, ElementChanged
<1>10. /\ k \in Seq(Entry) /\ Len(k) = Len(l) /\ k[i] = e
       /\ \A j \in 1..Len(l) : j # i => k[j] = l[j]
  <2>1. e \in Entry /\ k = [l EXCEPT ![i] = e]
    BY <1>7, <1>8
  <2> QED BY ONLY l \in Seq(Entry), i \in 1..Len(l), <2>1, ElementChanged
<1>11. Turned(l, m, i, b, l[i].window)
  BY <1>8, <1>9 DEF Turned
<1>12. Turned(l, k, i, b, w)
  BY <1>8, <1>10 DEF Turned
<1> QED BY <1>7, <1>11, <1>12

\* An entry with no duplicate that is enabled: without it, what it grabs is not held,
\* with one, the other holds it.
LEMMA TurnedOff ==
  ASSUME DefinitionsAreApart, NEW l, NEW w, NEW i \in 1..Len(l), NEW hs,
         Holds(l, hs, w, {}), l[i].enabled, NEW m, Turned(l, m, i, FALSE, w)
  PROVE  Holds(m, IF X11!HasActiveDuplicate(m, i) THEN hs ELSE hs \ Released(w, l[i].kd), w, {})
<1>1. /\ l \in Seq(Entry) /\ m \in Seq(Entry) /\ Len(m) = Len(l)
      /\ \A j \in 1..Len(l) : j # i => m[j] = l[j]
      /\ m[i].kd = l[i].kd /\ ~m[i].enabled
      /\ \A j \in 1..Len(l) : l[j].enabled => l[j].window = w
      /\ hs = OwnGrabs(l)
  BY DEF Turned, Holds
<1>2. ASSUME NEW j \in 1..Len(l) PROVE l[j].kd \in Definition
  <2>1. l[j] \in Entry
    BY <1>1
  <2> QED BY <2>1 DEF Entry
<1>3. \A j \in 1..Len(m) : m[j].enabled => m[j].window = w
  BY <1>1
<1>4. Enabled(l) = Enabled(m) \cup {i} /\ i \notin Enabled(m)
  BY <1>1 DEF Enabled
<1>5. \A j \in Enabled(m) : j \in 1..Len(l) /\ j # i /\ m[j] = l[j] /\ l[j].window = w
  BY <1>1 DEF Enabled
<1>6. l[i].window = w
  BY <1>1
<1>7. OwnGrabs(l) = OwnGrabs(m) \cup Grabbed(w, l[i].kd)
  BY <1>4, <1>5, <1>6 DEF OwnGrabs
<1>8. CASE X11!HasActiveDuplicate(m, i)
  <2>1. PICK j \in 1..Len(m) : j # i /\ m[j].enabled /\ Alike(m[j].kd, m[i].kd)
    BY <1>1, <1>8 DEF X11!HasActiveDuplicate, Alike
  <2>2. j \in Enabled(m) /\ m[j].window = w /\ Alike(m[j].kd, l[i].kd)
    BY <1>1, <1>3, <2>1 DEF Enabled
  <2>3. Grabbed(w, l[i].kd) = Grabbed(m[j].window, m[j].kd)
    BY <2>2, AlikeGrabSame
  <2>4. Grabbed(w, l[i].kd) \subseteq OwnGrabs(m)
    BY <2>2, <2>3 DEF OwnGrabs
  <2>5. hs = {} \cup OwnGrabs(m)
    BY <1>1, <1>7, <2>4
  <2> QED BY <1>1, <1>3, <1>8, <2>5 DEF Holds
<1>9. CASE ~X11!HasActiveDuplicate(m, i)
  <2>1. \A j \in Enabled(m) : ~Alike(m[j].kd, m[i].kd)
    BY <1>1, <1>5, <1>9 DEF X11!HasActiveDuplicate, Alike, Enabled
  <2>2. \A j \in Enabled(m) : Grabbed(m[j].window, m[j].kd) \cap Released(w, l[i].kd) = {}
    BY <1>1, <1>2, <1>5, <2>1, OthersGrabElse
  <2>3. OwnGrabs(m) \cap Released(w, l[i].kd) = {}
    BY <2>2 DEF OwnGrabs
  <2>4. Grabbed(w, l[i].kd) \subseteq Released(w, l[i].kd)
    BY ReleasedAreGrabbed
  <2>5. hs \ Released(w, l[i].kd) = {} \cup OwnGrabs(m)
    BY <1>1, <1>7, <2>3, <2>4
  <2> QED BY <1>1, <1>3, <1>9, <2>5 DEF Holds
<1> QED BY <1>8, <1>9

\* With a duplicate that is enabled, what the entry grabs is held already.
LEMMA TurnedOn ==
  ASSUME NEW l, NEW w, NEW i \in 1..Len(l), NEW hs,
         Holds(l, hs, w, {}), ~l[i].enabled, NEW m, Turned(l, m, i, TRUE, w)
  PROVE  Holds(m, IF X11!HasActiveDuplicate(l, i) THEN hs ELSE hs \cup Grabbed(w, l[i].kd), w, {})
<1>1. /\ l \in Seq(Entry) /\ m \in Seq(Entry) /\ Len(m) = Len(l)
      /\ \A j \in 1..Len(l) : j # i => m[j] = l[j]
      /\ m[i].kd = l[i].kd /\ m[i].enabled /\ m[i].window = w
      /\ \A j \in 1..Len(l) : l[j].enabled => l[j].window = w
      /\ hs = OwnGrabs(l)
  BY DEF Turned, Holds
<1>2. \A j \in 1..Len(m) : m[j].enabled => m[j].window = w
  BY <1>1
<1>3. Enabled(m) = Enabled(l) \cup {i} /\ i \notin Enabled(l)
  BY <1>1 DEF Enabled
<1>4. \A j \in Enabled(l) : j \in 1..Len(l) /\ j # i /\ m[j] = l[j] /\ l[j].window = w
  BY <1>1 DEF Enabled
<1>5. OwnGrabs(m) = OwnGrabs(l) \cup Grabbed(w, l[i].kd)
  BY <1>1, <1>3, <1>4 DEF OwnGrabs
<1>6. CASE X11!HasActiveDuplicate(l, i)
  <2>1. PICK j \in 1..Len(l) : j # i /\ l[j].enabled /\ Alike(l[j].kd, l[i].kd)
    BY <1>1, <1>6 DEF X11!HasActiveDuplicate, Alike
  <2>2. j \in Enabled(l) /\ l[j].window = w
    BY <1>1, <2>1 DEF Enabled
  <2>3. Grabbed(w, l[i].kd) = Grabbed(l[j].window, l[j].kd)
    BY <2>1, <2>2, AlikeGrabSame
  <2>4. Grabbed(w, l[i].kd) \subseteq OwnGrabs(l)
    BY <2>2, <2>3 DEF OwnGrabs
  <2>5. hs = {} \cup OwnGrabs(m)
    BY <1>1, <1>5, <2>4
  <2> QED BY <1>1, <1>2, <1>6, <2>5 DEF Holds
<1>7. CASE ~X11!HasActiveDuplicate(l, i)
  BY <1>1, <1>2, <1>5, <1>7 DEF Holds
<1> QED BY <1>6, <1>7

\* No entry is enabled.
AllOff(list) == \A i \in 1..Len(list) : ~list[i].enabled

\* Such a list has no grabs.
LEMMA NothingOwned ==
  ASSUME NEW list, AllOff(list)
  PROVE  OwnGrabs(list) = {}
BY DEF AllOff, OwnGrabs, Enabled

\* disable_key_grab and enable_key_grab.
LEMMA DisabledHolds ==
  ASSUME DefinitionsAreApart, NEW s, NEW w, NEW xs, Holds(s.list, s.held, w, xs),
         xs = {} \/ AllOff(s.list), NEW i \in 1..Len(s.list)
  PROVE  /\ Holds(X11!Disabled(s, i).list, X11!Disabled(s, i).held, w, xs)
         /\ Turned(s.list, X11!Disabled(s, i).list, i, FALSE, s.list[i].window)
<1> DEFINE l == s.list
           m == [l EXCEPT ![i].enabled = FALSE]
<1>1. l \in Seq(Entry) /\ l[i] \in Entry
  BY DEF Holds
<1>2. CASE ~l[i].enabled
  <2>1. X11!Disabled(s, i) = s
    BY <1>2 DEF X11!Disabled
  <2>2. Turned(l, l, i, FALSE, l[i].window)
    BY <1>1, <1>2 DEF Turned, Entry
  <2> QED BY <2>1, <2>2
<1>3. CASE l[i].enabled
  <2>1. Turned(l, m, i, FALSE, l[i].window)
    <3>1. l[i].window \in X11!Focus /\ i \in 1..Len(l)
      BY <1>1 DEF Entry
    <3> HIDE DEF l
    <3> QED BY <1>1, <3>1, EntryChanged
  <2>2. l[i].window = w /\ xs = {}
    BY <1>3 DEF Holds, AllOff
  <2> PICK h : h = IF X11!HasActiveDuplicate(m, i) THEN s.held
                   ELSE s.held \ Released(w, l[i].kd)
    OBVIOUS
  <2>3. X11!Disabled(s, i) = [list |-> m, held |-> h]
    BY <1>3, <2>2 DEF X11!Disabled, Released
  <2> HIDE DEF m
  <2>4. Holds(m, h, w, {})
    <3> HIDE DEF l
    <3>1. Holds(l, s.held, w, {})
      BY <2>2 DEF l
    <3>2. i \in 1..Len(l)
      BY DEF l
    <3> QED BY <1>3, <2>1, <2>2, <3>1, <3>2, TurnedOff
  <2>5. X11!Disabled(s, i).list = m /\ X11!Disabled(s, i).held = h
    BY <2>3
  <2> QED BY <2>1, <2>2, <2>4, <2>5
<1> QED BY <1>2, <1>3

\* The same for enable_key_grab, for an entry that is not enabled.
LEMMA EnabledHolds ==
  ASSUME NEW s, NEW w \in X11!Focus, Holds(s.list, s.held, w, {}),
         NEW i \in 1..Len(s.list), ~s.list[i].enabled
  PROVE  /\ Holds(X11!Enabled(s, i, w).list, X11!Enabled(s, i, w).held, w, {})
         /\ Turned(s.list, X11!Enabled(s, i, w).list, i, TRUE, w)
<1> DEFINE l == s.list
           m == [l EXCEPT ![i].enabled = TRUE, ![i].window = w]
<1>1. l \in Seq(Entry)
  BY DEF Holds
<1>2. Turned(l, m, i, TRUE, w)
  <2> HIDE DEF l
  <2>1. i \in 1..Len(l)
    BY DEF l
  <2> QED BY <1>1, <2>1, EntryChanged
<1> PICK h : h = IF X11!HasActiveDuplicate(l, i) THEN s.held
                 ELSE s.held \cup Grabbed(w, l[i].kd)
  OBVIOUS
<1>3. X11!Enabled(s, i, w).list = m /\ X11!Enabled(s, i, w).held = h
  BY DEF X11!Enabled, Grabbed
<1> HIDE DEF m
<1>4. Holds(m, h, w, {})
  <2>1. Holds(l, s.held, w, {}) /\ i \in 1..Len(l) /\ ~l[i].enabled
    OBVIOUS
  <2> HIDE DEF l
  <2> QED BY <1>2, <2>1, TurnedOn
<1> QED BY <1>2, <1>3, <1>4

\* What the loops do to the entries: i is enabled or disabled, if it is in on or off.
Switches(l, m, n, on, off) ==
  /\ m \in Seq(Entry) /\ Len(m) = Len(l)
  /\ \A i \in 1..Len(l) :
       /\ m[i].kd = l[i].kd
       /\ i \notin on => m[i].window = l[i].window
       /\ m[i].enabled <=> IF i > n THEN l[i].enabled ELSE i \in on \/ (l[i].enabled /\ i \notin off)

\* After n turns of the loop on s.
Midway(s, t, n, on, off, w, xs) ==
  Holds(t.list, t.held, w, xs) /\ Switches(s.list, t.list, n, on, off)

\* A turn disables an entry, enables it or leaves it alone.
LEMMA OneTurn ==
  ASSUME DefinitionsAreApart, NEW s, NEW w, NEW xs, s.list \in Seq(Entry),
         NEW on, NEW off, on \cap off = {},
         xs = {} \/ (on = {} /\ AllOff(s.list)), on = {} \/ w = focus, focus \in X11!Focus,
         NEW n \in 1..Len(s.list), NEW t, Midway(s, t, n - 1, on, off, w, xs)
  PROVE  Midway(s, X11!Switched(t, n, on, off), n, on, off, w, xs)
<1>1. /\ Holds(t.list, t.held, w, xs) /\ t.list \in Seq(Entry) /\ Len(t.list) = Len(s.list)
      /\ \A i \in 1..Len(s.list) :
           /\ t.list[i].kd = s.list[i].kd
           /\ i \notin on => t.list[i].window = s.list[i].window
           /\ t.list[i].enabled <=> IF i > n - 1 THEN s.list[i].enabled
                                   ELSE i \in on \/ (s.list[i].enabled /\ i \notin off)
  BY DEF Midway, Switches
<1>2. Len(s.list) \in Nat /\ n \in 1..Len(t.list)
  BY <1>1
<1>3. \A i \in 1..Len(s.list) : i # n => (i > n <=> i > n - 1)
  BY <1>2
<1>4. n > n - 1 /\ ~(n > n)
  BY <1>2
<1>5. xs = {} \/ AllOff(t.list)
  BY <1>1 DEF AllOff
<1>6. ASSUME NEW m, NEW b, NEW v, Turned(t.list, m, n, b, v),
             n \notin on => v = t.list[n].window,
             b <=> (n \in on \/ (s.list[n].enabled /\ n \notin off))
      PROVE  Switches(s.list, m, n, on, off)
  BY <1>1, <1>2, <1>3, <1>4, <1>6 DEF Turned, Switches
<1>7. CASE n \in off
  <2>1. X11!Switched(t, n, on, off) = X11!Disabled(t, n)
    BY <1>7 DEF X11!Switched
  <2>2. /\ Holds(X11!Disabled(t, n).list, X11!Disabled(t, n).held, w, xs)
        /\ Turned(t.list, X11!Disabled(t, n).list, n, FALSE, t.list[n].window)
    BY <1>1, <1>2, <1>5, DisabledHolds
  <2>3. n \notin on
    BY <1>7
  <2> QED BY <1>6, <1>7, <2>1, <2>2, <2>3 DEF Midway
<1>8. CASE n \in on /\ ~t.list[n].enabled
  <2>1. X11!Switched(t, n, on, off) = X11!Enabled(t, n, w) /\ xs = {} /\ w = focus
    BY <1>8 DEF X11!Switched
  <2>2. /\ Holds(X11!Enabled(t, n, w).list, X11!Enabled(t, n, w).held, w, xs)
        /\ Turned(t.list, X11!Enabled(t, n, w).list, n, TRUE, w)
    BY <1>1, <1>2, <1>8, <2>1, EnabledHolds
  <2> QED BY <1>6, <1>8, <2>1, <2>2 DEF Midway
<1>9. CASE n \notin off /\ ~(n \in on /\ ~t.list[n].enabled)
  <2>1. X11!Switched(t, n, on, off) = t
    BY <1>9 DEF X11!Switched
  <2>2. Switches(s.list, t.list, n, on, off)
    BY <1>1, <1>2, <1>3, <1>4, <1>9 DEF Switches
  <2> QED BY <1>1, <2>1, <2>2 DEF Midway
<1> QED BY <1>7, <1>8, <1>9

\* The loop can be carried out, turn by turn.
IsSwitching(f, s, on, off, N) ==
  f = [n \in 0..N |-> IF n = 0 THEN s ELSE X11!Switched(f[n - 1], n, on, off)]

\* There are values of the loop for every number of turns.
LEMMA SwitchingExists ==
  ASSUME NEW s, NEW on, NEW off, NEW N \in Nat
  PROVE  \E f : IsSwitching(f, s, on, off, N)
<1> DEFINE P == {n \in 0..N : \E f : IsSwitching(f, s, on, off, n)}
<1>1. 0 \in P
  <2> DEFINE f == [n \in 0..0 |-> s]
  <2>1. f = [n \in 0..0 |-> IF n = 0 THEN s ELSE X11!Switched(f[n - 1], n, on, off)]
    OBVIOUS
  <2> HIDE DEF f
  <2> QED BY <2>1 DEF IsSwitching
<1>2. ASSUME NEW n \in 1..N, n - 1 \in P PROVE n \in P
  <2>1. PICK f : IsSwitching(f, s, on, off, n - 1)
    BY <1>2
  <2> DEFINE x == X11!Switched(f[n - 1], n, on, off)
             g == [k \in 0..n |-> IF k = n THEN x ELSE f[k]]
             next(k) == IF k = 0 THEN s ELSE X11!Switched(g[k - 1], k, on, off)
  <2>2. f = [k \in 0..(n - 1) |-> IF k = 0 THEN s ELSE X11!Switched(f[k - 1], k, on, off)]
    BY <2>1 DEF IsSwitching
  <2>3. \A k \in 0..(n - 1) : f[k] = IF k = 0 THEN s ELSE X11!Switched(f[k - 1], k, on, off)
    BY <2>2
  <2>4. g[n] = x /\ \A k \in 0..(n - 1) : g[k] = f[k]
    OBVIOUS
  <2>5. g = [k \in 0..n |-> g[k]]
    OBVIOUS
  <2> HIDE DEF g
  <2>6. ASSUME NEW k \in 0..n PROVE g[k] = next(k)
    <3>1. CASE k = n
      <4>1. k - 1 \in 0..(n - 1) /\ k # 0
        BY <3>1
      <4> QED BY <2>4, <3>1, <4>1
    <3>2. CASE k # n
      <4>1. k \in 0..(n - 1) /\ (k # 0 => k - 1 \in 0..(n - 1))
        BY <3>2
      <4> QED BY <2>3, <2>4, <4>1
    <3> QED BY <3>1, <3>2
  <2>7. g = [k \in 0..n |-> next(k)]
    <3> HIDE DEF next
    <3> QED BY <2>5, <2>6
  <2>8. IsSwitching(g, s, on, off, n)
    BY <2>7 DEF IsSwitching
  <2> QED BY <2>8
<1>3. N \in P
  <2> HIDE DEF P
  <2>1. 0..N \subseteq P
    BY <1>1, <1>2, UpTo
  <2> QED BY <2>1
<1> QED BY <1>3

\* The whole loop, by UpTo: what is held stays that of the entries.
LEMMA SwitchedAllHolds ==
  ASSUME DefinitionsAreApart, NEW s, NEW w, NEW xs, Holds(s.list, s.held, w, xs),
         NEW on, NEW off, on \cap off = {},
         xs = {} \/ (on = {} /\ AllOff(s.list)), on = {} \/ w = focus, focus \in X11!Focus
  PROVE  Midway(s, X11!SwitchedAll(s, on, off), Len(s.list), on, off, w, xs)
<1> DEFINE N == Len(s.list)
           c == CHOOSE f : f = [n \in 0..N |-> IF n = 0 THEN s
                                               ELSE X11!Switched(f[n - 1], n, on, off)]
<1>1. s.list \in Seq(Entry) /\ N \in Nat
  BY DEF Holds
<1>2. \E f : IsSwitching(f, s, on, off, N)
  BY <1>1, SwitchingExists
<1>3. c = [n \in 0..N |-> IF n = 0 THEN s ELSE X11!Switched(c[n - 1], n, on, off)]
  BY <1>2 DEF IsSwitching
<1>4. X11!SwitchedAll(s, on, off) = c[N]
  BY DEF X11!SwitchedAll
<1> HIDE DEF c
<1>5. c[0] = s /\ \A n \in 1..N : c[n] = X11!Switched(c[n - 1], n, on, off)
  <2> HIDE DEF N
  <2>1. c[0] = s
    BY <1>1, <1>3
  <2>2. ASSUME NEW n \in 1..N PROVE c[n] = X11!Switched(c[n - 1], n, on, off)
    BY <1>1, <1>3
  <2> QED BY <2>1, <2>2
<1> DEFINE P == {n \in 0..N : Midway(s, c[n], n, on, off, w, xs)}
<1>6. 0 \in P
  <2>1. Switches(s.list, s.list, 0, on, off)
    BY <1>1 DEF Switches
  <2> QED BY <1>1, <1>5, <2>1 DEF Midway
<1>7. ASSUME NEW n \in 1..N, n - 1 \in P PROVE n \in P
  <2>1. Midway(s, X11!Switched(c[n - 1], n, on, off), n, on, off, w, xs)
    BY <1>1, <1>7, OneTurn
  <2> QED BY <1>5, <2>1
<1>8. N \in P
  <2> HIDE DEF P, N
  <2>1. 0..N \subseteq P
    BY <1>1, <1>6, <1>7, UpTo
  <2> QED BY <1>1, <2>1
<1> QED BY <1>4, <1>8

\* The entries of m are those of l, and enabled if they should be.
Settles(l, m, mods, whole) ==
  /\ Len(m) = Len(l)
  /\ \A i \in 1..Len(l) :
       m[i].kd = l[i].kd /\ (m[i].enabled <=> X11!ShouldBeEnabled(l[i].kd, mods, whole))

\* refresh_key_grabs: the grabs move to the window that has the focus.
LEMMA RefreshedHolds ==
  ASSUME DefinitionsAreApart, NEW s, NEW w, NEW xs, Holds(s.list, s.held, w, xs),
         NEW mods, NEW whole,
         xs = {} \/ (whole /\ AllOff(s.list)), focus \in X11!Focus
  PROVE  /\ Holds(X11!Refreshed(s, mods, whole).list, X11!Refreshed(s, mods, whole).held, focus, xs)
         /\ Settles(s.list, X11!Refreshed(s, mods, whole).list, mods, whole)
<1> DEFINE elsewhere == {i \in DOMAIN s.list : s.list[i].window # focus}
<1> PICK t : t = X11!SwitchedAll(s, {}, elsewhere)
  OBVIOUS
<1>1. s.list \in Seq(Entry) /\ DOMAIN s.list = 1..Len(s.list)
  BY DEF Holds
<1>2. Midway(s, t, Len(s.list), {}, elsewhere, w, xs)
  <2> HIDE DEF elsewhere
  <2> QED BY SwitchedAllHolds
<1>3. /\ Holds(t.list, t.held, w, xs) /\ t.list \in Seq(Entry) /\ Len(t.list) = Len(s.list)
      /\ \A i \in 1..Len(s.list) :
           /\ t.list[i].kd = s.list[i].kd /\ t.list[i].window = s.list[i].window
           /\ t.list[i].enabled <=> (s.list[i].enabled /\ i \notin elsewhere)
  BY <1>1, <1>2 DEF Midway, Switches
<1>4. \A i \in 1..Len(t.list) : t.list[i].enabled => t.list[i].window = focus
  BY <1>1, <1>3, SMTT(40)
<1>5. Holds(t.list, t.held, focus, xs)
  BY <1>3, <1>4 DEF Holds
<1> DEFINE should == {i \in DOMAIN t.list : X11!ShouldBeEnabled(t.list[i].kd, mods, whole)}
           others == DOMAIN t.list \ should
<1>6. X11!Refreshed(s, mods, whole) = X11!SwitchedAll(t, should, others)
  BY DEF X11!Refreshed, X11!Settled
<1>7. should = {} \/ ~whole
  BY SMTT(40) DEF X11!ShouldBeEnabled
<1>8. xs = {} \/ (should = {} /\ AllOff(t.list))
  BY <1>3, <1>7 DEF AllOff
<1>9. should \cap others = {} /\ \A i \in 1..Len(t.list) : i \in others <=> i \notin should
  <2> HIDE DEF should
  <2>1. DOMAIN t.list = 1..Len(t.list)
    BY <1>3, SMTT(40)
  <2> QED BY <2>1, SMTT(40)
<1>10. \A i \in 1..Len(t.list) : i \in should <=> X11!ShouldBeEnabled(s.list[i].kd, mods, whole)
  BY <1>3
<1> PICK r : r = X11!SwitchedAll(t, should, others)
  OBVIOUS
<1> HIDE DEF should, others
<1>11. Midway(t, r, Len(t.list), should, others, focus, xs)
  BY <1>5, <1>8, <1>9, SwitchedAllHolds
<1>12. /\ Holds(r.list, r.held, focus, xs) /\ Len(r.list) = Len(t.list)
       /\ \A i \in 1..Len(t.list) :
            /\ r.list[i].kd = t.list[i].kd
            /\ r.list[i].enabled <=> i \in should
  <2>1. Holds(r.list, r.held, focus, xs) /\ Switches(t.list, r.list, Len(t.list), should, others)
    BY <1>11, SMTT(40) DEF Midway
  <2>2. Len(t.list) \in Nat
    BY <1>3
  <2>3. \A i \in 1..Len(t.list) : ~(i > Len(t.list))
    BY <2>2, SMTT(40)
  <2> QED BY <1>9, <2>1, <2>3 DEF Switches
<1>13. Settles(s.list, r.list, mods, whole)
  BY <1>3, <1>10, <1>12 DEF Settles
<1> QED BY <1>6, <1>12, <1>13

-----------------------------------------------------------------------------
(* As many entries of each definition as grabs of the device *)

At(l, d) == {i \in 1..Len(l) : l[i].kd = d}
Of(gs, d) == {g \in gs : g.kd = d}
AsMany(l, gs) == \A d \in Definition : Cardinality(At(l, d)) = Cardinality(Of(gs, d))

\* An entry is one of finitely many.
LEMMA AtIsFinite ==
  ASSUME NEW l, Len(l) \in Nat, NEW d
  PROVE  IsFiniteSet(At(l, d)) /\ Cardinality(At(l, d)) \in Nat
<1>1. IsFiniteSet(1..Len(l))
  BY FS_Interval
<1>2. At(l, d) \in SUBSET (1..Len(l))
  BY DEF At
<1> QED BY <1>1, <1>2, FS_Subset, FS_CardinalityType

\* And so is a grab.
LEMMA OfIsFinite ==
  ASSUME NEW gs, IsFiniteSet(gs), NEW d
  PROVE  IsFiniteSet(Of(gs, d)) /\ Cardinality(Of(gs, d)) \in Nat
<1>1. Of(gs, d) \in SUBSET gs
  BY DEF Of
<1> QED BY <1>1, FS_Subset, FS_CardinalityType

\* A list to which an entry is added, and one that loses an entry.
LEMMA AtMore ==
  ASSUME NEW l \in Seq(Entry), NEW m, Len(m) = Len(l) + 1,
         \A i \in 1..Len(l) : m[i].kd = l[i].kd, NEW d
  PROVE  Cardinality(At(m, d))
           = IF m[Len(l) + 1].kd = d THEN Cardinality(At(l, d)) + 1 ELSE Cardinality(At(l, d))
<1>1. Len(l) \in Nat /\ Len(l) + 1 \notin At(l, d)
  BY DEF At
<1>2. \A i : i \in 1..Len(m) <=> (i \in 1..Len(l) \/ i = Len(l) + 1)
  BY <1>1
<1>3. At(m, d) = IF m[Len(l) + 1].kd = d THEN At(l, d) \cup {Len(l) + 1} ELSE At(l, d)
  BY <1>2 DEF At
<1> QED BY <1>1, <1>3, AtIsFinite, FS_AddElement

\* RemoveAt takes one from the entries of its definition.
LEMMA AtLess ==
  ASSUME NEW l \in Seq(Entry), NEW p \in 1..Len(l), NEW d
  PROVE  Cardinality(At(X11!RemoveAt(l, p), d))
           = IF l[p].kd = d THEN Cardinality(At(l, d)) - 1 ELSE Cardinality(At(l, d))
<1> PICK m : m = X11!RemoveAt(l, p)
  OBVIOUS
<1>1. /\ Len(l) \in Nat /\ Len(m) = Len(l) - 1 /\ Len(m) \in Nat
      /\ \A i \in 1..Len(m) : m[i] = l[Skip(p, i)]
  <2>1. m \in Seq(Entry) /\ Len(m) = Len(l) - 1 /\ \A i \in 1..(Len(l) - 1) : m[i] = l[Skip(p, i)]
    BY RemoveAtElements
  <2>2. Len(l) \in Nat /\ Len(m) \in Nat
    BY <2>1
  <2> QED BY ONLY <2>1, <2>2
<1> DEFINE S == At(m, d)
           T == At(l, d) \ {p}
           f == [i \in S |-> Skip(p, i)]
<1>2. \A i \in S : i \in 1..Len(m) /\ f[i] = Skip(p, i)
  BY DEF At
<1>3. \A i \in 1..Len(m) : Skip(p, i) \in 1..Len(l) /\ Skip(p, i) # p
  BY <1>1 DEF Skip
<1>4. \A i, j \in 1..Len(m) : Skip(p, i) = Skip(p, j) => i = j
  BY <1>1 DEF Skip
<1>5. \A i \in S : f[i] \in T
  BY <1>1, <1>2, <1>3 DEF At
<1>6. ASSUME NEW j \in T PROVE \E i \in S : f[i] = j
  <2> DEFINE i == IF j < p THEN j ELSE j - 1
  <2>1. j \in 1..Len(l) /\ j # p /\ l[j].kd = d
    BY DEF At
  <2>2. i \in 1..Len(m) /\ Skip(p, i) = j
    BY <1>1, <2>1 DEF Skip
  <2>3. i \in S
    BY <1>1, <2>1, <2>2 DEF At
  <2> QED BY <2>2, <2>3
<1> HIDE DEF S, T
<1>7. f \in [S -> T] /\ DOMAIN f = S
  BY <1>5
<1>8. \A i, j \in S : f[i] = f[j] => i = j
  BY <1>2, <1>4
<1> HIDE DEF f
<1>9. ExistsBijection(S, T)
  <2>1. f \in Bijection(S, T)
    BY <1>6, <1>7, <1>8 DEF Bijection, Injection, Surjection, IsInjective
  <2> QED BY <2>1 DEF ExistsBijection
<1>10. IsFiniteSet(S) /\ IsFiniteSet(At(l, d))
  BY <1>1, AtIsFinite DEF S
<1>11. Cardinality(S) = Cardinality(T)
  BY <1>9, <1>10, FS_Bijection
<1>12. Cardinality(T) = IF p \in At(l, d) THEN Cardinality(At(l, d)) - 1 ELSE Cardinality(At(l, d))
  BY <1>10, FS_RemoveElement DEF T
<1>13. p \in At(l, d) <=> l[p].kd = d
  BY DEF At
<1> QED BY <1>11, <1>12, <1>13 DEF S

\* Entries that are not enabled come and go and nothing is held for them.
LEMMA HoldsMore ==
  ASSUME NEW l, NEW hs, NEW w, NEW xs, Holds(l, hs, w, xs),
         NEW e \in Entry, ~e.enabled
  PROVE  Holds(Append(l, e), hs, w, xs)
<1> PICK m : m = Append(l, e)
  OBVIOUS
<1>1. /\ l \in Seq(Entry) /\ m \in Seq(Entry) /\ Len(m) = Len(l) + 1 /\ Len(l) \in Nat
      /\ \A i \in 1..Len(l) : m[i] = l[i]
      /\ m[Len(l) + 1] = e
  BY DEF Holds
<1>2. \A i : i \in 1..Len(m) <=> (i \in 1..Len(l) \/ i = Len(l) + 1)
  BY <1>1
<1>3. Enabled(m) = Enabled(l) /\ \A i \in Enabled(l) : m[i] = l[i]
  BY <1>1, <1>2 DEF Enabled
<1>4. OwnGrabs(m) = OwnGrabs(l)
  BY <1>3 DEF OwnGrabs
<1>5. \A i \in 1..Len(m) : m[i].enabled => m[i].window = w
  BY <1>1, <1>2 DEF Holds
<1> QED BY <1>1, <1>4, <1>5 DEF Holds

\* The same for one that goes.
LEMMA HoldsLess ==
  ASSUME NEW l, NEW hs, NEW w, NEW xs, Holds(l, hs, w, xs),
         NEW p \in 1..Len(l), ~l[p].enabled
  PROVE  Holds(X11!RemoveAt(l, p), hs, w, xs)
<1> PICK m : m = X11!RemoveAt(l, p)
  OBVIOUS
<1>0. l \in Seq(Entry)
  BY DEF Holds
<1>1. /\ l \in Seq(Entry) /\ Len(l) \in Nat /\ m \in Seq(Entry) /\ Len(m) = Len(l) - 1
      /\ \A i \in 1..Len(m) : m[i] = l[Skip(p, i)]
  <2>1. /\ m \in Seq(Entry) /\ Len(m) = Len(l) - 1
        /\ \A i \in 1..(Len(l) - 1) : m[i] = l[Skip(p, i)]
    BY <1>0, RemoveAtElements
  <2>2. \A i \in 1..Len(m) : m[i] = l[Skip(p, i)]
    BY <2>1
  <2>3. Len(l) \in Nat
    BY <1>0
  <2> QED BY <1>0, <2>1, <2>2, <2>3
<1>2. \A i \in 1..Len(m) : Skip(p, i) \in 1..Len(l)
  BY <1>1 DEF Skip
<1>3. ASSUME NEW j \in Enabled(l) PROVE \E i \in Enabled(m) : m[i] = l[j]
  <2> DEFINE i == IF j < p THEN j ELSE j - 1
  <2>1. j \in 1..Len(l) /\ j # p /\ l[j].enabled
    BY DEF Enabled
  <2>2. i \in 1..Len(m) /\ Skip(p, i) = j
    BY <1>1, <2>1 DEF Skip
  <2> QED BY <1>1, <2>1, <2>2 DEF Enabled
<1>4. ASSUME NEW i \in Enabled(m) PROVE \E j \in Enabled(l) : m[i] = l[j]
  BY <1>1, <1>2 DEF Enabled
<1>5. OwnGrabs(m) = OwnGrabs(l)
  BY <1>3, <1>4 DEF OwnGrabs
<1>6. \A i \in 1..Len(m) : m[i].enabled => m[i].window = w
  BY <1>1, <1>2 DEF Holds
<1> QED BY <1>1, <1>5, <1>6 DEF Holds

\* Lists whose entries have the same definitions.
LEMMA AsManySame ==
  ASSUME NEW l, NEW m, Len(m) = Len(l), \A i \in 1..Len(l) : m[i].kd = l[i].kd,
         NEW gs, AsMany(l, gs)
  PROVE  AsMany(m, gs)
<1>1. \A d : At(m, d) = At(l, d)
  BY DEF At
<1> QED BY <1>1 DEF AsMany

\* KeepGrab gives an id that is that of no grab.
Keeps(kd) == \E id : ~IsIdUsed(id) /\ grabs' = grabs \cup {[id |-> id, kd |-> kd]}

\* So the entries, with one more, are as many as the grabs.
LEMMA AsManyMore ==
  ASSUME NEW l \in Seq(Entry), NEW m, Len(m) = Len(l) + 1,
         \A i \in 1..Len(l) : m[i].kd = l[i].kd,
         NEW kd \in Definition, m[Len(l) + 1].kd = kd,
         IsFiniteSet(grabs), \A g \in grabs : g.kd \in Definition,
         AsMany(l, grabs), Keeps(kd)
  PROVE  AsMany(m, grabs') /\ IsFiniteSet(grabs') /\ \A g \in grabs' : g.kd \in Definition
<1>1. PICK id : ~IsIdUsed(id) /\ grabs' = grabs \cup {[id |-> id, kd |-> kd]}
  BY DEF Keeps
<1> PICK g : g = [id |-> id, kd |-> kd]
  OBVIOUS
<1>2. g.kd = kd /\ g \notin grabs /\ grabs' = grabs \cup {g}
  BY <1>1 DEF IsIdUsed
<1>3. ASSUME NEW d \in Definition PROVE Cardinality(At(m, d)) = Cardinality(Of(grabs', d))
  <2>1. Of(grabs', d) = IF kd = d THEN Of(grabs, d) \cup {g} ELSE Of(grabs, d)
    BY <1>2 DEF Of
  <2>2. g \notin Of(grabs, d) /\ IsFiniteSet(Of(grabs, d))
    BY <1>2, OfIsFinite DEF Of
  <2>3. Cardinality(Of(grabs', d)) = IF kd = d THEN Cardinality(Of(grabs, d)) + 1
                                     ELSE Cardinality(Of(grabs, d))
    <3>1. Cardinality(Of(grabs, d) \cup {g}) = Cardinality(Of(grabs, d)) + 1
      <4> PICK S : S = Of(grabs, d)
        OBVIOUS
      <4>1. IsFiniteSet(S) /\ g \notin S
        BY <2>2
      <4>2. Cardinality(S \cup {g}) = Cardinality(S) + 1
        BY ONLY <4>1, FS_AddElement
      <4> QED BY <4>2
    <3> QED BY <2>1, <3>1
  <2>4. Cardinality(At(m, d)) = IF kd = d THEN Cardinality(At(l, d)) + 1
                                ELSE Cardinality(At(l, d))
    BY AtMore
  <2>5. Cardinality(At(l, d)) = Cardinality(Of(grabs, d))
    BY DEF AsMany
  <2> QED BY ONLY <2>3, <2>4, <2>5
<1>4. IsFiniteSet(grabs')
  BY <1>2, FS_AddElement
<1>5. \A h \in grabs' : h.kd \in Definition
  BY <1>2
<1>6. AsMany(m, grabs')
  BY <1>3 DEF AsMany
<1> QED BY <1>4, <1>5, <1>6

\* DropGrab: an entry for the same definition goes.
LEMMA AsManyLess ==
  ASSUME NEW l \in Seq(Entry), NEW p \in 1..Len(l), NEW g \in grabs, l[p].kd = g.kd,
         IsFiniteSet(grabs), \A h \in grabs : h.kd \in Definition,
         AsMany(l, grabs), grabs' = grabs \ {g}
  PROVE  /\ AsMany(X11!RemoveAt(l, p), grabs')
         /\ IsFiniteSet(grabs') /\ \A h \in grabs' : h.kd \in Definition
<1>1. ASSUME NEW d \in Definition
      PROVE  Cardinality(At(X11!RemoveAt(l, p), d)) = Cardinality(Of(grabs', d))
  <2>1. Of(grabs', d) = IF g.kd = d THEN Of(grabs, d) \ {g} ELSE Of(grabs, d)
    BY DEF Of
  <2>2. (g.kd = d => g \in Of(grabs, d)) /\ IsFiniteSet(Of(grabs, d))
    BY OfIsFinite DEF Of
  <2>3. Cardinality(Of(grabs', d)) = IF g.kd = d THEN Cardinality(Of(grabs, d)) - 1
                                     ELSE Cardinality(Of(grabs, d))
    BY <2>1, <2>2, FS_RemoveElement
  <2>4. Cardinality(At(X11!RemoveAt(l, p), d))
          = IF g.kd = d THEN Cardinality(At(l, d)) - 1 ELSE Cardinality(At(l, d))
    BY AtLess
  <2>5. Cardinality(At(l, d)) = Cardinality(Of(grabs, d))
    BY DEF AsMany
  <2> QED BY ONLY <2>3, <2>4, <2>5
<1>2. IsFiniteSet(grabs')
  BY FS_RemoveElement
<1>3. AsMany(X11!RemoveAt(l, p), grabs')
  BY <1>1 DEF AsMany
<1> QED BY <1>2, <1>3

\* The definitions of the entries are those of the grabs.
LEMMA SameDefinitions ==
  ASSUME NEW l \in Seq(Entry), NEW gs, IsFiniteSet(gs), AsMany(l, gs), NEW d \in Definition
  PROVE  (\E i \in 1..Len(l) : l[i].kd = d) <=> (\E g \in gs : g.kd = d)
<1>1. IsFiniteSet(At(l, d)) /\ IsFiniteSet(Of(gs, d)) /\ Cardinality(At(l, d)) = Cardinality(Of(gs, d))
  BY AtIsFinite, OfIsFinite DEF AsMany
<1>2. At(l, d) = {} <=> Of(gs, d) = {}
  BY <1>1, FS_EmptySet
<1> QED BY <1>2 DEF At, Of

-----------------------------------------------------------------------------
(* The device on X11 *)

\* What X holds because the keyboard is grabbed.
Whole == IF keyboardGrabbed THEN X11!Granted(X11!WholeKeyboard(focusedWindow)) ELSE {}

AsShould(list, mods, whole) ==
  \A i \in 1..Len(list) : list[i].enabled <=> X11!ShouldBeEnabled(list[i].kd, mods, whole)

\* X holds what the entries grab, which are enabled as they should be and have the
\* definitions of the grabs; the entries may be in any order, and more of them for
\* one definition.
GrabsInv ==
  /\ focus \in X11!Focus /\ focusedWindow \in X11!Focus
  /\ keyboardGrabbed \in BOOLEAN
  /\ IsFiniteSet(grabs) /\ \A g \in grabs : g.kd \in Definition
  /\ AsMany(keyGrabs, grabs)
  /\ Holds(keyGrabs, held, focusedWindow, Whole)
  /\ AsShould(keyGrabs, virtualMods, keyboardGrabbed)
  /\ keyboardGrabbed => focus = focusedWindow
  /\ ~alive => keyGrabs = <<>> /\ ~keyboardGrabbed

\* With the whole keyboard, no single key is grabbed.
LEMMA AllOffWhenWhole ==
  ASSUME GrabsInv
  PROVE  Whole = {} \/ (keyboardGrabbed /\ AllOff(keyGrabs))
BY DEF GrabsInv, Whole, AllOff, AsShould, X11!ShouldBeEnabled

\* What the entries grab is then what the grabs of the device want.
LEMMA GrabsInvSuffices ==
  ASSUME GrabsInv
  PROVE  X11!GrabsAreHeld
<1>1. /\ keyGrabs \in Seq(Entry) /\ held = Whole \cup OwnGrabs(keyGrabs)
      /\ \A i \in 1..Len(keyGrabs) : keyGrabs[i].enabled => keyGrabs[i].window = focusedWindow
  BY DEF GrabsInv, Holds
<1>2. CASE ~alive
  <2>1. keyGrabs = <<>> /\ Whole = {}
    BY <1>2 DEF GrabsInv, Whole
  <2>2. AllOff(keyGrabs)
    BY <2>1 DEF AllOff
  <2> QED BY <1>1, <1>2, <2>1, <2>2, NothingOwned DEF X11!GrabsAreHeld
<1>3. CASE alive /\ keyboardGrabbed
  <2>1. AllOff(keyGrabs)
    BY <1>3 DEF GrabsInv, AllOff, AsShould, X11!ShouldBeEnabled
  <2>2. held = X11!Granted(X11!WholeKeyboard(focusedWindow))
    BY <1>1, <1>3, <2>1, NothingOwned DEF Whole
  <2> QED BY <1>3, <2>2 DEF X11!GrabsAreHeld, X11!Wanted
<1>4. CASE alive /\ ~keyboardGrabbed
  <2> DEFINE wanted == {h \in grabs : X11!ShouldBeEnabled(h.kd, virtualMods, FALSE)}
  <2>1. \A i \in 1..Len(keyGrabs) :
          keyGrabs[i].enabled <=> X11!ShouldBeEnabled(keyGrabs[i].kd, virtualMods, FALSE)
    BY <1>4 DEF GrabsInv, AsShould
  <2>2. \A d \in Definition :
          (\E i \in 1..Len(keyGrabs) : keyGrabs[i].kd = d) <=> (\E g \in grabs : g.kd = d)
    BY <1>1, SameDefinitions DEF GrabsInv
  <2>3. ASSUME NEW i \in 1..Len(keyGrabs) PROVE keyGrabs[i].kd \in Definition
    <3>1. keyGrabs[i] \in Entry
      BY <1>1
    <3> QED BY <3>1 DEF Entry
  <2>4. \A g \in grabs : g.kd \in Definition
    BY DEF GrabsInv
  <2>5. ASSUME NEW i \in Enabled(keyGrabs)
        PROVE  \E g \in wanted :
                 Grabbed(keyGrabs[i].window, keyGrabs[i].kd) = Grabbed(focusedWindow, g.kd)
    BY <1>1, <2>1, <2>2, <2>3 DEF Enabled
  <2>6. ASSUME NEW g \in wanted
        PROVE  \E i \in Enabled(keyGrabs) :
                 Grabbed(keyGrabs[i].window, keyGrabs[i].kd) = Grabbed(focusedWindow, g.kd)
    BY <1>1, <2>1, <2>2, <2>4 DEF Enabled
  <2> HIDE DEF wanted
  <2>7. OwnGrabs(keyGrabs) = UNION {Grabbed(focusedWindow, g.kd) : g \in wanted}
    BY <2>5, <2>6 DEF OwnGrabs
  <2>8. X11!Granted(UNION {X11!Grabbing(focusedWindow, X11!Code(g.kd), X11!Physical(g.kd)) : g \in wanted})
          = UNION {Grabbed(focusedWindow, g.kd) : g \in wanted}
    BY DEF X11!Granted, Grabbed
  <2>9. held = OwnGrabs(keyGrabs)
    BY <1>1, <1>4 DEF Whole
  <2> QED BY <1>4, <2>7, <2>8, <2>9 DEF X11!GrabsAreHeld, X11!Wanted, wanted
<1> QED BY <1>2, <1>3, <1>4

\* Init.
LEMMA GrabsInvAtFirst ==
  ASSUME X11!Init PROVE GrabsInv
<1>1. /\ keyGrabs = <<>> /\ held = {} /\ grabs = {} /\ ~keyboardGrabbed /\ alive
      /\ keyboardGrabbed \in BOOLEAN
      /\ focus \in X11!Focus /\ focusedWindow = focus
  BY DEF X11!Init, X11!DeviceInit
<1>2. keyGrabs \in Seq(Entry) /\ Len(keyGrabs) = 0
  BY <1>1
<1>3. AllOff(keyGrabs) /\ AsShould(keyGrabs, virtualMods, keyboardGrabbed)
  BY <1>2 DEF AllOff, AsShould
<1>4. Holds(keyGrabs, held, focusedWindow, Whole)
  BY <1>1, <1>2, <1>3, NothingOwned DEF Holds, Whole
<1>5. ASSUME NEW d \in Definition PROVE Cardinality(At(keyGrabs, d)) = Cardinality(Of(grabs, d))
  <2>1. At(keyGrabs, d) = {} /\ Of(grabs, d) = {}
    BY <1>1, <1>2 DEF At, Of
  <2> QED BY <2>1
<1>6. AsMany(keyGrabs, grabs)
  BY <1>5 DEF AsMany
<1> QED BY <1>1, <1>3, <1>4, <1>6, FS_EmptySet DEF GrabsInv

\* A refresh while X holds xs besides what the entries grab.
LEMMA RefreshKeeps ==
  ASSUME DefinitionsAreApart, GrabsInv, NEW hs, NEW xs, NEW mods, NEW whole,
         Holds(keyGrabs, hs, focusedWindow, xs), xs = {} \/ (whole /\ AllOff(keyGrabs)),
         NEW r, r = X11!Refreshed([list |-> keyGrabs, held |-> hs], mods, whole)
  PROVE  /\ Holds(r.list, r.held, focus, xs)
         /\ AsMany(r.list, grabs) /\ AsShould(r.list, mods, whole)
<1> PICK s : s = [list |-> keyGrabs, held |-> hs]
  OBVIOUS
<1>1. s.list = keyGrabs /\ s.held = hs /\ r = X11!Refreshed(s, mods, whole)
  OBVIOUS
<1>2. Holds(s.list, s.held, focusedWindow, xs) /\ (xs = {} \/ (whole /\ AllOff(s.list)))
  BY <1>1
<1>3. focus \in X11!Focus /\ AsMany(s.list, grabs)
  BY <1>1 DEF GrabsInv
<1>4. Holds(r.list, r.held, focus, xs) /\ Settles(s.list, r.list, mods, whole)
  BY <1>1, <1>2, <1>3, RefreshedHolds
<1>5. AsMany(r.list, grabs)
  BY <1>3, <1>4, AsManySame DEF Settles
<1>6. AsShould(r.list, mods, whole)
  BY <1>4 DEF Settles, AsShould
<1> QED BY <1>4, <1>5, <1>6

\* The device takes over the focus of X and the modifiers mods.
LEMMA RefreshKeepsGrabsInv ==
  ASSUME DefinitionsAreApart, GrabsInv, alive, alive' = alive,
         NEW mods, virtualMods' = mods, X11!Refresh(mods, keyboardGrabbed),
         UNCHANGED <<keyboardGrabbed, grabs, focus>>
  PROVE  GrabsInv'
<1> PICK r : r = X11!Refreshed(X11!Now, mods, keyboardGrabbed)
  OBVIOUS
<1>1. keyGrabs' = r.list /\ held' = r.held /\ focusedWindow' = focus
  BY DEF X11!Refresh, X11!Become
<1>2. /\ Holds(r.list, r.held, focus, Whole)
      /\ AsMany(r.list, grabs) /\ AsShould(r.list, mods, keyboardGrabbed)
  <2>1. Holds(keyGrabs, held, focusedWindow, Whole)
    BY DEF GrabsInv
  <2> QED BY <2>1, AllOffWhenWhole, RefreshKeeps DEF X11!Now
<1>3. Whole' = Whole
  BY <1>1 DEF Whole, GrabsInv, X11!Granted, X11!WholeKeyboard
<1>4. /\ focus \in X11!Focus /\ X11!Focus' = X11!Focus
      /\ keyboardGrabbed \in BOOLEAN
      /\ IsFiniteSet(grabs) /\ \A g \in grabs : g.kd \in Definition
  BY DEF GrabsInv, X11!Focus
<1> QED BY <1>1, <1>2, <1>3, <1>4 DEF GrabsInv

\* atspi_device_x11_add_key_grab: a new entry, which may be a duplicate.
LEMMA AddKeepsGrabsInv ==
  ASSUME GrabsInv, NEW kd \in Definition, X11!AddKeyGrab(kd)
  PROVE  GrabsInv'
<1> PICK e : e = [kd |-> kd, enabled |-> FALSE, window |-> NoWindow]
  OBVIOUS
<1> PICK m : m = Append(keyGrabs, e)
  OBVIOUS
<1>1. e \in Entry /\ e.kd = kd /\ ~e.enabled
  BY DEF Entry, X11!Focus
<1>2. keyGrabs \in Seq(Entry) /\ Holds(keyGrabs, held, focusedWindow, Whole)
  BY DEF GrabsInv, Holds
<1>3. Holds(m, held, focusedWindow, Whole)
  BY <1>1, <1>2, HoldsMore
<1>4. /\ Len(keyGrabs) \in Nat /\ m \in Seq(Entry) /\ Len(m) = Len(keyGrabs) + 1
      /\ m[Len(keyGrabs) + 1] = e
      /\ \A i \in 1..Len(keyGrabs) : m[i] = keyGrabs[i]
  BY <1>1, <1>2
<1> PICK p : p = Len(keyGrabs) + 1
  OBVIOUS
<1>5. p \in 1..Len(m) /\ m[p] = e /\ \A i \in 1..Len(m) : i \in 1..Len(keyGrabs) \/ i = p
  BY <1>4
<1> PICK s : s = [list |-> m, held |-> held]
  OBVIOUS
<1>6. /\ alive' = alive /\ alive
      /\ UNCHANGED <<virtualMods, keyboardGrabbed, focusedWindow, focus>>
      /\ Keeps(kd)
      /\ \/ ~X11!ShouldBeEnabled(kd, virtualMods, keyboardGrabbed) /\ X11!Become(s)
         \/ /\ X11!ShouldBeEnabled(kd, virtualMods, keyboardGrabbed)
            /\ X11!Become(X11!Enabled(s, p, focusedWindow))
  <2>1. Keeps(kd)
    BY DEF X11!AddKeyGrab, X11!KeepGrab, X11!Give, X11!GrabId, X11!IsIdUsed, IsIdUsed, Keeps
  <2>2. /\ alive' = alive /\ alive
        /\ UNCHANGED <<virtualMods, keyboardGrabbed, focusedWindow, focus>>
    BY DEF X11!AddKeyGrab, X11!rest, X11!server
  <2>3. \/ ~X11!ShouldBeEnabled(kd, virtualMods, keyboardGrabbed) /\ X11!Become(s)
        \/ /\ X11!ShouldBeEnabled(kd, virtualMods, keyboardGrabbed)
           /\ X11!Become(X11!Enabled(s, p, focusedWindow))
    BY DEF X11!AddKeyGrab
  <2> QED BY <2>1, <2>2, <2>3
<1>7. s.list = m /\ s.held = held
  OBVIOUS
<1>8. Whole' = Whole /\ X11!Focus' = X11!Focus
  BY <1>6 DEF Whole, X11!Focus, X11!Granted, X11!WholeKeyboard
<1>9. \A i \in 1..Len(keyGrabs) : keyGrabs[i].enabled
         <=> X11!ShouldBeEnabled(keyGrabs[i].kd, virtualMods, keyboardGrabbed)
  BY DEF GrabsInv, AsShould
<1>10. /\ focus \in X11!Focus /\ focusedWindow \in X11!Focus /\ keyboardGrabbed \in BOOLEAN
       /\ (keyboardGrabbed => focus = focusedWindow)
       /\ IsFiniteSet(grabs) /\ (\A g \in grabs : g.kd \in Definition)
       /\ AsMany(keyGrabs, grabs)
  BY DEF GrabsInv
<1>11. ASSUME NEW n, Len(n) = Len(m), \A i \in 1..Len(m) : n[i].kd = m[i].kd
       PROVE  AsMany(n, grabs') /\ IsFiniteSet(grabs') /\ \A g \in grabs' : g.kd \in Definition
  <2>1. Len(n) = Len(keyGrabs) + 1 /\ n[Len(keyGrabs) + 1].kd = kd
    BY <1>1, <1>4, <1>5, <1>11
  <2>2. \A i \in 1..Len(keyGrabs) : n[i].kd = keyGrabs[i].kd
    BY <1>4, <1>11
  <2> QED BY <1>2, <1>6, <1>10, <2>1, <2>2, AsManyMore
<1>12. CASE ~X11!ShouldBeEnabled(kd, virtualMods, keyboardGrabbed)
  <2>1. keyGrabs' = m /\ held' = held
    BY <1>6, <1>7, <1>12 DEF X11!Become
  <2>2. AsShould(m, virtualMods, keyboardGrabbed)
    BY <1>1, <1>4, <1>5, <1>9, <1>12 DEF AsShould
  <2>3. AsMany(m, grabs') /\ IsFiniteSet(grabs') /\ \A g \in grabs' : g.kd \in Definition
    BY <1>11
  <2> QED BY <1>3, <1>6, <1>8, <1>10, <2>1, <2>2, <2>3 DEF GrabsInv
<1>13. CASE X11!ShouldBeEnabled(kd, virtualMods, keyboardGrabbed)
  <2> PICK r : r = X11!Enabled(s, p, focusedWindow)
    OBVIOUS
  <2>1. keyGrabs' = r.list /\ held' = r.held
    BY <1>6, <1>13 DEF X11!Become
  <2>2. Whole = {}
    BY <1>13 DEF Whole, X11!ShouldBeEnabled
  <2>3. Holds(s.list, s.held, focusedWindow, {}) /\ p \in 1..Len(s.list) /\ ~s.list[p].enabled
    BY <1>1, <1>3, <1>5, <1>7, <2>2
  <2>4. Holds(r.list, r.held, focusedWindow, {}) /\ Turned(m, r.list, p, TRUE, focusedWindow)
    BY <1>7, <1>10, <2>3, EnabledHolds
  <2> PICK n : n = r.list
    OBVIOUS
  <2>5. /\ Len(n) = Len(m) /\ n[p].kd = kd /\ n[p].enabled
        /\ \A i \in 1..Len(keyGrabs) : i # p /\ n[i] = keyGrabs[i]
    <3>1. \A i \in 1..Len(keyGrabs) : i \in 1..Len(m) /\ i # p
      BY <1>4
    <3>2. /\ Len(n) = Len(m) /\ n[p].kd = m[p].kd /\ n[p].enabled
          /\ \A i \in 1..Len(m) : i # p => n[i] = m[i]
      BY <2>4 DEF Turned
    <3>3. m[p].kd = kd
      BY <1>1, <1>5
    <3>4. \A i \in 1..Len(keyGrabs) : m[i] = keyGrabs[i]
      BY <1>4
    <3> QED BY ONLY <3>1, <3>2, <3>3, <3>4
  <2>6. AsShould(n, virtualMods, keyboardGrabbed)
    BY ONLY <1>5, <1>9, <1>13, <2>5 DEF AsShould
  <2>7. \A i \in 1..Len(m) : n[i].kd = m[i].kd
    <3>1. m[p].kd = kd
      BY <1>1, <1>5
    <3>2. \A i \in 1..Len(keyGrabs) : m[i] = keyGrabs[i]
      BY <1>4
    <3>3. \A i \in 1..Len(m) : i \in 1..Len(keyGrabs) \/ i = p
      BY <1>5
    <3> QED BY ONLY <2>5, <3>1, <3>2, <3>3
  <2>8. AsMany(n, grabs') /\ IsFiniteSet(grabs') /\ \A g \in grabs' : g.kd \in Definition
    BY <1>11, <2>5, <2>7
  <2> QED BY <1>6, <1>8, <1>10, <2>1, <2>2, <2>4, <2>6, <2>8 DEF GrabsInv
<1> QED BY <1>12, <1>13

\* The first entry for the key of g is for the definition of g.
LEMMA RemoveKeepsGrabsInv ==
  ASSUME DefinitionsAreApart, GrabsInv, NEW g \in grabs, X11!RemoveKeyGrab(g)
  PROVE  GrabsInv'
<1> DEFINE I == {j \in 1..Len(keyGrabs) : X11!SameKey(g.kd, keyGrabs[j].kd)}
<1>1. /\ keyGrabs \in Seq(Entry) /\ Len(keyGrabs) \in Nat
      /\ Holds(keyGrabs, held, focusedWindow, Whole)
  BY DEF GrabsInv, Holds
<1>2. /\ focus \in X11!Focus /\ focusedWindow \in X11!Focus /\ keyboardGrabbed \in BOOLEAN
      /\ (keyboardGrabbed => focus = focusedWindow)
      /\ IsFiniteSet(grabs) /\ (\A h \in grabs : h.kd \in Definition)
      /\ AsMany(keyGrabs, grabs)
  BY DEF GrabsInv
<1>3. ASSUME NEW j \in 1..Len(keyGrabs)
      PROVE  X11!SameKey(g.kd, keyGrabs[j].kd) <=> keyGrabs[j].kd = g.kd
  <2>1. keyGrabs[j] \in Entry
    BY <1>1
  <2>2. keyGrabs[j].kd \in Definition /\ g.kd \in Definition
    BY <1>2, <2>1 DEF Entry
  <2> QED BY <2>2 DEF DefinitionsAreApart
<1>4. I # {}
  <2>1. \E j \in 1..Len(keyGrabs) : keyGrabs[j].kd = g.kd
    BY <1>1, <1>2, SameDefinitions
  <2> QED BY <1>3, <2>1
<1> PICK i : i = X11!SelectInSeq(keyGrabs, LAMBDA o : X11!SameKey(g.kd, o.kd))
  OBVIOUS
<1>5. i = X11!Min(I)
  BY <1>4 DEF X11!SelectInSeq
<1>6. I \in SUBSET Nat
  OBVIOUS
<1>7. i \in I
  <2> HIDE DEF I
  <2>1. \E m \in I : \A j \in I : m <= j
    BY <1>4, <1>6, Least
  <2> QED BY <1>5, <2>1 DEF X11!Min
<1>8. i \in 1..Len(keyGrabs) /\ keyGrabs[i].kd = g.kd /\ i # 0
  BY <1>1, <1>3, <1>7
<1> HIDE DEF I
<1> PICK s : s = X11!Disabled(X11!Now, i)
  OBVIOUS
<1>9. /\ keyGrabs' = X11!RemoveAt(s.list, i) /\ held' = s.held
      /\ grabs' = grabs \ {g} /\ alive /\ alive' = alive
      /\ UNCHANGED <<virtualMods, keyboardGrabbed, focusedWindow, focus>>
  BY <1>8 DEF X11!RemoveKeyGrab, X11!DropGrab, X11!rest, X11!server
<1> PICK now : now = X11!Now
  OBVIOUS
<1>10. now.list = keyGrabs /\ now.held = held /\ s = X11!Disabled(now, i)
  BY DEF X11!Now
<1>11. /\ Holds(s.list, s.held, focusedWindow, Whole)
       /\ Turned(keyGrabs, s.list, i, FALSE, keyGrabs[i].window)
  <2>1. Whole = {} \/ AllOff(now.list)
    BY <1>10, AllOffWhenWhole
  <2>2. Holds(now.list, now.held, focusedWindow, Whole) /\ i \in 1..Len(now.list)
    BY <1>1, <1>8, <1>10
  <2>3. /\ Holds(X11!Disabled(now, i).list, X11!Disabled(now, i).held, focusedWindow, Whole)
        /\ Turned(now.list, X11!Disabled(now, i).list, i, FALSE, now.list[i].window)
    BY <2>1, <2>2, DisabledHolds
  <2> QED BY <1>10, <2>3
<1> PICK l : l = s.list
  OBVIOUS
<1>12. /\ l \in Seq(Entry) /\ Len(l) = Len(keyGrabs) /\ i \in 1..Len(l)
       /\ l[i].kd = g.kd /\ ~l[i].enabled
       /\ \A j \in 1..Len(l) : l[j].kd = keyGrabs[j].kd
       /\ \A j \in 1..Len(l) : j # i => l[j] = keyGrabs[j]
  BY <1>8, <1>11 DEF Turned
<1>13. Holds(keyGrabs', held', focusedWindow, Whole)
  BY <1>9, <1>11, <1>12, HoldsLess
<1>14. AsMany(keyGrabs', grabs') /\ IsFiniteSet(grabs') /\ \A h \in grabs' : h.kd \in Definition
  <2>1. AsMany(l, grabs)
    BY <1>2, <1>12, AsManySame
  <2> QED BY <1>2, <1>9, <1>12, <2>1, AsManyLess
<1>15. AsShould(keyGrabs', virtualMods, keyboardGrabbed)
  <2>1. /\ Len(keyGrabs') = Len(l) - 1 /\ Len(l) \in Nat
        /\ \A j \in 1..(Len(l) - 1) : keyGrabs'[j] = l[Skip(i, j)]
    <3>1. l \in Seq(Entry) /\ i \in 1..Len(l) /\ Len(l) \in Nat
      BY <1>1, <1>12
    <3>2. keyGrabs' = X11!RemoveAt(l, i)
      BY <1>9
    <3> QED BY ONLY <3>1, <3>2, RemoveAtElements
  <2>2. \A j \in 1..(Len(l) - 1) : Skip(i, j) \in 1..Len(l) /\ Skip(i, j) # i
    BY <1>12, <2>1 DEF Skip
  <2>3. \A j \in 1..Len(keyGrabs') :
          Skip(i, j) \in 1..Len(keyGrabs) /\ keyGrabs'[j] = keyGrabs[Skip(i, j)]
    BY <1>12, <2>1, <2>2
  <2>4. AsShould(keyGrabs, virtualMods, keyboardGrabbed)
    BY DEF GrabsInv
  <2> QED BY <2>3, <2>4 DEF AsShould
<1>16. Whole' = Whole /\ X11!Focus' = X11!Focus
  BY <1>9 DEF Whole, X11!Focus, X11!Granted, X11!WholeKeyboard
<1> QED BY <1>2, <1>9, <1>13, <1>14, <1>15, <1>16 DEF GrabsInv

\* The single keys are given back before all keys are taken.
LEMMA GrabKeyboardKeepsGrabsInv ==
  ASSUME DefinitionsAreApart, GrabsInv, X11!GrabKeyboard
  PROVE  GrabsInv'
<1> PICK r : r = X11!Refreshed(X11!Now, virtualMods, TRUE)
  OBVIOUS
<1>1. /\ alive /\ alive' = alive /\ ~keyboardGrabbed /\ keyboardGrabbed' = TRUE
      /\ focusedWindow' = focus /\ keyGrabs' = r.list
      /\ held' = r.held \cup X11!Granted(X11!WholeKeyboard(focus))
      /\ UNCHANGED <<virtualMods, focus, grabs>>
  BY DEF X11!GrabKeyboard, X11!device, X11!rest, X11!server
<1>2. /\ Holds(keyGrabs, held, focusedWindow, {})
      /\ focus \in X11!Focus /\ IsFiniteSet(grabs) /\ \A g \in grabs : g.kd \in Definition
  BY <1>1 DEF GrabsInv, Whole
<1>3. /\ Holds(r.list, r.held, focus, {})
      /\ AsMany(r.list, grabs) /\ AsShould(r.list, virtualMods, TRUE)
  BY <1>2, RefreshKeeps DEF X11!Now
<1>4. Whole' = X11!Granted(X11!WholeKeyboard(focus)) /\ X11!Focus' = X11!Focus
  BY <1>1 DEF Whole, X11!Focus, X11!Granted, X11!WholeKeyboard
<1>5. Holds(keyGrabs', held', focusedWindow', Whole')
  BY <1>1, <1>3, <1>4 DEF Holds
<1> QED BY <1>1, <1>2, <1>3, <1>4, <1>5 DEF GrabsInv

\* Nothing is left of the whole keyboard, as the focus is where it was grabbed.
LEMMA UngrabKeyboardKeepsGrabsInv ==
  ASSUME DefinitionsAreApart, GrabsInv, X11!UngrabKeyboard
  PROVE  GrabsInv'
<1> DEFINE released == UNION {X11!Ungrabbing(focusedWindow, k, {}) : k \in Keycode}
<1> PICK r : r = X11!Refreshed([list |-> keyGrabs, held |-> held \ released], virtualMods, FALSE)
  OBVIOUS
<1>1. /\ alive /\ alive' = alive /\ keyboardGrabbed /\ keyboardGrabbed' = FALSE
      /\ focusedWindow' = focus /\ keyGrabs' = r.list /\ held' = r.held
      /\ UNCHANGED <<virtualMods, focus, grabs>>
  BY DEF X11!UngrabKeyboard, X11!device, X11!rest, X11!server, X11!Become
<1>2. AllOff(keyGrabs)
  BY <1>1 DEF GrabsInv, AllOff, AsShould, X11!ShouldBeEnabled
<1>3. held = X11!Granted(X11!WholeKeyboard(focusedWindow))
  BY <1>1, <1>2, NothingOwned DEF GrabsInv, Holds, Whole
<1>4. X11!WholeKeyboard(focusedWindow) \subseteq released
  BY DEF X11!WholeKeyboard, X11!Grabbing, X11!Ungrabbing, X11!Combinations
<1>5. held \ released = {}
  BY <1>3, <1>4 DEF X11!Granted
<1>6. Holds(keyGrabs, held \ released, focusedWindow, {})
  BY <1>2, <1>5, NothingOwned DEF GrabsInv, Holds
<1> HIDE DEF released
<1>7. focus \in X11!Focus /\ IsFiniteSet(grabs) /\ \A g \in grabs : g.kd \in Definition
  BY DEF GrabsInv
<1>8. /\ Holds(r.list, r.held, focus, {})
      /\ AsMany(r.list, grabs) /\ AsShould(r.list, virtualMods, FALSE)
  BY <1>6, RefreshKeeps
<1>9. Whole' = {} /\ X11!Focus' = X11!Focus
  BY <1>1 DEF Whole, X11!Focus
<1> QED BY <1>1, <1>7, <1>8, <1>9 DEF GrabsInv

\* Every entry is disabled, and the keyboard is not grabbed.
LEMMA FinalizeKeepsGrabsInv ==
  ASSUME DefinitionsAreApart, Careful, GrabsInv, X11!Finalize
  PROVE  GrabsInv'
<1> PICK now, t : now = X11!Now /\ t = X11!SwitchedAll(X11!Now, {}, DOMAIN keyGrabs)
  OBVIOUS
<1>1. /\ ~alive' /\ ~keyboardGrabbed /\ keyGrabs' = <<>> /\ held' = t.held /\ grabs' = {}
      /\ UNCHANGED <<virtualMods, keyboardGrabbed, focusedWindow, focus>>
  BY DEF X11!Finalize, X11!rest, X11!server
<1>2. now.list = keyGrabs /\ now.held = held /\ t = X11!SwitchedAll(now, {}, DOMAIN keyGrabs)
  BY DEF X11!Now
<1>3. /\ keyGrabs \in Seq(Entry) /\ Holds(keyGrabs, held, focusedWindow, {})
      /\ focus \in X11!Focus /\ focusedWindow \in X11!Focus
      /\ keyboardGrabbed \in BOOLEAN
  BY <1>1 DEF GrabsInv, Holds, Whole
<1>4. Midway(now, t, Len(now.list), {}, DOMAIN keyGrabs, focusedWindow, {})
  BY <1>2, <1>3, SwitchedAllHolds
<1>5. Holds(t.list, t.held, focusedWindow, {}) /\ AllOff(t.list)
  <2>1. /\ Len(t.list) = Len(keyGrabs)
        /\ \A i \in 1..Len(keyGrabs) :
             t.list[i].enabled <=> IF i > Len(keyGrabs) THEN keyGrabs[i].enabled
                                   ELSE keyGrabs[i].enabled /\ i \notin DOMAIN keyGrabs
    BY <1>2, <1>4 DEF Midway, Switches
  <2>2. \A i \in 1..Len(keyGrabs) : i \in DOMAIN keyGrabs /\ ~(i > Len(keyGrabs))
    BY <1>3
  <2> QED BY <1>4, <2>1, <2>2 DEF AllOff, Midway
<1>6. held' = {}
  BY <1>1, <1>5, NothingOwned DEF Holds
<1>7. keyGrabs' \in Seq(Entry) /\ Len(keyGrabs') = 0
  BY <1>1
<1>8. AllOff(keyGrabs') /\ AsShould(keyGrabs', virtualMods', keyboardGrabbed')
  BY <1>7 DEF AllOff, AsShould
<1>9. Whole' = {} /\ X11!Focus' = X11!Focus
  BY <1>1 DEF Whole, X11!Focus
<1>10. OwnGrabs(keyGrabs') = {}
  BY <1>8, NothingOwned
<1>11. Holds(keyGrabs', held', focusedWindow', Whole')
  BY <1>6, <1>7, <1>8, <1>9, <1>10 DEF Holds, AllOff
<1>12. AsMany(keyGrabs', grabs') /\ IsFiniteSet(grabs') /\ \A g \in grabs' : g.kd \in Definition
  <2>1. ASSUME NEW d \in Definition
        PROVE  Cardinality(At(keyGrabs', d)) = Cardinality(Of(grabs', d))
    <3>1. At(keyGrabs', d) = {} /\ Of(grabs', d) = {}
      BY <1>1, <1>7 DEF At, Of
    <3> QED BY <3>1
  <2> QED BY <1>1, <2>1, FS_EmptySet DEF AsMany
<1> QED BY <1>1, <1>3, <1>8, <1>9, <1>11, <1>12 DEF GrabsInv

\* Steps that change none of this but the focus.
LEMMA OthersKeepGrabsInv ==
  ASSUME GrabsInv, UNCHANGED <<alive, keyGrabs, virtualMods, keyboardGrabbed, focusedWindow,
                               held, grabs>>,
         focus' \in X11!Focus, keyboardGrabbed => focus' = focus
  PROVE  GrabsInv'
<1>1. Whole' = Whole /\ X11!Focus' = X11!Focus
  BY DEF Whole, X11!Focus, X11!Granted, X11!WholeKeyboard
<1> QED BY <1>1 DEF GrabsInv

\* Every step of the device, of X and of the main loop.
LEMMA X11KeepsGrabsInv ==
  ASSUME DefinitionsAreApart, Careful, GrabsInv, X11!Next
  PROVE  GrabsInv'
<1>1. CASE \E kd \in Definition : X11!AddKeyGrab(kd)
  BY <1>1, AddKeepsGrabsInv
<1>2. CASE \E g \in grabs : X11!RemoveKeyGrab(g)
  BY <1>2, RemoveKeepsGrabsInv
<1>3. CASE \/ X11!AddKeyWatcher
           \/ \E k \in ModifierKey : X11!MapModifier(k) \/ X11!UnmapModifier(k) \/ X11!Key(k)
  <2>1. /\ UNCHANGED <<alive, keyGrabs, virtualMods, keyboardGrabbed, focusedWindow,
                       held, grabs>>
        /\ focus' = focus
    BY <1>3 DEF X11!AddKeyWatcher, X11!WatchKeys, X11!MapModifier, X11!UnmapModifier, X11!Key,
                X11!local, X11!device, X11!rest, X11!server
  <2> QED BY <2>1, OthersKeepGrabsInv DEF GrabsInv
<1>4. CASE X11!GrabKeyboard \/ X11!UngrabKeyboard \/ X11!Finalize
  BY <1>4, GrabKeyboardKeepsGrabsInv, UngrabKeyboardKeepsGrabsInv, FinalizeKeepsGrabsInv
<1>5. CASE \E w \in X11!Focus : X11!FocusMoves(w)
  <2>1. /\ UNCHANGED <<alive, keyGrabs, virtualMods, keyboardGrabbed, focusedWindow,
                       held, grabs>>
        /\ focus' \in X11!Focus /\ ~keyboardGrabbed
    BY <1>5 DEF X11!FocusMoves, X11!local, X11!device
  <2> QED BY <2>1, OthersKeepGrabsInv
<1>6. CASE X11!FocusNoticed
  <2>1. /\ alive /\ alive' = alive /\ X11!Refresh(virtualMods, keyboardGrabbed)
        /\ UNCHANGED <<keyboardGrabbed, virtualMods, grabs, focus>>
    BY <1>6 DEF X11!FocusNoticed, X11!device, X11!rest, X11!server
  <2> QED BY <2>1, RefreshKeepsGrabsInv
<1>7. CASE X11!HandleRaw \/ X11!HandleDevice
  <2>1. /\ alive /\ alive' = alive /\ UNCHANGED <<keyboardGrabbed, grabs, focus>>
        /\ \/ UNCHANGED <<keyGrabs, virtualMods, focusedWindow, held>>
           \/ X11!SetVirtualModifier(Head(queue).keycode, Head(queue).pressed)
    BY <1>7 DEF X11!HandleRaw, X11!HandleDevice, X11!device, X11!server
  <2>2. CASE UNCHANGED <<keyGrabs, virtualMods, focusedWindow, held>>
    BY <2>1, <2>2, OthersKeepGrabsInv DEF GrabsInv
  <2>3. CASE X11!SetVirtualModifier(Head(queue).keycode, Head(queue).pressed)
    <3> PICK on : on = X11!ModsAfter(Head(queue).keycode, Head(queue).pressed)
      OBVIOUS
    <3>1. \/ UNCHANGED <<keyGrabs, virtualMods, focusedWindow, held>>
          \/ virtualMods' = on /\ X11!Refresh(on, keyboardGrabbed)
      BY <2>3 DEF X11!SetVirtualModifier
    <3> QED BY <2>1, <2>2, <3>1, RefreshKeepsGrabsInv
  <2> QED BY <2>1, <2>2, <2>3
<1> QED BY <1>1, <1>2, <1>3, <1>4, <1>5, <1>6, <1>7 DEF X11!Next

\* With X11.
HeldAgrees == backend = "x11" => GrabsInv

\* On X11, however grabs of one key, modifiers and the focus come and go, X holds
\* exactly what the grabs of the device ask for and other clients leave to it
\* (refresh_key_grabs, enable_key_grab, disable_key_grab and remove_key_grab), if
\* definitions that are one key in X are duplicates, and the assistive technology
\* keeps the keyboard for one window.
THEOREM GrabsAreHeldInX ==
  ASSUME DefinitionsAreApart, Careful
  PROVE  DevicesSpec => []GrabsAreHeld
PROOF
<1>1. DevicesInit => HeldAgrees
  BY GrabsInvAtFirst DEF DevicesInit, HeldAgrees
<1>2. HeldAgrees => GrabsAreHeld
  BY GrabsInvSuffices DEF HeldAgrees, GrabsAreHeld
<1>3. HeldAgrees /\ [DevicesNext]_<<vars, x11Only, backend>> => HeldAgrees'
  <2> SUFFICES ASSUME HeldAgrees, [DevicesNext]_<<vars, x11Only, backend>>,
                      backend' = "x11"
               PROVE  GrabsInv'
    BY DEF HeldAgrees
  <2>1. backend = "x11" /\ GrabsInv /\ (X11!Next \/ UNCHANGED <<vars, x11Only>>)
    BY DEF DevicesNext, HeldAgrees
  <2>2. CASE UNCHANGED <<vars, x11Only>>
    <3>1. /\ UNCHANGED <<alive, keyGrabs, virtualMods, keyboardGrabbed, focusedWindow,
                         held, grabs>>
          /\ focus' = focus
      BY <2>2 DEF vars, device, x11Only
    <3> QED BY <2>1, <3>1, OthersKeepGrabsInv DEF GrabsInv
  <2> QED BY <2>1, <2>2, X11KeepsGrabsInv
<1> QED
  BY <1>1, <1>2, <1>3, PTL DEF DevicesSpec

-----------------------------------------------------------------------------
(* The registry's keystroke listeners: parts of a list *)

\* The values that Elements takes its last one from.
IsTaking(f, s, I, N) ==
  f = [n \in 0..N |-> IF n = 0 THEN <<>>
                      ELSE IF n \in I THEN Append(f[n - 1], s[n]) ELSE f[n - 1]]

LEMMA TakingExists ==
  ASSUME NEW s, NEW I, NEW N \in Nat
  PROVE  \E f : IsTaking(f, s, I, N)
<1> DEFINE P == {n \in 0..N : \E f : IsTaking(f, s, I, n)}
<1>1. 0 \in P
  <2> DEFINE f == [n \in 0..0 |-> <<>>]
  <2>1. f = [n \in 0..0 |-> IF n = 0 THEN <<>>
                            ELSE IF n \in I THEN Append(f[n - 1], s[n]) ELSE f[n - 1]]
    OBVIOUS
  <2> HIDE DEF f
  <2> QED BY <2>1 DEF IsTaking
<1>2. ASSUME NEW n \in 1..N, n - 1 \in P PROVE n \in P
  <2>1. PICK f : IsTaking(f, s, I, n - 1)
    BY <1>2
  <2> DEFINE x == IF n \in I THEN Append(f[n - 1], s[n]) ELSE f[n - 1]
             g == [k \in 0..n |-> IF k = n THEN x ELSE f[k]]
             next(k) == IF k = 0 THEN <<>>
                        ELSE IF k \in I THEN Append(g[k - 1], s[k]) ELSE g[k - 1]
  <2>2. f = [k \in 0..(n - 1) |-> IF k = 0 THEN <<>>
                                  ELSE IF k \in I THEN Append(f[k - 1], s[k]) ELSE f[k - 1]]
    BY <2>1 DEF IsTaking
  <2>3. \A k \in 0..(n - 1) : f[k] = IF k = 0 THEN <<>>
                                  ELSE IF k \in I THEN Append(f[k - 1], s[k]) ELSE f[k - 1]
    BY <2>2
  <2>4. g[n] = x /\ \A k \in 0..(n - 1) : g[k] = f[k]
    OBVIOUS
  <2>5. g = [k \in 0..n |-> g[k]]
    OBVIOUS
  <2> HIDE DEF g
  <2>6. ASSUME NEW k \in 0..n PROVE g[k] = next(k)
    <3>1. CASE k = n
      <4>1. k - 1 \in 0..(n - 1) /\ k # 0
        BY <3>1
      <4> QED BY <2>4, <3>1, <4>1
    <3>2. CASE k # n
      <4>1. k \in 0..(n - 1) /\ (k # 0 => k - 1 \in 0..(n - 1))
        BY <3>2
      <4> QED BY <2>3, <2>4, <4>1
    <3> QED BY <3>1, <3>2
  <2>7. g = [k \in 0..n |-> next(k)]
    <3> HIDE DEF next
    <3> QED BY <2>5, <2>6
  <2>8. IsTaking(g, s, I, n)
    BY <2>7 DEF IsTaking
  <2> QED BY <2>8
<1>3. N \in P
  <2> HIDE DEF P
  <2>1. 0..N \subseteq P
    BY <1>1, <1>2, UpTo
  <2> QED BY <2>1
<1> QED BY <1>3

\* Elements goes through the list.
LEMMA Taking ==
  ASSUME NEW s, NEW I, Len(s) \in Nat
  PROVE  \E f : /\ f[0] = <<>>
                /\ \A n \in 1..Len(s) :
                     f[n] = IF n \in I THEN Append(f[n - 1], s[n]) ELSE f[n - 1]
                /\ Elements(s, I) = f[Len(s)]
<1> DEFINE N == Len(s)
           c == CHOOSE f : f = [n \in 0..N |-> IF n = 0 THEN <<>>
                                  ELSE IF n \in I THEN Append(f[n - 1], s[n]) ELSE f[n - 1]]
<1>1. \E f : IsTaking(f, s, I, N)
  BY TakingExists, SMTT(40)
<1>2. c = [n \in 0..N |-> IF n = 0 THEN <<>>
                          ELSE IF n \in I THEN Append(c[n - 1], s[n]) ELSE c[n - 1]]
  BY <1>1 DEF IsTaking
<1>3. Elements(s, I) = c[N]
  BY DEF Elements
<1> HIDE DEF c
<1>4. c[0] = <<>>
  BY <1>2
<1>5. ASSUME NEW n \in 1..N
      PROVE  c[n] = IF n \in I THEN Append(c[n - 1], s[n]) ELSE c[n - 1]
  <2>1. n \in 0..N /\ n # 0
    OBVIOUS
  <2> QED BY ONLY <1>2, <2>1
<1> QED BY <1>3, <1>4, <1>5

\* What the elements of a list are.
Among(t, s, I, n) ==
  /\ \A k \in 1..Len(t) : \E i \in 1..n : i \in I /\ t[k] = s[i]
  /\ \A i \in 1..n : i \in I => \E k \in 1..Len(t) : t[k] = s[i]

LEMMA ElementsAmong ==
  ASSUME NEW S, NEW s \in Seq(S), NEW I
  PROVE  Elements(s, I) \in Seq(S) /\ Among(Elements(s, I), s, I, Len(s))
<1> DEFINE N == Len(s)
<1>1. N \in Nat /\ \A n \in 1..N : s[n] \in S
  OBVIOUS
<1>2. PICK f : /\ f[0] = <<>>
               /\ \A n \in 1..N : f[n] = IF n \in I THEN Append(f[n - 1], s[n]) ELSE f[n - 1]
               /\ Elements(s, I) = f[N]
  BY <1>1, Taking
<1> HIDE DEF N
<1> DEFINE P == {n \in 0..N : f[n] \in Seq(S) /\ Among(f[n], s, I, n)}
<1>3. 0 \in P
  <2>1. f[0] \in Seq(S) /\ Len(f[0]) = 0
    BY <1>2
  <2>2. Among(f[0], s, I, 0)
    BY <2>1 DEF Among
  <2> QED BY <1>1, <2>1, <2>2
<1>4. ASSUME NEW n \in 1..N, n - 1 \in P PROVE n \in P
  <2> PICK t : t = f[n - 1]
    OBVIOUS
  <2>1. t \in Seq(S) /\ Among(t, s, I, n - 1) /\ Len(t) \in Nat
    BY <1>4
  <2>2. \A i : i \in 1..n <=> (i \in 1..(n - 1) \/ i = n)
    BY <1>1
  <2>3. CASE n \notin I
    <3>1. f[n] = t
      BY <1>2, <2>3
    <3>2. Among(t, s, I, n)
      BY ONLY <2>1, <2>2, <2>3 DEF Among
    <3> QED BY <2>1, <3>1, <3>2
  <2>4. CASE n \in I
    <3> PICK u : u = Append(t, s[n])
      OBVIOUS
    <3>1. f[n] = u
      BY <1>2, <2>4
    <3>0. s[n] \in S /\ t \in Seq(S)
      BY <1>1, <2>1
    <3>2. /\ u \in Seq(S) /\ Len(u) = Len(t) + 1 /\ u[Len(t) + 1] = s[n]
          /\ \A k \in 1..Len(t) : u[k] = t[k]
      <4> PICK y : y = s[n]
        OBVIOUS
      <4>1. y \in S /\ u = Append(t, y)
        BY <3>0
      <4>2. /\ u \in Seq(S) /\ Len(u) = Len(t) + 1 /\ u[Len(t) + 1] = y
            /\ \A k \in 1..Len(t) : u[k] = t[k]
        BY ONLY <3>0, <4>1
      <4> QED BY <4>2
    <3>3. \A k : k \in 1..Len(u) <=> (k \in 1..Len(t) \/ k = Len(t) + 1)
      BY <2>1, <3>2
    <3>4. Among(u, s, I, n)
      <4>1. /\ \A k \in 1..Len(t) : \E i \in 1..(n - 1) : i \in I /\ t[k] = s[i]
            /\ \A i \in 1..(n - 1) : i \in I => \E k \in 1..Len(t) : t[k] = s[i]
        BY <2>1 DEF Among
      <4>2. \A k \in 1..Len(u) : \E i \in 1..n : i \in I /\ u[k] = s[i]
        <5> SUFFICES ASSUME NEW k \in 1..Len(u) PROVE \E i \in 1..n : i \in I /\ u[k] = s[i]
          OBVIOUS
        <5>1. CASE k \in 1..Len(t)
          <6>1. PICK i \in 1..(n - 1) : i \in I /\ t[k] = s[i]
            BY <4>1, <5>1
          <6> QED BY <2>2, <3>2, <5>1, <6>1
        <5>2. CASE k = Len(t) + 1
          BY ONLY <2>2, <2>4, <3>2, <5>2
        <5> QED BY <3>3, <5>1, <5>2
      <4>3. \A i \in 1..n : i \in I => \E k \in 1..Len(u) : u[k] = s[i]
        BY ONLY <2>2, <2>4, <3>2, <3>3, <4>1
      <4> QED BY <4>2, <4>3 DEF Among
    <3>5. f[n] \in Seq(S) /\ Among(f[n], s, I, n)
      BY ONLY <3>1, <3>2, <3>4
    <3>6. n \in 0..N
      OBVIOUS
    <3> QED BY <3>5, <3>6
  <2> QED BY <2>3, <2>4
<1>5. N \in P
  <2> HIDE DEF P
  <2>1. 0..N \subseteq P
    BY <1>1, <1>3, <1>4, UpTo
  <2> QED BY <1>1, <2>1
<1> QED BY <1>2, <1>5 DEF N

\* Lists of the same elements at the same places.
LEMMA SameList ==
  ASSUME NEW S, NEW s \in Seq(S), NEW t \in Seq(S), Len(s) = Len(t),
         \A i \in 1..Len(s) : s[i] = t[i]
  PROVE  s = t
OBVIOUS

\* All elements but the one at p are taken, or all, if p is behind them.
LEMMA ElementsButOne ==
  ASSUME NEW S, NEW s \in Seq(S), NEW p \in 1..(Len(s) + 1), NEW I,
         \A i \in 1..Len(s) : i \in I <=> i # p
  PROVE  /\ Elements(s, I) \in Seq(S)
         /\ Len(Elements(s, I)) = IF p = Len(s) + 1 THEN Len(s) ELSE Len(s) - 1
         /\ \A k \in 1..Len(Elements(s, I)) : Elements(s, I)[k] = s[Skip(p, k)]
<1> DEFINE N == Len(s)
<1>1. N \in Nat /\ \A n \in 1..N : s[n] \in S
  OBVIOUS
<1>2. PICK f : /\ f[0] = <<>>
               /\ \A n \in 1..N : f[n] = IF n \in I THEN Append(f[n - 1], s[n]) ELSE f[n - 1]
               /\ Elements(s, I) = f[N]
  BY <1>1, Taking
<1>0. p \in 1..(N + 1) /\ \A i \in 1..N : i \in I <=> i # p
  OBVIOUS
<1>6. Elements(s, I) \in Seq(S)
  BY ElementsAmong
<1> HIDE DEF N
<1> DEFINE Q(n) == /\ f[n] \in Seq(S) /\ Len(f[n]) = IF p > n THEN n ELSE n - 1
                   /\ \A k \in 1..Len(f[n]) : f[n][k] = s[Skip(p, k)]
           P == {n \in 0..N : Q(n)}
<1>3. 0 \in P
  <2>1. f[0] \in Seq(S) /\ Len(f[0]) = 0
    BY <1>2
  <2>2. p > 0 /\ 0 \in 0..N
    BY <1>0, <1>1
  <2> QED BY <2>1, <2>2
<1>4. ASSUME NEW n \in 1..N, n - 1 \in P PROVE n \in P
  <2> PICK t : t = f[n - 1]
    OBVIOUS
  <2>1. /\ t \in Seq(S) /\ Len(t) \in Nat /\ Len(t) = IF p > n - 1 THEN n - 1 ELSE n - 2
        /\ \A k \in 1..Len(t) : t[k] = s[Skip(p, k)]
    BY <1>4
  <2>3. CASE n = p
    <3>1. f[n] = t
      BY <1>0, <1>2, <2>3
    <3>2. Len(t) = IF p > n THEN n ELSE n - 1
      BY <1>0, <2>1, <2>3
    <3> QED BY <2>1, <3>1, <3>2
  <2>4. CASE n # p
    <3> PICK u : u = Append(t, s[n])
      OBVIOUS
    <3>1. f[n] = u
      BY <1>0, <1>2, <2>4
    <3>0. s[n] \in S /\ t \in Seq(S)
      BY <1>1, <2>1
    <3>2. /\ u \in Seq(S) /\ Len(u) = Len(t) + 1 /\ u[Len(t) + 1] = s[n]
          /\ \A k \in 1..Len(t) : u[k] = t[k]
      <4> PICK y : y = s[n]
        OBVIOUS
      <4>1. y \in S /\ u = Append(t, y)
        BY <3>0
      <4>2. /\ u \in Seq(S) /\ Len(u) = Len(t) + 1 /\ u[Len(t) + 1] = y
            /\ \A k \in 1..Len(t) : u[k] = t[k]
        BY ONLY <3>0, <4>1
      <4> QED BY <4>2
    <3>3. \A k : k \in 1..Len(u) <=> (k \in 1..Len(t) \/ k = Len(t) + 1)
      BY <2>1, <3>2
    <3>4. Len(t) + 1 = (IF p > n THEN n ELSE n - 1) /\ Skip(p, Len(t) + 1) = n
      BY <1>0, <1>1, <2>1, <2>4 DEF Skip
    <3>5. \A k \in 1..Len(u) : u[k] = s[Skip(p, k)]
      BY <2>1, <3>2, <3>3, <3>4
    <3>6. Len(u) = IF p > n THEN n ELSE n - 1
      BY <3>2, <3>4
    <3>7. Q(n)
      BY ONLY <3>1, <3>2, <3>5, <3>6
    <3>8. n \in 0..N
      OBVIOUS
    <3> HIDE DEF Q
    <3> QED BY <3>7, <3>8
  <2> QED BY <2>3, <2>4
<1>5. N \in P
  <2> HIDE DEF P
  <2>1. 0..N \subseteq P
    BY <1>1, <1>3, <1>4, UpTo
  <2> QED BY <1>1, <2>1
<1>7. (p > N) <=> (p = N + 1)
  BY <1>0, <1>1
<1> QED BY <1>2, <1>5, <1>6, <1>7 DEF N

-----------------------------------------------------------------------------
(* Messages and types *)

\* Registrations of clients that have made calls, and the messages on their way.
Known == {r \in Registration : calls[r.client] > 0}
Message ==
  [type : {"register", "deregister"}, listener : Known]
    \cup [type : {"notify"}, stroke : Pressed] \cup [type : {"gone"}, client : Client]

KeyTypes ==
  /\ conn \subseteq Client /\ calls \in [Client -> Nat]
  /\ mine \subseteq Known /\ listeners \in Seq(Known) /\ todo \in Seq(Known)
  /\ messages \in Seq(Message) /\ inbox \in Seq(Message)
  /\ keygrabs \in [Grab -> Int]

LEMMA LargerSeq ==
  ASSUME NEW S, NEW T, S \subseteq T, NEW s \in Seq(S)
  PROVE  s \in Seq(T)
<1>1. Len(s) \in Nat /\ DOMAIN s = 1..Len(s) /\ \A i \in 1..Len(s) : s[i] \in T
  OBVIOUS
<1>2. s = [i \in 1..Len(s) |-> s[i]]
  OBVIOUS
<1> QED BY <1>1, <1>2

\* A call makes a client known.
LEMMA CallsGrow ==
  ASSUME KeyTypes, NEW c, CountCall(c)
  PROVE  /\ c \in Client /\ calls' \in [Client -> Nat] /\ calls'[c] > 0
         /\ Known \subseteq Known'
         /\ \A s \in Seq(Known) : s \in Seq(Known')
         /\ \A s \in Seq(Message) : s \in Seq(Message')
<1>1. /\ c \in Client /\ calls \in [Client -> Nat] /\ calls' = [calls EXCEPT ![c] = @ + 1]
  BY DEF CountCall, KeyTypes
<1>2. /\ calls' \in [Client -> Nat] /\ calls'[c] > 0
      /\ \A d \in Client : calls[d] > 0 => calls'[d] > 0
  BY <1>1
<1>3. Known \subseteq Known'
  BY <1>2, RegistrationAssumption DEF Known
<1>4. Message \subseteq Message'
  BY <1>3 DEF Message
<1>5. ASSUME NEW s \in Seq(Known) PROVE s \in Seq(Known')
  BY <1>3, LargerSeq
<1>6. ASSUME NEW s \in Seq(Message) PROVE s \in Seq(Message')
  BY <1>4, LargerSeq
<1> QED BY <1>1, <1>2, <1>3, <1>5, <1>6

LEMMA SameCalls ==
  ASSUME UNCHANGED calls
  PROVE  Known' = Known /\ Message' = Message
BY DEF Known, Message

\* handle_keygrab counts.
LEMMA WantsType ==
  ASSUME NEW l \in Registration, NEW g
  PROVE  Wants(l, g) \in Nat
<1> DEFINE I == {i \in DOMAIN l.keys : l.keys[i] = g[2]}
<1>1. l.keys \in Seq(Key)
  BY RegistrationAssumption
<1>2. DOMAIN l.keys = 1..Len(l.keys) /\ Len(l.keys) \in Nat
  BY <1>1
<1>3. IsFiniteSet(1..Len(l.keys)) /\ I \in SUBSET (1..Len(l.keys))
  BY <1>2, FS_Interval
<1> HIDE DEF I
<1>4. Cardinality(I) \in Nat
  BY <1>3, FS_Subset, FS_CardinalityType
<1> QED BY <1>4 DEF Wants, I

LEMMA GrabsType ==
  ASSUME NEW gs \in [Grab -> Int], NEW l \in Registration
  PROVE  AddedGrabs(gs, l) \in [Grab -> Int] /\ ReleasedGrabs(gs, l) \in [Grab -> Int]
<1>1. \A g \in Grab : Wants(l, g) \in Int
  BY WantsType
<1> QED BY <1>1 DEF AddedGrabs, ReleasedGrabs

\* The clones of a key event are of listeners.
LEMMA ClonesAreListeners ==
  ASSUME KeyTypes, NEW k, NEW b
  PROVE  /\ Clones(k, b) \in Seq(Known)
         /\ \A i \in 1..Len(Clones(k, b)) : \E j \in 1..Len(listeners) : Clones(k, b)[i] = listeners[j]
<1> PICK I : I = {i \in DOMAIN listeners : Matches(listeners[i], k, b)}
  OBVIOUS
<1> PICK e : e = Elements(listeners, I)
  OBVIOUS
<1>1. e \in Seq(Known) /\ Among(e, listeners, I, Len(listeners))
  BY ElementsAmong DEF KeyTypes
<1>2. Len(e) \in Nat /\ Clones(k, b) = [i \in 1..Len(e) |-> e[(Len(e) - i) + 1]]
  BY <1>1 DEF Clones, Reverse
<1>3. \A i \in 1..Len(e) : (Len(e) - i) + 1 \in 1..Len(e)
  BY <1>2
<1>4. \A i \in 1..Len(e) : e[i] \in Known
  BY <1>1
<1> PICK t : t = Clones(k, b)
  OBVIOUS
<1>5. t \in Seq(Known) /\ Len(t) = Len(e) /\ \A i \in 1..Len(e) : t[i] = e[(Len(e) - i) + 1]
  BY ONLY <1>2, <1>3, <1>4, t = Clones(k, b)
<1>6. ASSUME NEW i \in 1..Len(t) PROVE \E j \in 1..Len(listeners) : t[i] = listeners[j]
  <2>1. \A n \in 1..Len(e) : \E j \in 1..Len(listeners) : j \in I /\ e[n] = listeners[j]
    BY ONLY <1>1 DEF Among
  <2>2. (Len(e) - i) + 1 \in 1..Len(e) /\ t[i] = e[(Len(e) - i) + 1]
    BY <1>3, <1>5
  <2>3. PICK j \in 1..Len(listeners) : e[(Len(e) - i) + 1] = listeners[j]
    BY ONLY <2>1, <2>2
  <2> QED BY ONLY <2>2, <2>3
<1> QED BY <1>5, <1>6

\* The values that AllReleased takes its last one from.
IsReleasing(f, I, N) ==
  f = [n \in 0..N |-> IF n = 0 THEN keygrabs
                      ELSE IF n \in I THEN ReleasedGrabs(f[n - 1], listeners[n])
                      ELSE f[n - 1]]

LEMMA ReleasingExists ==
  ASSUME NEW I, NEW N \in Nat
  PROVE  \E f : IsReleasing(f, I, N)
<1> DEFINE P == {n \in 0..N : \E f : IsReleasing(f, I, n)}
<1>1. 0 \in P
  <2> DEFINE f == [n \in 0..0 |-> keygrabs]
  <2>1. f = [n \in 0..0 |-> IF n = 0 THEN keygrabs
                            ELSE IF n \in I THEN ReleasedGrabs(f[n - 1], listeners[n])
                            ELSE f[n - 1]]
    OBVIOUS
  <2> HIDE DEF f
  <2> QED BY <2>1 DEF IsReleasing
<1>2. ASSUME NEW n \in 1..N, n - 1 \in P PROVE n \in P
  <2>1. PICK f : IsReleasing(f, I, n - 1)
    BY <1>2
  <2> DEFINE x == IF n \in I THEN ReleasedGrabs(f[n - 1], listeners[n]) ELSE f[n - 1]
             g == [k \in 0..n |-> IF k = n THEN x ELSE f[k]]
             next(k) == IF k = 0 THEN keygrabs
                        ELSE IF k \in I THEN ReleasedGrabs(g[k - 1], listeners[k]) ELSE g[k - 1]
  <2>2. f = [k \in 0..(n - 1) |-> IF k = 0 THEN keygrabs
                                  ELSE IF k \in I THEN ReleasedGrabs(f[k - 1], listeners[k])
                                  ELSE f[k - 1]]
    BY <2>1 DEF IsReleasing
  <2>3. \A k \in 0..(n - 1) : f[k] = IF k = 0 THEN keygrabs
                                  ELSE IF k \in I THEN ReleasedGrabs(f[k - 1], listeners[k])
                                  ELSE f[k - 1]
    BY <2>2
  <2>4. g[n] = x /\ \A k \in 0..(n - 1) : g[k] = f[k]
    OBVIOUS
  <2>5. g = [k \in 0..n |-> g[k]]
    OBVIOUS
  <2> HIDE DEF g
  <2>6. ASSUME NEW k \in 0..n PROVE g[k] = next(k)
    <3>1. CASE k = n
      <4>1. k - 1 \in 0..(n - 1) /\ k # 0
        BY <3>1
      <4> QED BY <2>4, <3>1, <4>1
    <3>2. CASE k # n
      <4>1. k \in 0..(n - 1) /\ (k # 0 => k - 1 \in 0..(n - 1))
        BY <3>2
      <4> QED BY <2>3, <2>4, <4>1
    <3> QED BY <3>1, <3>2
  <2>7. g = [k \in 0..n |-> next(k)]
    <3> HIDE DEF next
    <3> QED BY <2>5, <2>6
  <2>8. IsReleasing(g, I, n)
    BY <2>7 DEF IsReleasing
  <2> QED BY <2>8
<1>3. N \in P
  <2> HIDE DEF P
  <2>1. 0..N \subseteq P
    BY <1>1, <1>2, UpTo
  <2> QED BY <2>1
<1> QED BY <1>3

\* AllReleased goes through the listeners.
LEMMA Releasing ==
  ASSUME NEW d, Len(listeners) \in Nat
  PROVE  \E f : /\ f[0] = keygrabs
                /\ \A n \in 1..Len(listeners) :
                     f[n] = IF n \in Newest(d) THEN ReleasedGrabs(f[n - 1], listeners[n])
                            ELSE f[n - 1]
                /\ AllReleased(d) = f[Len(listeners)]
<1> DEFINE N == Len(listeners)
           c == CHOOSE f : f = [n \in 0..N |-> IF n = 0 THEN keygrabs
                              ELSE IF n \in Newest(d) THEN ReleasedGrabs(f[n - 1], listeners[n])
                              ELSE f[n - 1]]
<1>1. \E f : IsReleasing(f, Newest(d), N)
  BY ReleasingExists
<1>2. c = [n \in 0..N |-> IF n = 0 THEN keygrabs
                          ELSE IF n \in Newest(d) THEN ReleasedGrabs(c[n - 1], listeners[n])
                          ELSE c[n - 1]]
  BY <1>1 DEF IsReleasing
<1>3. AllReleased(d) = c[N]
  BY DEF AllReleased
<1> HIDE DEF c
<1>4. c[0] = keygrabs
  BY <1>2
<1>5. ASSUME NEW n \in 1..N
      PROVE  c[n] = IF n \in Newest(d) THEN ReleasedGrabs(c[n - 1], listeners[n]) ELSE c[n - 1]
  <2>1. n \in 0..N /\ n # 0
    OBVIOUS
  <2> QED BY ONLY <1>2, <2>1
<1> QED BY <1>3, <1>4, <1>5

LEMMA AllReleasedType ==
  ASSUME KeyTypes, NEW d
  PROVE  /\ AllReleased(d) \in [Grab -> Int]
         /\ Newest(d) = {} => AllReleased(d) = keygrabs
<1> DEFINE N == Len(listeners)
<1>1. /\ N \in Nat /\ keygrabs \in [Grab -> Int]
      /\ \A n \in 1..N : listeners[n] \in Registration
  BY DEF KeyTypes, Known
<1>2. PICK f : /\ f[0] = keygrabs
               /\ \A n \in 1..N : f[n] = IF n \in Newest(d) THEN ReleasedGrabs(f[n - 1], listeners[n])
                                         ELSE f[n - 1]
               /\ AllReleased(d) = f[N]
  BY <1>1, Releasing
<1> HIDE DEF N
<1> DEFINE P == {n \in 0..N : f[n] \in [Grab -> Int] /\ (Newest(d) = {} => f[n] = keygrabs)}
<1>3. 0 \in P
  BY <1>1, <1>2
<1>4. ASSUME NEW n \in 1..N, n - 1 \in P PROVE n \in P
  <2>1. f[n - 1] \in [Grab -> Int] /\ (Newest(d) = {} => f[n - 1] = keygrabs)
    BY <1>4
  <2>2. ReleasedGrabs(f[n - 1], listeners[n]) \in [Grab -> Int]
    BY <1>1, <2>1, GrabsType
  <2>3. f[n] \in [Grab -> Int] /\ (Newest(d) = {} => f[n] = keygrabs)
    BY <1>2, <2>1, <2>2
  <2> QED BY <2>3
<1>5. N \in P
  <2> HIDE DEF P
  <2>1. 0..N \subseteq P
    BY <1>1, <1>3, <1>4, UpTo
  <2> QED BY <1>1, <2>1
<1> QED BY <1>2, <1>5

-----------------------------------------------------------------------------
(* Only what is registered is asked *)

\* A list with one more element at its end.
LEMMA OneMore ==
  ASSUME NEW S, NEW s \in Seq(S), NEW e \in S
  PROVE  /\ Append(s, e) \in Seq(S) /\ Len(Append(s, e)) = Len(s) + 1
         /\ Append(s, e)[Len(s) + 1] = e
         /\ \A i \in 1..Len(s) : Append(s, e)[i] = s[i]
         /\ \A i \in 1..(Len(s) + 1) : i \in 1..Len(s) \/ i = Len(s) + 1
OBVIOUS

\* A list without its first element.
LEMMA OneLess ==
  ASSUME NEW S, NEW s \in Seq(S), s # <<>>
  PROVE  /\ Tail(s) \in Seq(S) /\ Len(s) \in Nat /\ Len(s) >= 1 /\ s[1] \in S
         /\ Len(Tail(s)) = Len(s) - 1
         /\ \A i \in 1..(Len(s) - 1) : i + 1 \in 1..Len(s) /\ Tail(s)[i] = s[i + 1]
OBVIOUS

\* A list that is put before another.
LEMMA OneBefore ==
  ASSUME NEW S, NEW s \in Seq(S), NEW e \in S
  PROVE  /\ <<e>> \o s \in Seq(S) /\ Len(<<e>> \o s) = Len(s) + 1 /\ Len(s) \in Nat
         /\ (<<e>> \o s)[1] = e
         /\ \A i \in 1..Len(s) : i + 1 \in 1..(Len(s) + 1) /\ (<<e>> \o s)[i + 1] = s[i]
OBVIOUS

\* The clients whose departure is on its way are gone.
GoneAreGone(box) == \A i \in 1..Len(box) : box[i].type = "gone" => box[i].client \notin conn
\* The clones are of listeners.
ShownAreListeners ==
  \A i \in 1..Len(todo) :
    (\E j \in 1..Len(listeners) : todo[i] = listeners[j]) \/ todo[i].client \notin conn

LEMMA ShownFits ==
  ASSUME KeyTypes
  PROVE  ShownAreListeners <=> AsksOnlyRegistered
<1>1. DOMAIN todo = 1..Len(todo) /\ DOMAIN listeners = 1..Len(listeners)
  BY DEF KeyTypes
<1>2. Range(listeners) = {listeners[j] : j \in 1..Len(listeners)}
  BY <1>1 DEF Range
<1> QED BY <1>1, <1>2 DEF ShownAreListeners, AsksOnlyRegistered

Shown == KeyTypes /\ GoneAreGone(inbox) /\ ShownAreListeners

\* A message is sent: a call of a client, a key event of a toolkit, or a departure.
LEMMA SendKeeps ==
  ASSUME Shown, NEW m \in Message', Send(m), conn' \subseteq conn,
         m.type = "gone" => m.client \notin conn',
         calls' \in [Client -> Nat], mine' \subseteq Known',
         \A s \in Seq(Known) : s \in Seq(Known'),
         \A s \in Seq(Message) : s \in Seq(Message'),
         UNCHANGED <<messages, listeners, keygrabs, todo>>
  PROVE  Shown'
<1>1. /\ inbox \in Seq(Message') /\ messages' \in Seq(Message') /\ listeners' \in Seq(Known')
      /\ todo' \in Seq(Known') /\ keygrabs' \in [Grab -> Int] /\ conn' \subseteq Client
  BY DEF Shown, KeyTypes
<1> PICK box : box = Append(inbox, m)
  OBVIOUS
<1> PICK M : M = Message'
  OBVIOUS
<1>2. /\ box \in Seq(M) /\ Len(box) = Len(inbox) + 1 /\ box[Len(inbox) + 1] = m
      /\ \A i \in 1..Len(inbox) : box[i] = inbox[i]
      /\ \A i \in 1..(Len(inbox) + 1) : i \in 1..Len(inbox) \/ i = Len(inbox) + 1
  BY <1>1, OneMore
<1>3. inbox' = box
  BY DEF Send
<1>4. KeyTypes'
  BY <1>1, <1>2, <1>3 DEF KeyTypes
<1>5. GoneAreGone(inbox)'
  BY <1>2, <1>3 DEF Shown, GoneAreGone
<1>6. ShownAreListeners'
  BY DEF Shown, ShownAreListeners
<1> QED BY <1>4, <1>5, <1>6 DEF Shown

\* The clones that are still to be shown become those of a list with the same
\* property.
LEMMA LoopKeeps ==
  ASSUME Shown, NEW rest \in Seq(Known),
         \A i \in 1..Len(rest) :
           (\E j \in 1..Len(listeners) : rest[i] = listeners[j]) \/ rest[i].client \notin conn,
         todo' = rest, NEW s \in Seq(Message), messages' = s,
         UNCHANGED <<conn, mine, calls, inbox, listeners, keygrabs>>
  PROVE  Shown'
<1>1. Known' = Known /\ Message' = Message
  BY SameCalls
<1>2. KeyTypes'
  BY <1>1 DEF Shown, KeyTypes
<1> QED BY <1>2 DEF Shown, GoneAreGone, ShownAreListeners

\* The listeners change while no key event is shown.
LEMMA ListenersKeep ==
  ASSUME Shown, todo = <<>>, NEW ls \in Seq(Known), listeners' = ls,
         NEW gs \in [Grab -> Int], keygrabs' = gs,
         NEW s \in Seq(Message), messages' = s,
         UNCHANGED <<conn, mine, calls, inbox, todo>>
  PROVE  Shown'
<1>1. Known' = Known /\ Message' = Message
  BY SameCalls
<1>2. KeyTypes'
  BY <1>1 DEF Shown, KeyTypes
<1>3. Len(todo') = 0
  OBVIOUS
<1>4. ShownAreListeners'
  BY <1>3 DEF ShownAreListeners
<1> QED BY <1>2, <1>4 DEF Shown, GoneAreGone

\* A message has been read.
LEMMA ReadKeeps ==
  ASSUME KeyTypes, GoneAreGone(inbox), inbox # <<>>
  PROVE  /\ Tail(inbox) \in Seq(Message) /\ GoneAreGone(Tail(inbox))
         /\ inbox[1] \in Message
         /\ inbox[1].type = "gone" => inbox[1].client \notin conn
<1>1. inbox \in Seq(Message)
  BY DEF KeyTypes
<1>2. /\ Tail(inbox) \in Seq(Message) /\ Len(inbox) \in Nat /\ Len(inbox) >= 1
      /\ inbox[1] \in Message /\ Len(Tail(inbox)) = Len(inbox) - 1
      /\ \A i \in 1..(Len(inbox) - 1) : i + 1 \in 1..Len(inbox) /\ Tail(inbox)[i] = inbox[i + 1]
  BY <1>1, OneLess
<1>3. 1 \in 1..Len(inbox)
  BY <1>2
<1> QED BY <1>2, <1>3 DEF GoneAreGone

LEMMA DispatchCallKeeps ==
  ASSUME Shown, DispatchCall
  PROVE  Shown'
<1>1. /\ Tail(inbox) \in Seq(Message) /\ GoneAreGone(Tail(inbox)) /\ inbox[1] \in Message
  BY ReadKeeps DEF Shown, DispatchCall
<1>2. messages \in Seq(Message)
  BY DEF Shown, KeyTypes
<1>3. Append(messages, inbox[1]) \in Seq(Message)
  BY <1>1, <1>2
<1>4. Known' = Known /\ Message' = Message
  BY SameCalls DEF DispatchCall, clientVars
<1>5. KeyTypes'
  BY <1>1, <1>3, <1>4 DEF DispatchCall, clientVars, listenerVars, Shown, KeyTypes
<1>6. ShownAreListeners'
  BY DEF DispatchCall, clientVars, listenerVars, Shown, ShownAreListeners
<1>7. GoneAreGone(inbox)'
  BY <1>1 DEF DispatchCall, clientVars, GoneAreGone
<1> QED BY <1>5, <1>6, <1>7 DEF Shown

\* The listeners of a client that is gone are removed.
LEMMA DispatchGoneKeeps ==
  ASSUME Shown, DispatchGone
  PROVE  Shown'
<1>1. /\ Tail(inbox) \in Seq(Message) /\ GoneAreGone(Tail(inbox))
      /\ inbox[1].client \notin conn
  BY ReadKeeps DEF Shown, DispatchGone
<1>2. Known' = Known /\ Message' = Message
  BY SameCalls DEF DispatchGone, clientVars
<1> PICK d : d = inbox[1].client
  OBVIOUS
<1> PICK ls : ls = AllRemoved(listeners, d)
  OBVIOUS
<1> PICK I : I = {i \in DOMAIN listeners : listeners[i].client # d}
  OBVIOUS
<1>3. DOMAIN listeners = 1..Len(listeners) /\ listeners \in Seq(Known)
  BY DEF Shown, KeyTypes
<1>4. ls \in Seq(Known) /\ Among(ls, listeners, I, Len(listeners))
  <2>1. ls = Elements(listeners, I)
    BY DEF AllRemoved
  <2> QED BY <1>3, <2>1, ElementsAmong
<1>5. AllReleased(d) \in [Grab -> Int]
  BY AllReleasedType DEF Shown
<1>6. KeyTypes'
  BY <1>1, <1>2, <1>4, <1>5 DEF DispatchGone, clientVars, listenerVars, Shown, KeyTypes
<1>7. GoneAreGone(inbox)'
  BY <1>1 DEF DispatchGone, clientVars, GoneAreGone
<1>8. ShownAreListeners'
  <2>1. \A i \in 1..Len(listeners) : i \in I => \E j \in 1..Len(ls) : ls[j] = listeners[i]
    BY <1>4 DEF Among
  <2>2. \A i \in 1..Len(listeners) :
          listeners[i].client \in conn => \E j \in 1..Len(ls) : ls[j] = listeners[i]
    <3>1. \A i \in 1..Len(listeners) : listeners[i].client \in conn => i \in I
      BY <1>1, <1>3
    <3> QED BY ONLY <2>1, <3>1
  <2>3. todo' = todo /\ conn' = conn /\ (listeners' = ls \/ listeners' = listeners)
    BY DEF DispatchGone, clientVars, listenerVars
  <2>4. ShownAreListeners
    BY DEF Shown
  <2>5. CASE listeners' = listeners
    BY ONLY <2>3, <2>4, <2>5 DEF ShownAreListeners
  <2>6. CASE listeners' = ls
    BY ONLY <2>2, <2>3, <2>4, <2>6 DEF ShownAreListeners
  <2> QED BY <2>3, <2>5, <2>6
<1> QED BY <1>6, <1>7, <1>8 DEF Shown

\* A call leaves the queue while no key event is shown.
LEMMA Called ==
  ASSUME Shown, NEW t, HandleCall(t)
  PROVE  /\ todo = <<>> /\ messages[1].type = t /\ messages[1] \in Message
         /\ Tail(messages) \in Seq(Message) /\ messages' = Tail(messages)
         /\ t \in {"register", "deregister"} => messages[1].listener \in Known
<1>1. todo = <<>> /\ messages # <<>> /\ messages[1].type = t /\ messages' = Tail(messages)
  BY DEF HandleCall, MayHandle, Idle
<1>2. messages \in Seq(Message)
  BY DEF Shown, KeyTypes
<1>3. messages[1] \in Message /\ Tail(messages) \in Seq(Message)
  BY <1>1, <1>2, OneLess
<1>4. t \in {"register", "deregister"} => messages[1].listener \in Known
  BY <1>1, <1>3 DEF Message
<1> QED BY <1>1, <1>3, <1>4

\* A key event is shown to clones of listeners.
LEMMA ShowingKeeps ==
  ASSUME Shown, NEW k, NEW b, todo' = Clones(k, b), NEW s \in Seq(Message), messages' = s,
         UNCHANGED <<conn, mine, calls, inbox, listeners, keygrabs>>
  PROVE  Shown'
<1> PICK rest : rest = Clones(k, b)
  OBVIOUS
<1>1. KeyTypes
  BY DEF Shown
<1>2. /\ rest \in Seq(Known)
      /\ \A i \in 1..Len(rest) : \E j \in 1..Len(listeners) : rest[i] = listeners[j]
  BY <1>1, ClonesAreListeners
<1> QED BY <1>2, LoopKeeps

LEMMA HandlersKeep ==
  ASSUME Shown, HandleRegister \/ HandleDeregister \/ HandleNotify
  PROVE  Shown'
<1>0. listeners \in Seq(Known) /\ keygrabs \in [Grab -> Int] /\ Known \subseteq Registration
  BY DEF Shown, KeyTypes, Known
<1>1. CASE HandleRegister
  <2> PICK l : l = messages[1].listener
    OBVIOUS
  <2>1. /\ todo = <<>> /\ Tail(messages) \in Seq(Message) /\ messages' = Tail(messages)
        /\ l \in Known
    BY <1>1, Called DEF HandleRegister
  <2>2. <<l>> \o listeners \in Seq(Known)
    BY <1>0, <2>1
  <2>3. AddedGrabs(keygrabs, l) \in [Grab -> Int]
    BY <1>0, <2>1, GrabsType
  <2>4. /\ listeners' = <<l>> \o listeners
        /\ keygrabs' = IF l.global THEN AddedGrabs(keygrabs, l) ELSE keygrabs
        /\ UNCHANGED <<conn, mine, calls, inbox, todo>>
    BY <1>1 DEF HandleRegister, clientVars
  <2>5. keygrabs' \in [Grab -> Int]
    BY <1>0, <2>3, <2>4
  <2> QED BY <2>1, <2>2, <2>4, <2>5, ListenersKeep
<1>2. CASE HandleDeregister
  <2> PICK l : l = messages[1].listener
    OBVIOUS
  <2>1. /\ todo = <<>> /\ Tail(messages) \in Seq(Message) /\ messages' = Tail(messages)
        /\ l \in Known
    BY <1>2, Called DEF HandleDeregister
  <2>2. RemovedListener(listeners, l) \in Seq(Known)
    BY <1>0, ElementsAmong DEF RemovedListener
  <2>3. ReleasedGrabs(keygrabs, l) \in [Grab -> Int]
    BY <1>0, <2>1, GrabsType
  <2>4. /\ listeners' = RemovedListener(listeners, l) /\ keygrabs' = ReleasedGrabs(keygrabs, l)
        /\ UNCHANGED <<conn, mine, calls, inbox, todo>>
    BY <1>2 DEF HandleDeregister, clientVars
  <2> QED BY <2>1, <2>2, <2>3, <2>4, ListenersKeep
<1>3. CASE HandleNotify
  <2>1. /\ todo' = Clones(messages[1].stroke, FALSE)
        /\ messages' = Tail(messages) /\ Tail(messages) \in Seq(Message)
        /\ UNCHANGED <<conn, mine, calls, inbox, listeners, keygrabs>>
    BY <1>3, Called DEF HandleNotify, clientVars, listenerVars
  <2> QED BY <2>1, ShowingKeeps
<1> QED BY <1>1, <1>2, <1>3

LEMMA GrabbedKeyKeeps ==
  ASSUME Shown, NEW k, GrabbedKey(k)
  PROVE  Shown'
<1>1. /\ todo' = Clones(k, TRUE) /\ messages' = messages /\ messages \in Seq(Message)
      /\ UNCHANGED <<conn, mine, calls, inbox, listeners, keygrabs>>
  BY DEF GrabbedKey, clientVars, listenerVars, Shown, KeyTypes
<1> QED BY <1>1, ShowingKeeps

\* The loop goes on with the clones after the first, stays, or ends.
LEMMA RestKeeps ==
  ASSUME Shown, todo # <<>>, todo' \in {todo, Tail(todo), <<>>},
         UNCHANGED <<conn, mine, calls, inbox, messages, listeners, keygrabs>>
  PROVE  Shown'
<1> PICK rest : rest = todo'
  OBVIOUS
<1> PICK q : q = todo
  OBVIOUS
<1>1. /\ q \in Seq(Known) /\ messages \in Seq(Message)
      /\ \A i \in 1..Len(q) :
           (\E j \in 1..Len(listeners) : q[i] = listeners[j]) \/ q[i].client \notin conn
  BY DEF Shown, KeyTypes, ShownAreListeners
<1>2. /\ rest \in Seq(Known)
      /\ \A i \in 1..Len(rest) : \E j \in 1..Len(q) : rest[i] = q[j]
  <2>1. CASE rest = q
    BY <1>1, <2>1
  <2>2. CASE rest = <<>>
    BY <2>2
  <2>3. CASE rest = Tail(q)
    <3>1. /\ Tail(q) \in Seq(Known) /\ Len(Tail(q)) = Len(q) - 1
          /\ \A i \in 1..(Len(q) - 1) : i + 1 \in 1..Len(q) /\ Tail(q)[i] = q[i + 1]
      BY <1>1, OneLess
    <3> QED BY ONLY <2>3, <3>1
  <2> QED BY <2>1, <2>2, <2>3
<1>3. \A i \in 1..Len(rest) :
        (\E j \in 1..Len(listeners) : rest[i] = listeners[j]) \/ rest[i].client \notin conn
  BY ONLY <1>1, <1>2
<1> QED BY <1>1, <1>2, <1>3, LoopKeeps

\* Somebody is waited for only while a key event is shown.
WaitsWhileShown == asked # None => todo # <<>>

LEMMA WaitsKept ==
  ASSUME WaitsWhileShown, ControllerNext
  PROVE  WaitsWhileShown'
<1>1. CASE UNCHANGED <<todo, asked>>
  BY <1>1 DEF WaitsWhileShown
<1>2. CASE asked' = asked /\ asked = None
  BY <1>2 DEF WaitsWhileShown
<1>3. CASE asked' = None
  BY <1>3 DEF WaitsWhileShown
<1>4. CASE Ask
  <2>1. asked' = None \/ (todo # <<>> /\ todo' = todo)
    BY <1>4 DEF Ask, Continue
  <2> QED BY <2>1 DEF WaitsWhileShown
<1>5. CASE HandleRegister \/ HandleDeregister \/ HandleNotify
  <2>1. asked' = asked /\ asked = None
    BY <1>5 DEF HandleRegister, HandleDeregister, HandleNotify, HandleCall, MayHandle, Idle,
                Waiting
  <2> QED BY <1>2, <2>1
<1>6. CASE DispatchCall \/ DispatchGone
  <2>1. UNCHANGED <<todo, asked>>
    BY <1>6 DEF DispatchCall, DispatchGone
  <2> QED BY <1>1, <2>1
<1>7. CASE \E b \in BOOLEAN : Answer(b)
  BY <1>3, <1>7 DEF Answer, Continue
<1>8. CASE ErrorAnswer \/ Timeout \/ AnswerTooLate
  BY <1>3, <1>8 DEF ErrorAnswer, Timeout, AnswerTooLate, Continue
<1>9. CASE \E r \in Registration : CallRegister(r) \/ CallDeregister(r)
  <2>1. UNCHANGED <<todo, asked>>
    BY <1>9 DEF CallRegister, CallDeregister
  <2> QED BY <1>1, <2>1
<1>10. CASE \E k \in Pressed : CallNotify(k) \/ GrabbedKey(k)
  <2>1. UNCHANGED <<todo, asked>> \/ (asked' = asked /\ asked = None)
    BY <1>10 DEF CallNotify, GrabbedKey, Idle, Waiting
  <2> QED BY <1>1, <1>2, <2>1
<1>11. CASE \E d \in Client : Disconnect(d) \/ LateAnswer(d) \/ OpenCallFails(d)
  <2>1. UNCHANGED <<todo, asked>>
    BY <1>11 DEF Disconnect, LateAnswer, OpenCallFails, Complete
  <2> QED BY <1>1, <2>1
<1> QED BY <1>4, <1>5, <1>6, <1>7, <1>8, <1>9, <1>10, <1>11 DEF ControllerNext, RegistryStep

LEMMA ClientsKeep ==
  ASSUME Shown,
         \/ \E r \in Registration : CallRegister(r) \/ CallDeregister(r)
         \/ \E k \in Pressed : CallNotify(k)
         \/ \E d \in Client : Disconnect(d)
  PROVE  Shown'
<1>0. KeyTypes
  BY DEF Shown
<1>1. ASSUME NEW r \in Registration, CallRegister(r) PROVE Shown'
  <2> PICK m : m = [type |-> "register", listener |-> r]
    OBVIOUS
  <2>1. /\ calls' \in [Client -> Nat] /\ calls'[r.client] > 0 /\ Known \subseteq Known'
        /\ \A s \in Seq(Known) : s \in Seq(Known')
        /\ \A s \in Seq(Message) : s \in Seq(Message')
    BY <1>0, <1>1, CallsGrow DEF CallRegister
  <2>2. r \in Known'
    BY <2>1 DEF Known
  <2>3. m \in Message' /\ m.type # "gone"
    BY <2>2 DEF Message
  <2>4. /\ Send(m) /\ conn' \subseteq conn /\ mine' \subseteq Known'
        /\ UNCHANGED <<messages, listeners, keygrabs, todo>>
    BY <1>0, <1>1, <2>1, <2>2 DEF CallRegister, listenerVars, KeyTypes
  <2> QED BY <2>1, <2>3, <2>4, SendKeeps
<1>2. ASSUME NEW r \in Registration, CallDeregister(r) PROVE Shown'
  <2> PICK m : m = [type |-> "deregister", listener |-> r]
    OBVIOUS
  <2>1. /\ calls' \in [Client -> Nat] /\ calls'[r.client] > 0 /\ Known \subseteq Known'
        /\ \A s \in Seq(Known) : s \in Seq(Known')
        /\ \A s \in Seq(Message) : s \in Seq(Message')
    BY <1>0, <1>2, CallsGrow DEF CallDeregister
  <2>2. r \in Known'
    BY <2>1 DEF Known
  <2>3. m \in Message' /\ m.type # "gone"
    BY <2>2 DEF Message
  <2>4. /\ Send(m) /\ conn' \subseteq conn /\ mine' \subseteq Known'
        /\ UNCHANGED <<messages, listeners, keygrabs, todo>>
    BY <1>0, <1>2, <2>1 DEF CallDeregister, listenerVars, KeyTypes
  <2> QED BY <2>1, <2>3, <2>4, SendKeeps
<1>3. ASSUME NEW k \in Pressed, CallNotify(k) PROVE Shown'
  <2> PICK m : m = [type |-> "notify", stroke |-> k]
    OBVIOUS
  <2>1. Known' = Known /\ Message' = Message
    BY <1>3, SameCalls DEF CallNotify, clientVars
  <2>2. m \in Message /\ m.type # "gone"
    BY DEF Message
  <2>3. /\ Send(m) /\ conn' \subseteq conn /\ mine' \subseteq Known
        /\ UNCHANGED <<messages, listeners, keygrabs, todo>> /\ calls' \in [Client -> Nat]
    BY <1>0, <1>3 DEF CallNotify, clientVars, listenerVars, KeyTypes
  <2> QED BY <2>1, <2>2, <2>3, SendKeeps
<1>4. ASSUME NEW d \in Client, Disconnect(d) PROVE Shown'
  <2> PICK m : m = [type |-> "gone", client |-> d]
    OBVIOUS
  <2>1. Known' = Known /\ Message' = Message
    BY <1>4, SameCalls DEF Disconnect
  <2>2. m \in Message /\ m.client = d
    BY DEF Message
  <2>3. /\ Send(m) /\ conn' \subseteq conn /\ d \notin conn' /\ mine' \subseteq Known
        /\ UNCHANGED <<messages, listeners, keygrabs, todo>> /\ calls' \in [Client -> Nat]
    BY <1>0, <1>4 DEF Disconnect, listenerVars, KeyTypes
  <2> QED BY <2>1, <2>2, <2>3, SendKeeps
<1> QED BY <1>1, <1>2, <1>3, <1>4

LEMMA LoopStepsKeep ==
  ASSUME Shown, WaitsWhileShown,
         \/ \E b \in BOOLEAN : Answer(b)
         \/ ErrorAnswer \/ Timeout \/ AnswerTooLate \/ Ask
  PROVE  Shown'
<1>1. todo # <<>> /\ UNCHANGED <<conn, mine, calls, inbox, messages, listeners, keygrabs>>
  BY DEF Answer, ErrorAnswer, Timeout, AnswerTooLate, Ask, Waiting, WaitsWhileShown,
         clientVars, listenerVars
<1>2. todo' \in {todo, Tail(todo), <<>>}
  <2>1. ASSUME NEW rest \in {Tail(todo), <<>>}, Continue(rest) PROVE todo' \in {todo, Tail(todo), <<>>}
    BY <2>1 DEF Continue, GoOn
  <2>2. todo' = todo \/ Continue(Tail(todo)) \/ Continue(<<>>)
    BY DEF Answer, ErrorAnswer, Timeout, AnswerTooLate, Ask
  <2> QED BY <2>1, <2>2
<1> QED BY <1>1, <1>2, RestKeeps

LEMMA NextKeepsShown ==
  ASSUME Shown, WaitsWhileShown, [ControllerNext]_controllerVars
  PROVE  Shown' /\ WaitsWhileShown'
<1>1. CASE UNCHANGED controllerVars
  <2>1. UNCHANGED <<conn, mine, calls, inbox, messages, listeners, keygrabs, todo, asked>>
    BY <1>1 DEF controllerVars
  <2>2. Known' = Known /\ Message' = Message
    BY <2>1, SameCalls
  <2> QED BY <2>1, <2>2 DEF Shown, KeyTypes, GoneAreGone, ShownAreListeners, WaitsWhileShown
<1>2. CASE ControllerNext
  <2>1. WaitsWhileShown'
    BY <1>2, WaitsKept
  <2>2. CASE \E d \in Client : LateAnswer(d) \/ OpenCallFails(d)
    <3>1. UNCHANGED <<conn, mine, calls, inbox, messages, listeners, keygrabs, todo>>
      BY <2>2 DEF LateAnswer, OpenCallFails, Complete, clientVars, listenerVars
    <3>2. Known' = Known /\ Message' = Message
      BY <3>1, SameCalls
    <3> QED BY <2>1, <3>1, <3>2 DEF Shown, KeyTypes, GoneAreGone, ShownAreListeners
  <2>3. CASE \E k \in Pressed : GrabbedKey(k)
    BY <2>1, <2>3, GrabbedKeyKeeps
  <2>4. CASE DispatchCall \/ DispatchGone
    BY <2>1, <2>4, DispatchCallKeeps, DispatchGoneKeeps
  <2>5. CASE HandleRegister \/ HandleDeregister \/ HandleNotify
    BY <2>1, <2>5, HandlersKeep
  <2>6. CASE (\E b \in BOOLEAN : Answer(b)) \/ ErrorAnswer \/ Timeout \/ AnswerTooLate \/ Ask
    BY <2>1, <2>6, LoopStepsKeep
  <2>7. CASE \/ \E r \in Registration : CallRegister(r) \/ CallDeregister(r)
             \/ \E k \in Pressed : CallNotify(k)
             \/ \E d \in Client : Disconnect(d)
    BY <2>1, <2>7, ClientsKeep
  <2> QED BY <1>2, <2>2, <2>3, <2>4, <2>5, <2>6, <2>7 DEF ControllerNext, RegistryStep
<1> QED BY <1>1, <1>2

LEMMA ShownAtFirst ==
  ASSUME ControllerInit
  PROVE  Shown /\ WaitsWhileShown
<1>1. /\ inbox = <<>> /\ messages = <<>> /\ listeners = <<>> /\ todo = <<>> /\ mine = {}
      /\ asked = None /\ calls \in [Client -> Nat] /\ conn \subseteq Client
      /\ keygrabs \in [Grab -> Int]
  BY RegistrationAssumption DEF ControllerInit
<1>2. KeyTypes
  BY <1>1 DEF KeyTypes
<1> QED BY <1>1, <1>2 DEF Shown, GoneAreGone, ShownAreListeners, WaitsWhileShown

\* While a key event is shown, calls wait, and departures take only the listeners of
\* a client that is gone: nobody else is asked for a listener that the registry has
\* forgotten (spi_controller_notify_keylisteners, send_and_allow_reentry,
\* message_queue_dispatch, handle_disconnection).
THEOREM OnlyRegisteredAreAsked == ControllerSpec => []AsksOnlyRegistered
PROOF
<1>1. ControllerInit => Shown /\ WaitsWhileShown
  BY ShownAtFirst
<1>2. Shown /\ WaitsWhileShown => AsksOnlyRegistered
  BY ShownFits DEF Shown
<1>3. Shown /\ WaitsWhileShown /\ [ControllerNext]_controllerVars => (Shown /\ WaitsWhileShown)'
  BY NextKeepsShown
<1> QED BY <1>1, <1>2, <1>3, PTL DEF ControllerSpec

-----------------------------------------------------------------------------
(* The order of calls *)

\* A call about a registration.
Tells(m, r) == m.type \in {"register", "deregister"} /\ m.listener = r
TellsOfOne(m) == m.type \in {"register", "deregister"} => m.listener \in Registration

\* The registrations that are listened to after the first n messages of s, if those of
\* B were before.
After(s, B, n) ==
  {r \in Registration :
     \/ \E j \in 1..n : /\ s[j].type = "register" /\ Tells(s[j], r)
                        /\ \A k \in (j + 1)..n : ~Tells(s[k], r)
     \/ r \in B /\ \A k \in 1..n : ~Tells(s[k], r)}
Step(m, B) ==
  IF m.type = "register" THEN B \cup {m.listener}
  ELSE IF m.type = "deregister" THEN B \ {m.listener} ELSE B

\* No registration is made twice, and those that are withdrawn are made.
Fits(m, B) ==
  /\ m.type = "register" => m.listener \notin B
  /\ m.type = "deregister" => m.listener \in B
Orderly(s, B) == \A n \in 1..Len(s) : Fits(s[n], After(s, B, n - 1))

LEMMA AfterNone ==
  ASSUME NEW B \in SUBSET Registration, NEW s
  PROVE  After(s, B, 0) = B
BY DEF After

\* Each message is one step.
LEMMA AfterNext ==
  ASSUME NEW s, NEW B, NEW n \in Nat, TellsOfOne(s[n + 1])
  PROVE  After(s, B, n + 1) = Step(s[n + 1], After(s, B, n))
<1> PICK x : x = s[n + 1]
  OBVIOUS
<1>1. \A j : j \in 1..(n + 1) <=> (j \in 1..n \/ j = n + 1)
  OBVIOUS
<1>2. \A j \in 1..n : \A k : k \in (j + 1)..(n + 1) <=> (k \in (j + 1)..n \/ k = n + 1)
  OBVIOUS
<1>3. \A k : k \notin ((n + 1) + 1)..(n + 1)
  OBVIOUS
<1>4. ASSUME NEW r \in Registration, Tells(x, r), x.type = "register"
      PROVE  r \in After(s, B, n + 1)
  BY ONLY <1>1, <1>3, <1>4, x = s[n + 1] DEF After
<1>5. ASSUME NEW r \in Registration, Tells(x, r), x.type = "deregister"
      PROVE  r \notin After(s, B, n + 1)
  BY ONLY <1>1, <1>2, <1>5, x = s[n + 1] DEF After
<1>6. ASSUME NEW r \in Registration, ~Tells(x, r)
      PROVE  r \in After(s, B, n + 1) <=> r \in After(s, B, n)
  BY ONLY <1>1, <1>2, <1>6, x = s[n + 1] DEF After, Tells
<1>7. After(s, B, n + 1) \subseteq Registration /\ After(s, B, n) \subseteq Registration
  BY DEF After
<1>8. CASE x.type = "register"
  <2>1. x.listener \in Registration
    BY <1>8 DEF TellsOfOne
  <2>2. \A r \in Registration : Tells(x, r) <=> r = x.listener
    BY <1>8 DEF Tells
  <2>3. After(s, B, n + 1) = After(s, B, n) \cup {x.listener}
    BY ONLY <1>4, <1>6, <1>7, <1>8, <2>1, <2>2
  <2> QED BY <1>8, <2>3 DEF Step
<1>9. CASE x.type = "deregister"
  <2>2. \A r \in Registration : Tells(x, r) <=> r = x.listener
    BY <1>9 DEF Tells
  <2>3. After(s, B, n + 1) = After(s, B, n) \ {x.listener}
    BY ONLY <1>5, <1>6, <1>7, <1>9, <2>2
  <2> QED BY <1>9, <2>3 DEF Step
<1>10. CASE x.type \notin {"register", "deregister"}
  <2>1. \A r : ~Tells(x, r)
    BY <1>10 DEF Tells
  <2>2. After(s, B, n + 1) = After(s, B, n)
    BY ONLY <1>6, <1>7, <2>1
  <2> QED BY <1>10, <2>2 DEF Step
<1> QED BY <1>8, <1>9, <1>10

\* Only the messages count.
LEMMA AfterSame ==
  ASSUME NEW s, NEW t, NEW B, NEW n \in Nat, \A i \in 1..n : s[i] = t[i]
  PROVE  After(s, B, n) = After(t, B, n)
<1>1. \A j \in 1..n : \A k \in (j + 1)..n : k \in 1..n
  OBVIOUS
<1> QED BY <1>1 DEF After

LEMMA StepType ==
  ASSUME NEW m, TellsOfOne(m), NEW B \in SUBSET Registration
  PROVE  Step(m, B) \in SUBSET Registration
BY DEF Step, TellsOfOne

\* A message that fits is sent.
LEMMA OrderlyMore ==
  ASSUME NEW M, NEW s \in Seq(M), NEW x \in M, TellsOfOne(x), NEW B,
         Orderly(s, B), Fits(x, After(s, B, Len(s)))
  PROVE  /\ Orderly(Append(s, x), B)
         /\ After(Append(s, x), B, Len(Append(s, x))) = Step(x, After(s, B, Len(s)))
<1> DEFINE N == Len(s)
<1> PICK t : t = Append(s, x)
  OBVIOUS
<1>1. /\ N \in Nat /\ Len(t) = N + 1 /\ t[N + 1] = x /\ \A i \in 1..N : t[i] = s[i]
      /\ \A i \in 1..(N + 1) : i \in 1..N \/ i = N + 1
  BY OneMore
<1>2. Orderly(s, B) /\ Fits(x, After(s, B, N)) /\ TellsOfOne(x)
  OBVIOUS
<1>3. \A n \in 1..N : Fits(s[n], After(s, B, n - 1))
  BY <1>2 DEF Orderly
<1> HIDE DEF N
<1>4. ASSUME NEW n \in 0..N PROVE After(t, B, n) = After(s, B, n)
  <2>1. n \in Nat /\ \A i \in 1..n : t[i] = s[i]
    BY <1>1
  <2> QED BY <2>1, AfterSame
<1>5. ASSUME NEW n \in 1..(N + 1) PROVE Fits(t[n], After(t, B, n - 1))
  <2>1. CASE n \in 1..N
    <3>1. n - 1 \in 0..N
      BY <1>1, <2>1
    <3> QED BY <1>1, <1>3, <1>4, <2>1, <3>1
  <2>2. CASE n = N + 1
    <3>1. n - 1 = N /\ N \in 0..N
      BY <1>1, <2>2
    <3> QED BY <1>1, <1>2, <1>4, <2>2, <3>1
  <2> QED BY <1>1, <2>1, <2>2
<1>6. Orderly(t, B)
  BY <1>1, <1>5 DEF Orderly
<1>7. After(t, B, N + 1) = Step(x, After(s, B, N))
  <2>1. After(t, B, N + 1) = Step(t[N + 1], After(t, B, N))
    BY <1>1, <1>2, AfterNext
  <2>2. N \in 0..N
    BY <1>1
  <2> QED BY <1>1, <1>4, <2>1, <2>2
<1> QED BY <1>1, <1>6, <1>7 DEF N

\* The first message is handled.
LEMMA OrderlyLess ==
  ASSUME NEW M, \A m \in M : TellsOfOne(m), NEW s \in Seq(M), s # <<>>,
         NEW B \in SUBSET Registration, Orderly(s, B)
  PROVE  /\ Fits(s[1], B) /\ Orderly(Tail(s), Step(s[1], B))
         /\ After(Tail(s), Step(s[1], B), Len(Tail(s))) = After(s, B, Len(s))
<1> DEFINE N == Len(s)
<1> PICK t : t = Tail(s)
  OBVIOUS
<1> PICK C : C = Step(s[1], B)
  OBVIOUS
<1>1. /\ t \in Seq(M) /\ N \in Nat /\ N >= 1 /\ s[1] \in M /\ Len(t) = N - 1
      /\ \A i \in 1..(N - 1) : i + 1 \in 1..N /\ t[i] = s[i + 1]
  BY OneLess
<1>2. \A n \in 1..N : Fits(s[n], After(s, B, n - 1))
  BY DEF Orderly
<1>3. \A n \in 1..N : TellsOfOne(s[n])
  OBVIOUS
<1>4. C \in SUBSET Registration
  BY <1>1, StepType
<1> HIDE DEF N
<1>5. After(s, B, 0) = B
  BY AfterNone
<1>6. 1 \in 1..N /\ 1 - 1 = 0 /\ 0 + 1 = 1
  BY <1>1
<1>7. Fits(s[1], B)
  BY <1>2, <1>5, <1>6
<1>8. After(s, B, 1) = C
  <2>1. After(s, B, 0 + 1) = Step(s[0 + 1], After(s, B, 0))
    BY <1>3, <1>6, AfterNext
  <2> QED BY <1>5, <1>6, <2>1
<1> DEFINE P == {n \in 0..(N - 1) : After(t, C, n) = After(s, B, n + 1)}
<1>9. 0 \in P
  <2>1. After(t, C, 0) = C
    BY <1>4, AfterNone
  <2> QED BY <1>1, <1>6, <1>8, <2>1
<1>10. ASSUME NEW n \in 1..(N - 1), n - 1 \in P PROVE n \in P
  <2>1. After(t, C, n - 1) = After(s, B, n)
    <3>1. (n - 1) + 1 = n
      OBVIOUS
    <3> QED BY <1>10, <3>1
  <2>2. n + 1 \in 1..N /\ t[n] = s[n + 1] /\ n \in Nat /\ n - 1 \in Nat /\ (n - 1) + 1 = n
    BY <1>1
  <2>3. After(s, B, n + 1) = Step(s[n + 1], After(s, B, n))
    BY <1>3, <2>2, AfterNext
  <2>4. After(t, C, n) = Step(t[n], After(t, C, n - 1))
    <3>1. TellsOfOne(t[(n - 1) + 1])
      BY <1>3, <2>2
    <3>2. After(t, C, (n - 1) + 1) = Step(t[(n - 1) + 1], After(t, C, n - 1))
      BY <2>2, <3>1, AfterNext
    <3> QED BY <2>2, <3>2
  <2>5. n \in 0..(N - 1)
    OBVIOUS
  <2> QED BY <2>1, <2>2, <2>3, <2>4, <2>5
<1>11. \A n \in 0..(N - 1) : After(t, C, n) = After(s, B, n + 1)
  <2>1. N - 1 \in Nat
    BY <1>1
  <2> HIDE DEF P
  <2>2. 0..(N - 1) \subseteq P
    BY <1>9, <1>10, <2>1, UpTo
  <2> QED BY <2>2 DEF P
<1>12. After(t, C, N - 1) = After(s, B, N)
  <2>1. N - 1 \in 0..(N - 1) /\ (N - 1) + 1 = N
    BY <1>1
  <2> QED BY <1>11, <2>1
<1>13. ASSUME NEW n \in 1..(N - 1) PROVE Fits(t[n], After(t, C, n - 1))
  <2>1. n - 1 \in 0..(N - 1) /\ (n - 1) + 1 = n /\ n + 1 \in 1..N /\ (n + 1) - 1 = n
        /\ t[n] = s[n + 1]
    BY <1>1
  <2>2. After(t, C, n - 1) = After(s, B, n)
    BY <1>11, <2>1
  <2>3. Fits(s[n + 1], After(s, B, n))
    BY <1>2, <2>1
  <2> QED BY <2>1, <2>2, <2>3
<1>14. Orderly(t, C)
  BY <1>1, <1>13 DEF Orderly
<1> QED BY <1>1, <1>7, <1>12, <1>14 DEF N

-----------------------------------------------------------------------------
(* How often a grab is wanted *)

\* What a listener contributes.
Share(l, g) == IF l.global THEN Wants(l, g) ELSE 0

\* The values that TimesWanted takes its last one from.
IsSumming(f, ls, g, N) ==
  f = [n \in 0..N |-> IF n = 0 THEN 0 ELSE f[n - 1] + Share(ls[n], g)]

LEMMA SummingExists ==
  ASSUME NEW ls, NEW h, NEW N \in Nat
  PROVE  \E f : IsSumming(f, ls, h, N)
<1> DEFINE P == {n \in 0..N : \E f : IsSumming(f, ls, h, n)}
<1>1. 0 \in P
  <2> DEFINE f == [n \in 0..0 |-> 0]
  <2>1. f = [n \in 0..0 |-> IF n = 0 THEN 0 ELSE f[n - 1] + Share(ls[n], h)]
    OBVIOUS
  <2> HIDE DEF f
  <2> QED BY <2>1 DEF IsSumming
<1>2. ASSUME NEW n \in 1..N, n - 1 \in P PROVE n \in P
  <2>1. PICK f : IsSumming(f, ls, h, n - 1)
    BY <1>2
  <2> DEFINE x == f[n - 1] + Share(ls[n], h)
             g == [k \in 0..n |-> IF k = n THEN x ELSE f[k]]
             next(k) == IF k = 0 THEN 0 ELSE g[k - 1] + Share(ls[k], h)
  <2>2. f = [k \in 0..(n - 1) |-> IF k = 0 THEN 0 ELSE f[k - 1] + Share(ls[k], h)]
    BY <2>1 DEF IsSumming
  <2>3. \A k \in 0..(n - 1) : f[k] = IF k = 0 THEN 0 ELSE f[k - 1] + Share(ls[k], h)
    BY <2>2
  <2>4. g[n] = x /\ \A k \in 0..(n - 1) : g[k] = f[k]
    OBVIOUS
  <2>5. g = [k \in 0..n |-> g[k]]
    OBVIOUS
  <2> HIDE DEF g
  <2>6. ASSUME NEW k \in 0..n PROVE g[k] = next(k)
    <3>1. CASE k = n
      <4>1. k - 1 \in 0..(n - 1) /\ k # 0
        BY <3>1
      <4> QED BY <2>4, <3>1, <4>1
    <3>2. CASE k # n
      <4>1. k \in 0..(n - 1) /\ (k # 0 => k - 1 \in 0..(n - 1))
        BY <3>2
      <4> QED BY <2>3, <2>4, <4>1
    <3> QED BY <3>1, <3>2
  <2>7. g = [k \in 0..n |-> next(k)]
    <3> HIDE DEF next
    <3> QED BY <2>5, <2>6
  <2>8. IsSumming(g, ls, h, n)
    BY <2>7 DEF IsSumming
  <2> QED BY <2>8
<1>3. N \in P
  <2> HIDE DEF P
  <2>1. 0..N \subseteq P
    BY <1>1, <1>2, UpTo
  <2> QED BY <2>1
<1> QED BY <1>3

\* TimesWanted goes through the list.
LEMMA Summing ==
  ASSUME NEW ls, NEW g, Len(ls) \in Nat
  PROVE  \E f : /\ f[0] = 0
                /\ \A n \in 1..Len(ls) : f[n] = f[n - 1] + Share(ls[n], g)
                /\ TimesWanted(ls, g) = f[Len(ls)]
<1> DEFINE N == Len(ls)
           c == CHOOSE f : f = [n \in 0..N |-> IF n = 0 THEN 0
                                 ELSE f[n - 1] + (IF ls[n].global THEN Wants(ls[n], g) ELSE 0)]
<1>1. \E f : IsSumming(f, ls, g, N)
  BY SummingExists
<1>2. c = [n \in 0..N |-> IF n = 0 THEN 0
                          ELSE c[n - 1] + (IF ls[n].global THEN Wants(ls[n], g) ELSE 0)]
  BY <1>1 DEF IsSumming, Share
<1>3. TimesWanted(ls, g) = c[N]
  BY DEF TimesWanted
<1> HIDE DEF c
<1>4. c[0] = 0
  BY <1>2
<1>5. ASSUME NEW n \in 1..N
      PROVE  c[n] = c[n - 1] + Share(ls[n], g)
  <2>1. n \in 0..N /\ n # 0
    OBVIOUS
  <2> QED BY ONLY <1>2, <2>1 DEF Share
<1> QED BY <1>3, <1>4, <1>5

LEMMA ShareType ==
  ASSUME NEW l \in Registration, NEW g
  PROVE  Share(l, g) \in Nat
BY WantsType DEF Share

LEMMA TimesWantedType ==
  ASSUME NEW ls \in Seq(Registration), NEW g
  PROVE  TimesWanted(ls, g) \in Nat
<1> DEFINE N == Len(ls)
<1>1. N \in Nat /\ \A n \in 1..N : Share(ls[n], g) \in Nat
  BY ShareType
<1>2. PICK f : /\ f[0] = 0 /\ \A n \in 1..N : f[n] = f[n - 1] + Share(ls[n], g)
               /\ TimesWanted(ls, g) = f[N]
  BY <1>1, Summing
<1> HIDE DEF N
<1> DEFINE P == {n \in 0..N : f[n] \in Nat}
<1>3. 0 \in P
  BY <1>1, <1>2
<1>4. ASSUME NEW n \in 1..N, n - 1 \in P PROVE n \in P
  <2>1. f[n - 1] \in Nat /\ f[n] = f[n - 1] + Share(ls[n], g) /\ Share(ls[n], g) \in Nat
    BY <1>1, <1>2, <1>4
  <2> QED BY <2>1
<1>5. N \in P
  <2> HIDE DEF P
  <2>1. 0..N \subseteq P
    BY <1>1, <1>3, <1>4, UpTo
  <2> QED BY <1>1, <2>1
<1> QED BY <1>2, <1>5

\* A list t that is s but for the element at p.
Lacks(s, t, p) ==
  /\ p \in 1..Len(s) /\ Len(t) = Len(s) - 1
  /\ \A k \in 1..Len(t) : t[k] = s[Skip(p, k)]

LEMMA OneShare ==
  ASSUME NEW s \in Seq(Registration), NEW t \in Seq(Registration), NEW p, Lacks(s, t, p), NEW g
  PROVE  TimesWanted(s, g) = TimesWanted(t, g) + Share(s[p], g)
<1> DEFINE N == Len(s)
           K == Len(t)
<1>1. /\ N \in Nat /\ p \in 1..N /\ p \in Nat /\ K = N - 1 /\ K \in Nat
      /\ \A n \in 1..N : Share(s[n], g) \in Nat
      /\ \A n \in 1..K : Share(t[n], g) = Share(s[Skip(p, n)], g)
  BY ShareType, SMTT(40) DEF Lacks
<1>2. PICK f : /\ f[0] = 0 /\ \A n \in 1..N : f[n] = f[n - 1] + Share(s[n], g)
               /\ TimesWanted(s, g) = f[N]
  BY <1>1, Summing
<1>3. PICK h : /\ h[0] = 0 /\ \A n \in 1..K : h[n] = h[n - 1] + Share(t[n], g)
               /\ TimesWanted(t, g) = h[K]
  BY <1>1, Summing
<1> HIDE DEF N, K
<1> DEFINE Q(n) == /\ f[n] \in Nat
                   /\ n < p => h[n] = f[n]
                   /\ n >= p => h[n - 1] + Share(s[p], g) = f[n] /\ h[n - 1] \in Nat
           P == {n \in 0..N : Q(n)}
<1>4. 0 \in P
  BY <1>1, <1>2, <1>3
<1>5. ASSUME NEW n \in 1..N, n - 1 \in P PROVE n \in P
  <2>1. Q(n - 1) /\ n \in Nat /\ n <= N /\ n >= 1
    BY <1>1, <1>5
  <2>2. f[n] = f[n - 1] + Share(s[n], g) /\ f[n] \in Nat
    <3>1. n \in 1..N
      OBVIOUS
    <3>2. f[n] = f[n - 1] + Share(s[n], g)
      BY ONLY <1>2, <3>1
    <3>3. Share(s[n], g) \in Nat
      BY ONLY <1>1, <3>1
    <3>4. f[n - 1] \in Nat
      BY ONLY <2>1
    <3> QED BY ONLY <3>2, <3>3, <3>4
  <2>3. CASE n < p
    <3>1. n \in 1..K /\ Skip(p, n) = n
      BY <1>1, <2>1, <2>3 DEF Skip
    <3>2. h[n] = h[n - 1] + Share(t[n], g) /\ Share(t[n], g) = Share(s[n], g)
      BY ONLY <1>1, <1>3, <3>1
    <3>3. h[n - 1] = f[n - 1]
      BY ONLY <1>1, <2>1, <2>3
    <3>4. h[n] = f[n]
      BY ONLY <2>2, <3>2, <3>3
    <3>5. Q(n)
      BY ONLY <1>1, <2>1, <2>2, <2>3, <3>4
    <3> QED BY ONLY <3>5, <1>1, <2>1
  <2>4. CASE n = p
    <3>1. h[n - 1] = f[n - 1] /\ f[n - 1] \in Nat
      BY <1>1, <2>1, <2>4
    <3>2. Q(n)
      BY <1>1, <2>1, <2>2, <2>4, <3>1
    <3> QED BY <3>2
  <2>5. CASE n > p
    <3>0. /\ n \in Nat /\ p \in Nat /\ K \in Nat /\ N \in Nat /\ K = N - 1 /\ p >= 1
          /\ n <= N /\ n > p
      BY <1>1, <2>1, <2>5
    <3>1. n - 1 \in 1..K /\ Skip(p, n - 1) = n /\ n - 1 >= p
      BY ONLY <3>0 DEF Skip
    <3>2. h[n - 1] = h[(n - 1) - 1] + Share(s[n], g)
      BY <1>1, <1>3, <3>1
    <3>3. h[(n - 1) - 1] + Share(s[p], g) = f[n - 1] /\ h[(n - 1) - 1] \in Nat
      BY <2>1, <3>1
    <3>4. Share(s[n], g) \in Nat /\ Share(s[p], g) \in Nat
      BY <1>1
    <3>5. h[n - 1] + Share(s[p], g) = f[n] /\ h[n - 1] \in Nat
      BY <2>2, <3>2, <3>3, <3>4
    <3>6. Q(n)
      BY <1>1, <2>2, <2>5, <3>5
    <3> QED BY <3>6
  <2> QED BY <1>1, <2>3, <2>4, <2>5
<1>6. N \in P
  <2> HIDE DEF P
  <2>1. 0..N \subseteq P
    BY <1>1, <1>4, <1>5, UpTo
  <2> QED BY <1>1, <2>1
<1>7. h[N - 1] + Share(s[p], g) = f[N]
  BY <1>1, <1>6
<1> QED BY <1>1, <1>2, <1>3, <1>7 DEF K

-----------------------------------------------------------------------------
(* Grabs and listeners *)

Distinct(ls) == \A i, j \in 1..Len(ls) : ls[i] = ls[j] => i = j
Elems(ls) == {ls[i] : i \in 1..Len(ls)}

\* Each listener is in the list once, and the calls that are on their way are
\* about those that are listened to when they come.
InOrder(ls, msgs, box, ms) ==
  LET handled == After(msgs, Elems(ls), Len(msgs))
  IN /\ Distinct(ls) /\ Orderly(msgs, Elems(ls)) /\ Orderly(box, handled)
     /\ ms = After(box, handled, Len(box))

\* A grab that X grants is counted as often as listeners want it, and one that X
\* refuses is not counted.
Counted(gs, ls) ==
  \A g \in Grab : gs[g] = IF g \in Refused THEN 0 ELSE TimesWanted(ls, g)

\* A call is sent.
LEMMA Sent ==
  ASSUME NEW M, NEW ls, NEW msgs, NEW box \in Seq(M), NEW ms, InOrder(ls, msgs, box, ms),
         NEW x \in M, TellsOfOne(x), Fits(x, ms)
  PROVE  InOrder(ls, msgs, Append(box, x), Step(x, ms))
<1> PICK B : B = After(msgs, Elems(ls), Len(msgs))
  OBVIOUS
<1>1. Orderly(box, B) /\ ms = After(box, B, Len(box)) /\ Distinct(ls) /\ Orderly(msgs, Elems(ls))
  BY DEF InOrder
<1>2. /\ Orderly(Append(box, x), B)
      /\ After(Append(box, x), B, Len(Append(box, x))) = Step(x, ms)
  BY <1>1, OrderlyMore
<1> QED BY <1>1, <1>2 DEF InOrder

\* A message is passed on to the queue, or is not about a listener.
LEMMA Passed ==
  ASSUME NEW M, \A m \in M : TellsOfOne(m), NEW ls \in Seq(Registration),
         NEW msgs \in Seq(M), NEW box \in Seq(M), box # <<>>,
         NEW ms, InOrder(ls, msgs, box, ms)
  PROVE  /\ InOrder(ls, Append(msgs, box[1]), Tail(box), ms)
         /\ box[1].type \notin {"register", "deregister"} => InOrder(ls, msgs, Tail(box), ms)
<1> PICK B : B = After(msgs, Elems(ls), Len(msgs))
  OBVIOUS
<1> PICK x : x = box[1]
  OBVIOUS
<1> PICK C : C = Step(x, B)
  OBVIOUS
<1>1. /\ Orderly(box, B) /\ ms = After(box, B, Len(box)) /\ Distinct(ls)
      /\ Orderly(msgs, Elems(ls))
  BY DEF InOrder
<1>2. B \in SUBSET Registration /\ x \in M
  BY OneLess DEF After
<1>3. Fits(x, B) /\ Orderly(Tail(box), C) /\ After(Tail(box), C, Len(Tail(box))) = ms
  BY <1>1, <1>2, OrderlyLess
<1>4. /\ Orderly(Append(msgs, x), Elems(ls))
      /\ After(Append(msgs, x), Elems(ls), Len(Append(msgs, x))) = C
  BY <1>1, <1>2, <1>3, OrderlyMore
<1>5. InOrder(ls, Append(msgs, x), Tail(box), ms)
  BY <1>1, <1>3, <1>4 DEF InOrder
<1>6. x.type \notin {"register", "deregister"} => C = B
  BY DEF Step
<1>7. x.type \notin {"register", "deregister"} => InOrder(ls, msgs, Tail(box), ms)
  BY <1>1, <1>3, <1>6 DEF InOrder
<1> QED BY <1>5, <1>7

\* A call is handled.
LEMMA CallHandled ==
  ASSUME NEW M, \A m \in M : TellsOfOne(m), NEW ls \in Seq(Registration), NEW l2,
         NEW msgs \in Seq(M), msgs # <<>>, NEW box, NEW ms, InOrder(ls, msgs, box, ms),
         Distinct(l2), Elems(l2) = Step(msgs[1], Elems(ls))
  PROVE  InOrder(l2, Tail(msgs), box, ms)
<1>1. Elems(ls) \in SUBSET Registration
  <2>1. \A i \in 1..Len(ls) : ls[i] \in Registration
    OBVIOUS
  <2> QED BY <2>1 DEF Elems
<1>2. /\ Orderly(Tail(msgs), Elems(l2))
      /\ After(Tail(msgs), Elems(l2), Len(Tail(msgs))) = After(msgs, Elems(ls), Len(msgs))
  BY <1>1, OrderlyLess DEF InOrder
<1> QED BY <1>2 DEF InOrder

\* The call that is first is about a listener that is there, or is not.
LEMMA FirstFits ==
  ASSUME NEW M, \A m \in M : TellsOfOne(m), NEW ls \in Seq(Registration),
         NEW msgs \in Seq(M), msgs # <<>>, NEW box, NEW ms, InOrder(ls, msgs, box, ms)
  PROVE  Fits(msgs[1], Elems(ls))
<1>1. Elems(ls) \in SUBSET Registration
  <2>1. \A i \in 1..Len(ls) : ls[i] \in Registration
    OBVIOUS
  <2> QED BY <2>1 DEF Elems
<1> QED BY <1>1, OrderlyLess DEF InOrder

\* A listener is added.
LEMMA AddedListener ==
  ASSUME NEW ls \in Seq(Registration), Distinct(ls), NEW l \in Registration,
         l \notin Elems(ls)
  PROVE  /\ Distinct(<<l>> \o ls) /\ Elems(<<l>> \o ls) = Elems(ls) \cup {l}
         /\ Lacks(<<l>> \o ls, ls, 1) /\ <<l>> \o ls \in Seq(Registration)
         /\ (<<l>> \o ls)[1] = l
<1> PICK t : t = <<l>> \o ls
  OBVIOUS
<1>1. /\ t \in Seq(Registration) /\ Len(t) = Len(ls) + 1 /\ Len(ls) \in Nat /\ t[1] = l
      /\ \A i \in 1..Len(ls) : i + 1 \in 1..Len(t) /\ t[i + 1] = ls[i]
  BY OneBefore
<1>2. \A i \in 1..Len(t) : i = 1 \/ (i - 1 \in 1..Len(ls) /\ t[i] = ls[i - 1])
  <2> SUFFICES ASSUME NEW i \in 1..Len(t), i # 1
               PROVE  i - 1 \in 1..Len(ls) /\ t[i] = ls[i - 1]
    OBVIOUS
  <2>1. i - 1 \in 1..Len(ls) /\ (i - 1) + 1 = i
    BY <1>1
  <2> QED BY <1>1, <2>1
<1>3. \A i \in 1..Len(ls) : ls[i] # l
  BY DEF Elems
<1>4. ASSUME NEW i \in 1..Len(t), NEW j \in 1..Len(t), t[i] = t[j] PROVE i = j
  <2>1. CASE i = 1 \/ j = 1
    BY <1>1, <1>2, <1>3, <1>4, <2>1
  <2>2. CASE i # 1 /\ j # 1
    <3>1. i - 1 \in 1..Len(ls) /\ j - 1 \in 1..Len(ls) /\ ls[i - 1] = ls[j - 1]
      BY <1>2, <1>4, <2>2
    <3>2. i - 1 = j - 1
      BY <3>1 DEF Distinct
    <3> QED BY <1>1, <3>2
  <2> QED BY <2>1, <2>2
<1>5. Elems(t) = Elems(ls) \cup {l}
  <2>1. 1 \in 1..Len(t)
    BY <1>1
  <2>2. ASSUME NEW i \in 1..Len(t) PROVE t[i] \in Elems(ls) \cup {l}
    BY <1>1, <1>2 DEF Elems
  <2>3. ASSUME NEW i \in 1..Len(ls) PROVE \E j \in 1..Len(t) : t[j] = ls[i]
    BY <1>1
  <2>4. l \in Elems(t)
    BY <1>1, <2>1 DEF Elems
  <2>5. Elems(t) \subseteq Elems(ls) \cup {l}
    BY <2>2 DEF Elems
  <2>6. Elems(ls) \subseteq Elems(t)
    BY <2>3 DEF Elems
  <2> QED BY <2>4, <2>5, <2>6
<1>6. Lacks(t, ls, 1)
  <2>1. \A k \in 1..Len(ls) : Skip(1, k) = k + 1
    BY DEF Skip
  <2> QED BY <1>1, <2>1 DEF Lacks
<1> QED BY <1>1, <1>4, <1>5, <1>6 DEF Distinct

\* A listener is taken out of the list.
LEMMA RemovedOne ==
  ASSUME NEW ls \in Seq(Registration), Distinct(ls), NEW t \in Seq(Registration), NEW p,
         Lacks(ls, t, p)
  PROVE  Distinct(t) /\ Elems(t) = Elems(ls) \ {ls[p]}
<1> DEFINE N == Len(ls)
<1>1. /\ N \in Nat /\ p \in 1..N /\ Len(t) = N - 1
      /\ \A k \in 1..Len(t) : t[k] = ls[Skip(p, k)]
  BY DEF Lacks
<1> HIDE DEF N
<1>2. ASSUME NEW k \in 1..Len(t) PROVE Skip(p, k) \in 1..N /\ Skip(p, k) # p
  BY <1>1 DEF Skip
<1>3. ASSUME NEW i \in 1..N, i # p PROVE \E k \in 1..Len(t) : Skip(p, k) = i
  <2>1. CASE i < p
    <3>1. i \in 1..Len(t) /\ Skip(p, i) = i
      BY <1>1, <2>1 DEF Skip
    <3> QED BY <3>1
  <2>2. CASE i > p
    <3>0. p \in Nat /\ p >= 1 /\ N \in Nat /\ i \in Nat /\ i <= N /\ i > p
      BY <1>1, <2>2
    <3>1. i - 1 \in 1..(N - 1) /\ Skip(p, i - 1) = i
      BY ONLY <3>0 DEF Skip
    <3> QED BY <1>1, <3>1
  <2> QED BY <1>1, <1>3, <2>1, <2>2
<1>4. \A i, j \in 1..N : ls[i] = ls[j] => i = j
  BY DEF Distinct, N
<1>5. ASSUME NEW i \in 1..Len(t), NEW j \in 1..Len(t), t[i] = t[j] PROVE i = j
  <2>1. Skip(p, i) = Skip(p, j)
    BY <1>1, <1>2, <1>4, <1>5
  <2> QED BY <1>1, <2>1 DEF Skip
<1>6. ASSUME NEW k \in 1..Len(t) PROVE t[k] \in Elems(ls) \ {ls[p]}
  <2>1. t[k] = ls[Skip(p, k)] /\ Skip(p, k) \in 1..N /\ Skip(p, k) # p
    BY <1>1, <1>2
  <2> QED BY <1>1, <1>4, <2>1 DEF Elems, N
<1>7. ASSUME NEW i \in 1..N, ls[i] # ls[p] PROVE ls[i] \in Elems(t)
  <2>1. PICK k \in 1..Len(t) : Skip(p, k) = i
    BY <1>3, <1>7
  <2> QED BY <1>1, <2>1 DEF Elems
<1>8. Elems(t) = Elems(ls) \ {ls[p]}
  <2>1. Elems(t) \subseteq Elems(ls) \ {ls[p]}
    BY <1>6 DEF Elems
  <2>2. Elems(ls) \ {ls[p]} \subseteq Elems(t)
    BY <1>7 DEF Elems, N
  <2> QED BY <2>1, <2>2
<1> QED BY <1>5, <1>8 DEF Distinct

-----------------------------------------------------------------------------
\* The case that GrabsMatchRegistrations is about.
Simple == \A r \in Registration : calls[r.client] > 0 => r.global /\ r.client \notin Embedded

\* The registrations that were made and not taken back: none is an application's, the
\* calls on their way fit them, and they are counted.
CountInv ==
  /\ registered \in Seq(Registration)
  /\ \A i \in 1..Len(registered) : registered[i].client \notin Embedded
  /\ InOrder(registered, messages, inbox, mine) /\ Counted(keygrabs, registered)

LEMMA MessagesTell ==
  /\ Known \subseteq Registration
  /\ \A m \in Message : TellsOfOne(m)
BY DEF Known, Message, TellsOfOne

LEMMA SendsKeepCounts ==
  ASSUME Shown, CountInv,
         \/ \E r \in Registration : CallRegister(r) \/ CallDeregister(r)
         \/ \E k \in Pressed : CallNotify(k)
         \/ \E d \in Client : Disconnect(d)
  PROVE  CountInv'
<1>0. /\ KeyTypes /\ InOrder(registered, messages, inbox, mine) /\ inbox \in Seq(Message)
      /\ Counted(keygrabs, registered) /\ registered \in Seq(Registration)
      /\ \A i \in 1..Len(registered) : registered[i].client \notin Embedded
  BY DEF Shown, CountInv, KeyTypes
<1>1. ASSUME NEW m, Send(m), TellsOfOne(m), Fits(m, mine), mine' = Step(m, mine),
             UNCHANGED <<messages, registered, keygrabs>>
      PROVE  CountInv'
  <2> PICK M : M = Message \cup {m}
    OBVIOUS
  <2>1. inbox \in Seq(M) /\ m \in M
    BY <1>0, LargerSeq
  <2>2. InOrder(registered, messages, Append(inbox, m), Step(m, mine))
    BY <1>0, <1>1, <2>1, Sent
  <2>3. inbox' = Append(inbox, m)
    BY <1>1 DEF Send
  <2>4. InOrder(registered, messages, inbox, mine)'
    BY <1>1, <2>2, <2>3
  <2> QED BY <1>0, <1>1, <2>4 DEF CountInv
<1>2. ASSUME NEW r \in Registration, CallRegister(r) PROVE CountInv'
  <2> PICK m : m = [type |-> "register", listener |-> r]
    OBVIOUS
  <2>1. /\ Send(m) /\ r \notin mine /\ mine' = mine \cup {r}
        /\ UNCHANGED <<messages, registered, keygrabs>>
    BY <1>2 DEF CallRegister, listenerVars
  <2>2. TellsOfOne(m) /\ Fits(m, mine) /\ mine' = Step(m, mine)
    BY <2>1 DEF TellsOfOne, Fits, Step
  <2> QED BY <1>1, <2>1, <2>2
<1>3. ASSUME NEW r \in Registration, CallDeregister(r) PROVE CountInv'
  <2> PICK m : m = [type |-> "deregister", listener |-> r]
    OBVIOUS
  <2>1. /\ Send(m) /\ r \in mine /\ mine' = mine \ {r}
        /\ UNCHANGED <<messages, registered, keygrabs>>
    BY <1>3 DEF CallDeregister, listenerVars
  <2>2. TellsOfOne(m) /\ Fits(m, mine) /\ mine' = Step(m, mine)
    BY <2>1 DEF TellsOfOne, Fits, Step
  <2> QED BY <1>1, <2>1, <2>2
<1>4. ASSUME NEW k \in Pressed, CallNotify(k) PROVE CountInv'
  <2> PICK m : m = [type |-> "notify", stroke |-> k]
    OBVIOUS
  <2>1. Send(m) /\ UNCHANGED <<mine, messages, registered, keygrabs>>
    BY <1>4 DEF CallNotify, clientVars, listenerVars
  <2>2. TellsOfOne(m) /\ Fits(m, mine) /\ mine' = Step(m, mine)
    BY <2>1 DEF TellsOfOne, Fits, Step
  <2> QED BY <1>1, <2>1, <2>2
<1>5. ASSUME NEW d \in Client, Disconnect(d) PROVE CountInv'
  <2> PICK m : m = [type |-> "gone", client |-> d]
    OBVIOUS
  <2>1. Send(m) /\ UNCHANGED <<mine, messages, registered, keygrabs>>
    BY <1>5 DEF Disconnect, listenerVars
  <2>2. TellsOfOne(m) /\ Fits(m, mine) /\ mine' = Step(m, mine)
    BY <2>1 DEF TellsOfOne, Fits, Step
  <2> QED BY <1>1, <2>1, <2>2
<1> QED BY <1>2, <1>3, <1>4, <1>5

\* Nothing is removed for a client that is not in the list.
LEMMA NothingRemoved ==
  ASSUME NEW ls \in Seq(Registration), NEW d, \A i \in 1..Len(ls) : ls[i].client # d
  PROVE  AllRemoved(ls, d) = ls
<1> PICK I : I = {i \in DOMAIN ls : ls[i].client # d}
  OBVIOUS
<1> PICK p : p = Len(ls) + 1
  OBVIOUS
<1> PICK t : t = Elements(ls, I)
  OBVIOUS
<1>1. DOMAIN ls = 1..Len(ls) /\ Len(ls) \in Nat
  OBVIOUS
<1>2. p \in 1..(Len(ls) + 1) /\ \A i \in 1..Len(ls) : i \in I <=> i # p
  BY <1>1
<1>3. /\ t \in Seq(Registration)
      /\ Len(t) = IF p = Len(ls) + 1 THEN Len(ls) ELSE Len(ls) - 1
      /\ \A k \in 1..Len(t) : t[k] = ls[Skip(p, k)]
  BY ONLY <1>2, ElementsButOne, ls \in Seq(Registration), t = Elements(ls, I)
<1>4. Len(t) = Len(ls) /\ \A k \in 1..Len(t) : Skip(p, k) = k
  <2>1. Len(t) = Len(ls) /\ Len(ls) \in Nat /\ p = Len(ls) + 1
    BY <1>1, <1>3
  <2> QED BY ONLY <2>1 DEF Skip
<1>5. t = ls
  <2>1. \A k \in 1..Len(t) : t[k] = ls[k]
    BY ONLY <1>3, <1>4
  <2> QED BY ONLY <1>3, <1>4, <2>1, SameList, ls \in Seq(Registration)
<1> QED BY <1>5 DEF AllRemoved

LEMMA NothingReleased ==
  ASSUME KeyTypes, NEW d, \A i \in 1..Len(listeners) : listeners[i].client # d
  PROVE  AllReleased(d) = keygrabs
<1>1. Newest(d) = {}
  BY DEF KeyTypes, Newest
<1> QED BY <1>1, AllReleasedType

LEMMA DispatchesKeepCounts ==
  ASSUME Shown, Simple, CountInv, DispatchCall \/ DispatchGone
  PROVE  CountInv'
<1>0. /\ KeyTypes /\ InOrder(registered, messages, inbox, mine) /\ inbox \in Seq(Message)
      /\ Counted(keygrabs, registered) /\ messages \in Seq(Message)
      /\ listeners \in Seq(Known)
  BY DEF Shown, CountInv, KeyTypes
<1>1. registered \in Seq(Registration) /\ inbox # <<>>
  BY DEF CountInv, DispatchCall, DispatchGone
<1>2. /\ InOrder(registered, Append(messages, inbox[1]), Tail(inbox), mine)
      /\ inbox[1].type \notin {"register", "deregister"} =>
           InOrder(registered, messages, Tail(inbox), mine)
  BY <1>0, <1>1, MessagesTell, Passed
<1>3. CASE DispatchCall
  <2>1. /\ inbox' = Tail(inbox) /\ messages' = Append(messages, inbox[1])
        /\ UNCHANGED <<mine, registered, keygrabs>>
    BY <1>3 DEF DispatchCall, clientVars, listenerVars
  <2>2. InOrder(registered, messages, inbox, mine)'
    BY <1>2, <2>1
  <2> QED BY <1>0, <2>1, <2>2 DEF CountInv
<1>4. CASE DispatchGone
  <2>1. /\ inbox' = Tail(inbox) /\ UNCHANGED <<mine, messages>>
        /\ inbox[1].type \notin {"register", "deregister"}
    BY <1>4 DEF DispatchGone, clientVars
  <2>2. UNCHANGED <<registered, keygrabs>>
    <3>1. CASE inbox[1].client \in Embedded
      <4>1. \A i \in 1..Len(listeners) : listeners[i] \in Known
        BY <1>0
      <4>2. \A i \in 1..Len(listeners) : listeners[i].client # inbox[1].client
        BY <3>1, <4>1 DEF Simple, Known
      <4>3. \A i \in 1..Len(registered) : registered[i].client # inbox[1].client
        BY <3>1 DEF CountInv
      <4> QED BY <1>0, <1>1, <1>4, <3>1, <4>2, <4>3, NothingRemoved, NothingReleased
              DEF DispatchGone
    <3>2. CASE inbox[1].client \notin Embedded
      BY <1>4, <3>2 DEF DispatchGone, listenerVars
    <3> QED BY <3>1, <3>2
  <2>3. InOrder(registered, messages, inbox, mine)'
    BY <1>2, <2>1, <2>2
  <2> QED BY <1>0, <2>2, <2>3 DEF CountInv
<1> QED BY <1>3, <1>4

LEMMA RegisterKeepsCounts ==
  ASSUME Shown, Simple, CountInv, HandleRegister
  PROVE  CountInv'
<1> PICK l : l = messages[1].listener
  OBVIOUS
<1> PICK ls : ls = registered
  OBVIOUS
<1> PICK t : t = <<l>> \o ls
  OBVIOUS
<1>0. /\ KeyTypes /\ InOrder(ls, messages, inbox, mine) /\ Counted(keygrabs, ls)
      /\ messages \in Seq(Message) /\ keygrabs \in [Grab -> Int]
  BY DEF Shown, CountInv, KeyTypes
<1>1. /\ ls \in Seq(Registration) /\ Len(ls) \in Nat
      /\ \A i \in 1..Len(ls) : ls[i].client \notin Embedded
  BY DEF CountInv
<1>2. /\ messages # <<>> /\ messages' = Tail(messages) /\ messages[1].type = "register"
      /\ registered' = t /\ inbox' = inbox /\ mine' = mine
      /\ keygrabs' = IF l.global THEN AddedGrabs(keygrabs, l) ELSE keygrabs
  BY DEF HandleRegister, HandleCall, clientVars
<1>3. l \in Known /\ l \in Registration
  BY Called, MessagesTell DEF HandleRegister
<1>4. l.global /\ l.client \notin Embedded
  BY <1>3 DEF Simple, Known
<1>5. Fits(messages[1], Elems(ls))
  BY <1>0, <1>1, <1>2, MessagesTell, FirstFits
<1>6. l \notin Elems(ls)
  BY <1>2, <1>5 DEF Fits
<1>7. Distinct(ls)
  BY <1>0 DEF InOrder
<1>8. /\ Distinct(t) /\ Elems(t) = Elems(ls) \cup {l} /\ Lacks(t, ls, 1)
      /\ t \in Seq(Registration) /\ t[1] = l
  BY <1>1, <1>3, <1>6, <1>7, AddedListener
<1>9. Elems(t) = Step(messages[1], Elems(ls))
  BY <1>2, <1>8 DEF Step
<1>10. InOrder(t, Tail(messages), inbox, mine)
  BY <1>0, <1>1, <1>2, <1>8, <1>9, MessagesTell, CallHandled
<1>11. Counted(AddedGrabs(keygrabs, l), t)
  <2> SUFFICES ASSUME NEW g \in Grab
               PROVE  AddedGrabs(keygrabs, l)[g]
                        = IF g \in Refused THEN 0 ELSE TimesWanted(t, g)
    BY DEF Counted
  <2>1. AddedGrabs(keygrabs, l)[g] = IF g \in Refused THEN 0 ELSE keygrabs[g] + Wants(l, g)
    BY DEF AddedGrabs
  <2>2. TimesWanted(t, g) = TimesWanted(ls, g) + Share(l, g)
    BY ONLY <1>1, <1>8, OneShare
  <2>3. keygrabs[g] = IF g \in Refused THEN 0 ELSE TimesWanted(ls, g)
    BY <1>0 DEF Counted
  <2> QED BY <1>4, <2>1, <2>2, <2>3 DEF Share
<1>12. \A i \in 1..Len(t) : t[i].client \notin Embedded
  <2>1. Elems(t) = Elems(ls) \cup {l}
    BY <1>8
  <2>2. \A i \in 1..Len(t) : t[i] \in Elems(ls) \cup {l}
    BY <2>1 DEF Elems
  <2> QED BY ONLY <1>1, <1>4, <2>2 DEF Elems
<1> QED BY <1>2, <1>4, <1>8, <1>10, <1>11, <1>12 DEF CountInv

LEMMA DeregisterKeepsCounts ==
  ASSUME Shown, Simple, CountInv, HandleDeregister
  PROVE  CountInv'
<1> PICK l : l = messages[1].listener
  OBVIOUS
<1> PICK ls : ls = registered
  OBVIOUS
<1> PICK I : I = {i \in DOMAIN ls : ls[i] # l}
  OBVIOUS
<1> PICK t : t = Elements(ls, I)
  OBVIOUS
<1>0. /\ KeyTypes /\ InOrder(ls, messages, inbox, mine) /\ Counted(keygrabs, ls)
      /\ messages \in Seq(Message) /\ keygrabs \in [Grab -> Int]
  BY DEF Shown, CountInv, KeyTypes
<1>1. ls \in Seq(Registration) /\ \A i \in 1..Len(ls) : ls[i].client \notin Embedded
  BY DEF CountInv
<1>2. /\ messages # <<>> /\ messages' = Tail(messages) /\ messages[1].type = "deregister"
      /\ registered' = t /\ inbox' = inbox /\ mine' = mine
      /\ keygrabs' = ReleasedGrabs(keygrabs, l)
  BY DEF HandleDeregister, HandleCall, clientVars
<1>3. l \in Known /\ l \in Registration
  BY Called, MessagesTell DEF HandleDeregister
<1>4. l.global
  BY <1>3 DEF Simple, Known
<1>5. Fits(messages[1], Elems(ls))
  BY <1>0, <1>1, <1>2, MessagesTell, FirstFits
<1>6. l \in Elems(ls) /\ Distinct(ls)
  BY <1>0, <1>2, <1>5 DEF Fits, InOrder
<1>7. /\ Len(ls) \in Nat /\ DOMAIN ls = 1..Len(ls)
      /\ \A i \in 1..Len(ls) : ls[i] \in Registration
  BY <1>1
<1>8. PICK p \in 1..Len(ls) : ls[p] = l
  BY <1>6 DEF Elems
<1>9. ASSUME NEW i \in 1..Len(ls) PROVE i \in I <=> i # p
  <2>1. i \in I <=> ls[i] # l
    BY <1>7
  <2>2. ls[i] = l <=> i = p
    BY <1>6, <1>8 DEF Distinct
  <2> QED BY <2>1, <2>2
<1>10. t \in Seq(Registration) /\ Lacks(ls, t, p)
  <2>1. p \in 1..(Len(ls) + 1) /\ p # Len(ls) + 1
    BY <1>7
  <2>2. /\ Elements(ls, I) \in Seq(Registration)
        /\ Len(Elements(ls, I)) = IF p = Len(ls) + 1 THEN Len(ls) ELSE Len(ls) - 1
        /\ \A k \in 1..Len(Elements(ls, I)) : Elements(ls, I)[k] = ls[Skip(p, k)]
    BY ONLY <1>1, <1>9, <2>1, ElementsButOne
  <2>3. t = Elements(ls, I)
    OBVIOUS
  <2> QED BY ONLY <2>1, <2>2, <2>3 DEF Lacks
<1>11. Distinct(t) /\ Elems(t) = Elems(ls) \ {l}
  BY ONLY <1>1, <1>6, <1>8, <1>10, RemovedOne
<1>12. Elems(t) = Step(messages[1], Elems(ls))
  BY <1>2, <1>11 DEF Step
<1>13. InOrder(t, Tail(messages), inbox, mine)
  BY <1>0, <1>1, <1>2, <1>11, <1>12, MessagesTell, CallHandled
<1>14. Counted(ReleasedGrabs(keygrabs, l), t)
  <2> SUFFICES ASSUME NEW g \in Grab
               PROVE  ReleasedGrabs(keygrabs, l)[g]
                        = IF g \in Refused THEN 0 ELSE TimesWanted(t, g)
    BY DEF Counted
  <2>1. ReleasedGrabs(keygrabs, l)[g] =
          IF keygrabs[g] <= 0 THEN keygrabs[g] ELSE keygrabs[g] - Wants(l, g)
    BY DEF ReleasedGrabs
  <2>2. TimesWanted(ls, g) = TimesWanted(t, g) + Wants(l, g)
    BY <1>1, <1>4, <1>8, <1>10, OneShare DEF Share
  <2>3. keygrabs[g] = IF g \in Refused THEN 0 ELSE TimesWanted(ls, g)
    BY <1>0 DEF Counted
  <2>4. TimesWanted(t, g) \in Nat /\ Wants(l, g) \in Nat
    BY <1>3, <1>10, TimesWantedType, WantsType
  <2> QED BY <2>1, <2>2, <2>3, <2>4
<1>15. \A i \in 1..Len(t) : t[i].client \notin Embedded
  <2>1. \A i \in 1..Len(t) : t[i] \in Elems(ls)
    BY <1>11 DEF Elems
  <2> QED BY ONLY <1>1, <2>1 DEF Elems
<1> QED BY <1>2, <1>10, <1>13, <1>14, <1>15 DEF CountInv

LEMMA NotifyKeepsCounts ==
  ASSUME Shown, CountInv, HandleNotify
  PROVE  CountInv'
<1> PICK ls : ls = registered
  OBVIOUS
<1>0. /\ InOrder(ls, messages, inbox, mine) /\ messages \in Seq(Message)
      /\ ls \in Seq(Registration)
  BY DEF Shown, CountInv, KeyTypes
<1>1. /\ messages # <<>> /\ messages' = Tail(messages) /\ messages[1].type = "notify"
      /\ UNCHANGED <<registered, inbox, mine, keygrabs>>
  BY DEF HandleNotify, HandleCall, clientVars, listenerVars
<1>2. Distinct(ls) /\ Elems(ls) = Step(messages[1], Elems(ls))
  BY <1>0, <1>1 DEF InOrder, Step
<1>3. InOrder(ls, Tail(messages), inbox, mine)
  BY <1>0, <1>1, <1>2, MessagesTell, CallHandled
<1> QED BY <1>1, <1>3 DEF CountInv

\* Calls are counted, and not forgotten.
LEMMA SimpleBefore ==
  ASSUME KeyTypes, [ControllerNext]_controllerVars, Simple'
  PROVE  Simple
<1>1. calls' = calls \/ \E d : CountCall(d)
  BY DEF ControllerNext, RegistryStep, controllerVars, clientVars, CallRegister, CallDeregister,
         CallNotify, GrabbedKey, Disconnect, LateAnswer, OpenCallFails, Complete, Answer,
         ErrorAnswer, Timeout, AnswerTooLate, DispatchCall, DispatchGone, HandleRegister,
         HandleDeregister, HandleNotify, Ask
<1>2. calls \in [Client -> Nat] /\ \A r \in Registration : r.client \in Client
  BY RegistrationAssumption DEF KeyTypes
<1>3. \A d \in Client : calls[d] > 0 => calls'[d] > 0
  BY <1>1, <1>2 DEF CountCall
<1> QED BY <1>2, <1>3 DEF Simple

LEMMA NextKeepsCounts ==
  ASSUME Shown, Simple, CountInv, [ControllerNext]_controllerVars
  PROVE  CountInv'
<1>1. CASE UNCHANGED <<registered, messages, inbox, mine, keygrabs>>
  BY <1>1 DEF CountInv
<1>2. CASE UNCHANGED controllerVars
  BY <1>1, <1>2 DEF controllerVars
<1>3. CASE \/ \E d \in Client : LateAnswer(d) \/ OpenCallFails(d)
           \/ \E k \in Pressed : GrabbedKey(k)
           \/ \E b \in BOOLEAN : Answer(b)
           \/ ErrorAnswer \/ Timeout \/ AnswerTooLate \/ Ask
  <2>1. UNCHANGED <<registered, messages, inbox, mine, keygrabs>>
    BY <1>3 DEF LateAnswer, OpenCallFails, Complete, GrabbedKey, Answer, ErrorAnswer, Timeout,
                AnswerTooLate, Ask, clientVars, listenerVars
  <2> QED BY <1>1, <2>1
<1>4. CASE DispatchCall \/ DispatchGone
  BY <1>4, DispatchesKeepCounts
<1>5. CASE HandleRegister
  BY <1>5, RegisterKeepsCounts
<1>6. CASE HandleDeregister
  BY <1>6, DeregisterKeepsCounts
<1>7. CASE HandleNotify
  BY <1>7, NotifyKeepsCounts
<1>8. CASE \/ \E r \in Registration : CallRegister(r) \/ CallDeregister(r)
           \/ \E k \in Pressed : CallNotify(k)
           \/ \E d \in Client : Disconnect(d)
  BY <1>8, SendsKeepCounts
<1> QED BY <1>2, <1>3, <1>4, <1>5, <1>6, <1>7, <1>8 DEF ControllerNext, RegistryStep

LEMMA CountedAtFirst ==
  ASSUME ControllerInit
  PROVE  CountInv
<1>1. /\ inbox = <<>> /\ messages = <<>> /\ registered = <<>> /\ mine = {}
      /\ keygrabs = [g \in Grab |-> 0]
  BY DEF ControllerInit
<1>2. Len(<<>>) = 0 /\ registered \in Seq(Registration)
  BY <1>1
<1>3. Elems(registered) = {} /\ Distinct(registered)
  BY <1>1, <1>2 DEF Elems, Distinct
<1>4. After(messages, {}, Len(messages)) = {} /\ After(inbox, {}, Len(inbox)) = {}
  BY <1>1, <1>2, AfterNone
<1>5. Orderly(messages, {}) /\ Orderly(inbox, {})
  BY <1>1, <1>2 DEF Orderly
<1>6. InOrder(registered, messages, inbox, mine)
  BY <1>1, <1>3, <1>4, <1>5 DEF InOrder
<1>7. ASSUME NEW g PROVE TimesWanted(registered, g) = 0
  <2> PICK ls : ls = registered
    OBVIOUS
  <2>1. Len(ls) = 0 /\ Len(ls) \in Nat
    BY <1>1
  <2>2. PICK f : f[0] = 0 /\ TimesWanted(ls, g) = f[Len(ls)]
    BY ONLY <2>1, Summing
  <2> QED BY <2>1, <2>2
<1> QED BY <1>1, <1>6, <1>7 DEF CountInv, Counted

\* Whatever is wanted is a number.
LEMMA CountsAreNumbers ==
  ASSUME Shown, CountInv
  PROVE  AssertionHolds
<1>1. registered \in Seq(Registration)
  BY DEF CountInv
<1>2. \A g \in Grab : TimesWanted(registered, g) \in Nat
  BY <1>1, TimesWantedType
<1> QED BY <1>2 DEF AssertionHolds, CountInv, Counted

CountedInv == Shown /\ WaitsWhileShown /\ (Simple => CountInv)

LEMMA CountedStays == ControllerSpec => []CountedInv
<1>1. ControllerInit => CountedInv
  BY ShownAtFirst, CountedAtFirst DEF CountedInv
<1>2. CountedInv /\ [ControllerNext]_controllerVars => CountedInv'
  <2> SUFFICES ASSUME CountedInv, [ControllerNext]_controllerVars PROVE CountedInv'
    OBVIOUS
  <2>1. Shown' /\ WaitsWhileShown'
    BY NextKeepsShown DEF CountedInv
  <2>2. ASSUME Simple' PROVE CountInv'
    <3>1. Simple
      BY <2>2, SimpleBefore DEF Shown, CountedInv
    <3> QED BY <3>1, NextKeepsCounts DEF CountedInv
  <2> QED BY <2>1, <2>2 DEF CountedInv
<1> QED BY <1>1, <1>2, PTL DEF ControllerSpec

\* Calls are handled in the order they were made, so that what is withdrawn was
\* registered exactly once: the counts of key grabs are what the registrations want that
\* were not taken back, also several of one listener (register_global_keygrabs,
\* deregister_global_keygrabs, handle_keygrab).
THEOREM GrabsFollowRegistrations == ControllerSpec => []GrabsMatchRegistrations
PROOF
<1>1. CountedInv => GrabsMatchRegistrations
  BY DEF CountedInv, GrabsMatchRegistrations, Simple, CountInv, Counted
<1> QED BY <1>1, CountedStays, PTL

\* And the registry does not abort: a count is never released below zero
\* (the assertion in spi_controller_update_key_grabs).
THEOREM AssertionIsKept == ControllerSpec => [](Simple => AssertionHolds)
PROOF
<1>1. CountedInv => (Simple => AssertionHolds)
  BY CountsAreNumbers DEF CountedInv
<1> QED BY <1>1, CountedStays, PTL

-----------------------------------------------------------------------------
(* Clients that are marked *)

\* Calls that stay open are counted for clients, and those that are marked have one.
MarkedHaveCalls == \A d \in hung : late[d] > 0
MarkInv ==
  /\ late \in [Client -> Nat] /\ hung \subseteq Client
  /\ asked # None => asked.client \in Client
  /\ MarkedHaveCalls

LEMMA MarkKept ==
  ASSUME Shown, MarkInv, [ControllerNext]_controllerVars
  PROVE  MarkInv'
<1>1. CASE UNCHANGED <<hung, late>> /\ asked' \in {asked, None}
  BY <1>1 DEF MarkInv, MarkedHaveCalls
<1>2. CASE Ask
  <2>1. UNCHANGED <<hung, late>> /\ (asked' = None \/ (asked' = todo[1] /\ todo # <<>>))
    BY <1>2 DEF Ask, Continue, hungVars
  <2>2. ASSUME todo # <<>> PROVE todo[1].client \in Client
    <3>1. todo \in Seq(Known)
      BY DEF Shown, KeyTypes
    <3>2. todo[1] \in Known
      BY <2>2, <3>1, OneLess
    <3> QED BY <3>2, RegistrationAssumption DEF Known
  <2> QED BY <2>1, <2>2 DEF MarkInv, MarkedHaveCalls
<1>3. CASE Timeout \/ AnswerTooLate
  <2>1. PICK n \in {1, 2} : /\ hung' = hung \cup {asked.client}
                            /\ late' = [late EXCEPT ![asked.client] = @ + n]
                            /\ asked # None /\ asked' = None
    BY <1>3 DEF Timeout, AnswerTooLate, OpenCalls, Waiting, Continue
  <2> PICK d : d = asked.client
    OBVIOUS
  <2>2. /\ d \in Client /\ hung' = hung \cup {d} /\ late' = [late EXCEPT ![d] = @ + n]
        /\ late \in [Client -> Nat] /\ hung \subseteq Client /\ \A c \in hung : late[c] > 0
    BY <2>1 DEF MarkInv, MarkedHaveCalls
  <2>3. late' \in [Client -> Nat] /\ hung' \subseteq Client /\ \A c \in hung' : late'[c] > 0
    BY <2>2
  <2> QED BY <2>1, <2>3 DEF MarkInv, MarkedHaveCalls
<1>4. CASE \E d \in Client : LateAnswer(d) \/ OpenCallFails(d)
  <2>1. PICK d \in Client : Complete(d)
    BY <1>4 DEF LateAnswer, OpenCallFails
  <2>2. /\ late[d] > 0 /\ late' = [late EXCEPT ![d] = @ - 1] /\ hung' = hung \ {d}
        /\ asked' = asked /\ late \in [Client -> Nat] /\ hung \subseteq Client
        /\ \A c \in hung : late[c] > 0
    BY <2>1 DEF Complete, Completed, Unmarked, MarkInv, MarkedHaveCalls
  <2>3. late' \in [Client -> Nat] /\ hung' \subseteq Client /\ \A c \in hung' : late'[c] > 0
    BY <2>2
  <2> QED BY <2>2, <2>3 DEF MarkInv, MarkedHaveCalls
<1>5. CASE DispatchCall \/ DispatchGone \/ HandleRegister \/ HandleDeregister \/ HandleNotify
  <2>1. UNCHANGED <<hung, late, asked>>
    BY <1>5 DEF DispatchCall, DispatchGone, HandleRegister, HandleDeregister, HandleNotify,
                hungVars
  <2> QED BY <1>1, <2>1
<1>6. CASE \/ \E b \in BOOLEAN : Answer(b)
           \/ ErrorAnswer
  <2>1. UNCHANGED <<hung, late>> /\ asked' = None
    BY <1>6 DEF Answer, ErrorAnswer, Continue, hungVars
  <2> QED BY <1>1, <2>1
<1>7. CASE \/ \E r \in Registration : CallRegister(r) \/ CallDeregister(r)
           \/ \E k \in Pressed : CallNotify(k) \/ GrabbedKey(k)
           \/ \E d \in Client : Disconnect(d)
  <2>1. UNCHANGED <<hung, late, asked>>
    BY <1>7 DEF CallRegister, CallDeregister, CallNotify, GrabbedKey, Disconnect, hungVars
  <2> QED BY <1>1, <2>1
<1>8. CASE UNCHANGED controllerVars
  BY <1>1, <1>8 DEF controllerVars
<1> QED BY <1>2, <1>3, <1>4, <1>5, <1>6, <1>7, <1>8 DEF ControllerNext, RegistryStep

\* A client that is marked as hung has a call open whose end takes the mark off
\* (send_and_allow_reentry, reset_hung_process, reset_hung_process_from_ping): the
\* safety part of HungIsForgotten.
THEOREM MarkedCanBeForgotten == ControllerSpec => []MarkedHaveCalls
PROOF
<1>1. ControllerInit => Shown /\ WaitsWhileShown /\ MarkInv
  <2> SUFFICES ASSUME ControllerInit PROVE Shown /\ WaitsWhileShown /\ MarkInv
    OBVIOUS
  <2>1. hung = {} /\ late = [c \in Client |-> 0] /\ asked = None
    BY DEF ControllerInit
  <2>2. late \in [Client -> Nat] /\ hung \subseteq Client
    BY <2>1
  <2> QED BY <2>1, <2>2, ShownAtFirst DEF MarkInv, MarkedHaveCalls
<1>2. /\ Shown /\ WaitsWhileShown /\ MarkInv /\ [ControllerNext]_controllerVars
      => (Shown /\ WaitsWhileShown /\ MarkInv)'
  BY NextKeepsShown, MarkKept
<1>3. MarkInv => MarkedHaveCalls
  BY DEF MarkInv
<1> QED BY <1>1, <1>2, <1>3, PTL DEF ControllerSpec

-----------------------------------------------------------------------------
(* Key events end *)

GetsShorter == todo # <<>> => Len(todo') < Len(todo)

LEMMA StepGetsShorter ==
  ASSUME Shown, WaitsWhileShown, [ControllerNext]_controllerVars, todo' # todo
  PROVE  GetsShorter
<1>1. todo \in Seq(Known)
  BY DEF Shown, KeyTypes
<1>2. todo # <<>> => Len(Tail(todo)) < Len(todo) /\ Len(<<>>) < Len(todo)
  <2>1. todo # <<>> => Len(Tail(todo)) = Len(todo) - 1 /\ Len(todo) \in Nat /\ Len(todo) >= 1
    BY <1>1, OneLess
  <2> QED BY <2>1
<1>3. CASE todo' \in {Tail(todo), <<>>}
  BY <1>2, <1>3 DEF GetsShorter
<1>4. CASE todo = <<>>
  BY <1>4 DEF GetsShorter
<1>5. CASE HandleNotify \/ \E k \in Pressed : GrabbedKey(k)
  BY <1>4, <1>5 DEF HandleNotify, HandleCall, MayHandle, GrabbedKey, Idle
<1>6. CASE (\E b \in BOOLEAN : Answer(b)) \/ ErrorAnswer \/ Timeout \/ AnswerTooLate \/ Ask
  <2>1. todo' \in {Tail(todo), <<>>}
    BY <1>6 DEF Answer, ErrorAnswer, Timeout, AnswerTooLate, Ask, Continue, GoOn
  <2> QED BY <1>3, <2>1
<1>7. \/ HandleNotify \/ \E k \in Pressed : GrabbedKey(k)
      \/ (\E b \in BOOLEAN : Answer(b)) \/ ErrorAnswer \/ Timeout \/ AnswerTooLate \/ Ask
  BY DEF ControllerNext, RegistryStep, controllerVars, CallRegister, CallDeregister, CallNotify,
         Disconnect, LateAnswer, OpenCallFails, Complete, DispatchCall, DispatchGone,
         HandleRegister, HandleDeregister
<1> QED BY <1>5, <1>6, <1>7

\* The clones that a key event is shown to only get fewer, none is shown twice, and no
\* other event comes in between (spi_controller_notify_keylisteners): the safety part
\* of KeyboardThaws.
THEOREM KeyEventsGetShorter == ControllerSpec => [][GetsShorter]_todo
PROOF
<1>1. ControllerInit => Shown /\ WaitsWhileShown
  BY ShownAtFirst
<1>2. /\ Shown /\ WaitsWhileShown /\ [ControllerNext]_controllerVars
      => (Shown /\ WaitsWhileShown)'
  BY NextKeepsShown
<1>3. /\ Shown /\ WaitsWhileShown /\ [ControllerNext]_controllerVars
      => [GetsShorter]_todo
  BY StepGetsShorter
<1> QED BY <1>1, <1>2, <1>3, PTL DEF ControllerSpec
=============================================================================

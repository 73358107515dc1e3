---------------------------- MODULE LruListProofs ----------------------------
(***************************************************************************)
(* For every finite set of keys and every limit: each list operation of    *)
(* lru-cache.ts keeps the links in order, hence the list always matches    *)
(* the map, the map never outgrows its limit, and the class implements the *)
(* map that forgets the least recently used entry.                         *)
(*                                                                         *)
(* Linked alone is not inductive: it admits a ring of nodes beside the     *)
(* list, which would remain when the last node of the list is removed.     *)
(* That every link leads to a node of higher rank excludes rings.  Of such *)
(* a list the keys have one order, and every list operation does to it     *)
(* what the abstract map does to its sequence.                             *)
(***************************************************************************)
EXTENDS LruList, FiniteSetTheorems, SequenceTheorems, WellFoundedInduction, TLAPS

Ranked(l, m) ==
  \E rank \in [Keys -> Nat] :
    \A k \in m : l.next[k] # Null => rank[k] < rank[l.next[k]]

Sound(l, m) == Linked(l, m) /\ Ranked(l, m)

(* A set of numbers that is not empty has a least one. *)
LEMMA LeastOf == ASSUME NEW R \in SUBSET Nat, R # {} PROVE \E n \in R : \A i \in R : n <= i
  <1> DEFINE less == OpToRel(<, Nat)
  <1>1. \E n \in R : \A i \in R : <<i, n>> \notin less
    BY NatLessThanWellFounded, WFMin
  <1>2. \A i, n \in Nat : i < n => <<i, n>> \in less
    BY DEF OpToRel
  <1> HIDE DEF less
  <1>3. PICK n \in R : \A i \in R : <<i, n>> \notin less
    BY <1>1
  <1>4. ASSUME NEW i \in R PROVE n <= i
    <2>1. ~(i < n)
      BY <1>2, <1>3
    <2> QED
      BY <2>1
  <1> QED
    BY <1>4

(* Some node of a set that is not empty has the lowest rank. *)
LEMMA Lowest ==
  ASSUME NEW rank \in [Keys -> Nat], NEW S \in SUBSET Keys, S # {}
  PROVE  \E k \in S : \A j \in S : rank[k] <= rank[j]
  <1> DEFINE R == {rank[k] : k \in S}
  <1>1. R \in SUBSET Nat /\ R # {}
    OBVIOUS
  <1> HIDE DEF R
  <1>2. PICK n \in R : \A i \in R : n <= i
    BY <1>1, LeastOf
  <1> USE DEF R
  <1>3. PICK k \in S : n = rank[k]
    OBVIOUS
  <1> QED
    BY <1>2, <1>3

(* Only a list of one node has one node at both its ends. *)
LEMMA LastNode ==
  ASSUME NEW l \in List, NEW m \in SUBSET Keys, Sound(l, m), NEW n \in m,
         l.prev[n] = Null, l.next[n] = Null
  PROVE  m = {n}
  <1> SUFFICES ASSUME m \ {n} # {} PROVE FALSE
    OBVIOUS
  <1>1. PICK rank \in [Keys -> Nat] : \A k \in m : l.next[k] # Null => rank[k] < rank[l.next[k]]
    BY DEF Sound, Ranked
  <1>2. PICK b \in m \ {n} : \A j \in m \ {n} : rank[b] <= rank[j]
    BY Lowest
  <1>3. l.prev[b] \in m /\ l.next[l.prev[b]] = b
    BY DEF Sound, Linked
  <1>4. rank[l.prev[b]] < rank[b]
    BY <1>1, <1>3, NullIsNoKey
  <1>5. l.prev[b] # n
    BY <1>3, NullIsNoKey
  <1> QED
    BY <1>2, <1>3, <1>4, <1>5

LEMMA RemoveKeepsLinks ==
  ASSUME NEW l \in List, NEW m \in SUBSET Keys, Sound(l, m), NEW n \in m
  PROVE  RemoveNode(l, n) \in List /\ Sound(RemoveNode(l, n), m \ {n})
  <1> DEFINE r == RemoveNode(l, n)
  <1>1. r \in List
    BY NullIsNoKey DEF RemoveNode, Assign, List, Pointer
  <1>2. \A k \in Keys : r.prev[k] = IF k = l.next[n] THEN l.prev[n] ELSE l.prev[k]
    BY NullIsNoKey DEF RemoveNode, Assign, List, Pointer
  <1>3. \A k \in Keys : r.next[k] = IF k = l.prev[n] THEN l.next[n] ELSE l.next[k]
    BY NullIsNoKey DEF RemoveNode, Assign, List, Pointer
  <1>4. /\ r.head = IF l.prev[n] = Null THEN l.next[n] ELSE l.head
        /\ r.tail = IF l.next[n] = Null THEN l.prev[n] ELSE l.tail
    BY DEF RemoveNode
  <1>5. l.prev[n] = Null /\ l.next[n] = Null => m \ {n} = {}
    BY LastNode
  <1>6. Linked(l, m)
    BY DEF Sound
  <1> HIDE DEF r
  <1>7. l.prev[n] # n /\ l.next[n] # n
    <2>1. PICK rank \in [Keys -> Nat] : \A k \in m : l.next[k] # Null => rank[k] < rank[l.next[k]]
      BY DEF Sound, Ranked
    <2> QED
      BY <1>6, <2>1, NullIsNoKey DEF Linked
  <1>8. r.head \in (m \ {n}) \cup {Null} /\ r.tail \in (m \ {n}) \cup {Null}
    BY <1>4, <1>6, <1>7, NullIsNoKey DEF Linked
  <1>9. (r.head = Null <=> m \ {n} = {}) /\ (r.tail = Null <=> m \ {n} = {})
    BY <1>4, <1>5, <1>6, <1>7, <1>8, NullIsNoKey DEF Linked
  <1>10. ASSUME NEW k \in m \ {n}
         PROVE  /\ r.prev[k] \in (m \ {n}) \cup {Null} /\ r.next[k] \in (m \ {n}) \cup {Null}
                /\ (r.prev[k] = Null <=> k = r.head)
                /\ (r.next[k] = Null <=> k = r.tail)
    BY <1>2, <1>3, <1>4, <1>6, <1>7, NullIsNoKey DEF Linked
  <1>11. ASSUME NEW k \in m \ {n}
         PROVE  /\ r.prev[k] # Null => r.next[r.prev[k]] = k
                /\ r.next[k] # Null => r.prev[r.next[k]] = k
    BY <1>2, <1>3, <1>6, <1>7, <1>10, NullIsNoKey DEF Linked
  <1>12. Ranked(r, m \ {n})
    <2>1. PICK rank \in [Keys -> Nat] : \A k \in m : l.next[k] # Null => rank[k] < rank[l.next[k]]
      BY DEF Sound, Ranked
    <2>2. ASSUME NEW k \in m \ {n}, r.next[k] # Null PROVE rank[k] < rank[r.next[k]]
      <3>1. CASE k = l.prev[n]
        <4>1. rank[k] < rank[n]
          BY <1>6, <2>1, <3>1, NullIsNoKey DEF Linked
        <4>2. r.next[k] = l.next[n]
          BY <1>3, <3>1
        <4>3. rank[n] < rank[l.next[n]] /\ l.next[n] \in Keys
          BY <1>6, <2>1, <2>2, <4>2 DEF Linked
        <4> QED
          BY <4>1, <4>2, <4>3
      <3>2. CASE k # l.prev[n]
        BY <1>3, <2>1, <2>2, <3>2
      <3> QED
        BY <3>1, <3>2
    <2> QED
      BY <2>2 DEF Ranked
  <1> QED
    BY <1>1, <1>8, <1>9, <1>10, <1>11, <1>12 DEF Sound, Linked, r

LEMMA AddKeepsLinks ==
  ASSUME NEW l \in List, NEW m \in SUBSET Keys, Sound(l, m), NEW n \in Keys, n \notin m
  PROVE  AddToHead(l, n) \in List /\ Sound(AddToHead(l, n), m \cup {n})
  <1> DEFINE a == AddToHead(l, n)
  <1>1. a \in List
    BY NullIsNoKey DEF AddToHead, Assign, List, Pointer
  <1>2. \A k \in Keys : a.prev[k] = IF k = l.head THEN n ELSE IF k = n THEN Null ELSE l.prev[k]
    BY NullIsNoKey DEF AddToHead, Assign, List, Pointer
  <1>3. \A k \in Keys : a.next[k] = IF k = n THEN l.head ELSE l.next[k]
    BY DEF AddToHead, Assign, List, Pointer
  <1>4. a.head = n /\ a.tail = IF l.tail = Null THEN n ELSE l.tail
    BY DEF AddToHead
  <1>5. Linked(l, m)
    BY DEF Sound
  <1> HIDE DEF a
  <1>6. Linked(a, m \cup {n})
    BY <1>2, <1>3, <1>4, <1>5, NullIsNoKey, SMTT(30) DEF Linked
  <1>7. Ranked(a, m \cup {n})
    <2>1. PICK rank \in [Keys -> Nat] : \A k \in m : l.next[k] # Null => rank[k] < rank[l.next[k]]
      BY DEF Sound, Ranked
    <2> DEFINE up == [k \in Keys |-> IF k = n THEN 0 ELSE rank[k] + 1]
    <2>2. up \in [Keys -> Nat]
      OBVIOUS
    <2>3. ASSUME NEW k \in m \cup {n}, a.next[k] # Null PROVE up[k] < up[a.next[k]]
      <3>1. CASE k = n
        <4>1. a.next[k] = l.head /\ l.head \in m /\ l.head # n
          BY <1>3, <1>5, <2>3, <3>1 DEF Linked
        <4> QED
          BY <3>1, <4>1
      <3>2. CASE k # n
        <4>1. a.next[k] = l.next[k] /\ l.next[k] \in m /\ l.next[k] # n
          BY <1>3, <1>5, <2>3, <3>2 DEF Linked
        <4>2. rank[k] < rank[l.next[k]]
          BY <2>1, <2>3, <3>2, <4>1
        <4> QED
          BY <3>2, <4>1, <4>2
      <3> QED
        BY <3>1, <3>2
    <2> HIDE DEF up
    <2> QED
      BY <2>2, <2>3 DEF Ranked
  <1> QED
    BY <1>1, <1>6, <1>7 DEF Sound, a

(* Unlinking a node that is not the head is RemoveNode. *)
LEMMA MoveKeepsLinks ==
  ASSUME NEW l \in List, NEW m \in SUBSET Keys, Sound(l, m), NEW n \in m
  PROVE  MoveToHead(l, n) \in List /\ Sound(MoveToHead(l, n), m)
  <1>1. CASE n = l.head
    BY <1>1 DEF MoveToHead
  <1>2. CASE n # l.head
    <2>1. l.prev[n] # Null /\ (n = l.tail <=> l.next[n] = Null)
      BY <1>2 DEF Sound, Linked
    <2>2. MoveToHead(l, n) = AddToHead(RemoveNode(l, n), n)
      BY <1>2, <2>1 DEF MoveToHead, RemoveNode
    <2>3. (m \ {n}) \cup {n} = m
      OBVIOUS
    <2>4. RemoveNode(l, n) \in List /\ Sound(RemoveNode(l, n), m \ {n})
      BY RemoveKeepsLinks
    <2>5. /\ AddToHead(RemoveNode(l, n), n) \in List
          /\ Sound(AddToHead(RemoveNode(l, n), n), (m \ {n}) \cup {n})
      BY <2>4, AddKeepsLinks
    <2> QED
      BY <2>2, <2>3, <2>5
  <1> QED
    BY <1>1, <1>2

-----------------------------------------------------------------------------
(* An entry erased or not, values and times keep their types. *)
LEMMA EraseTypes ==
  ASSUME TypeOK, NEW S, Erase(S)
  PROVE  value' \in [Keys -> Values \cup {Absent}] /\ left' \in [Keys -> Nat]
  BY DEF TypeOK, Erase

Sure == TypeOK /\ Sound(list, map)

(* The entry of a key goes, with its node. *)
LEMMA RemoveStep ==
  ASSUME Sure, NEW k \in map, Remove(k), doomed' \subseteq doomed \ {k},
         res' \in Values \cup {Absent} \cup BOOLEAN
  PROVE  Sure'
  <1>1. map \in SUBSET Keys /\ list \in List /\ Sound(list, map)
    BY DEF Sure, TypeOK
  <1>2. map' = map \ {k} /\ list' = RemoveNode(list, k)
    BY DEF Remove
  <1>3. list' \in List /\ Sound(list', map')
    BY <1>1, <1>2, RemoveKeepsLinks
  <1>4. value' \in [Keys -> Values \cup {Absent}] /\ left' \in [Keys -> Nat]
    BY EraseTypes DEF Remove, Sure
  <1>5. doomed' \subseteq map'
    BY <1>2 DEF Sure, TypeOK
  <1> QED
    BY <1>1, <1>2, <1>3, <1>4, <1>5 DEF Sure, TypeOK

LEMMA GetStep == ASSUME Sure, NEW k \in Keys, Get(k) PROVE Sure'
  <1>1. CASE k \notin map
    BY <1>1 DEF Get, Sure, TypeOK
  <1>2. CASE k \in map /\ Expired(k)
    <2>1. Remove(k) /\ doomed' = {} /\ res' = Absent
      BY <1>2 DEF Get
    <2> QED
      BY <1>2, <2>1, RemoveStep
  <1>3. CASE k \in map /\ ~Expired(k)
    <2>1. /\ list' = MoveToHead(list, k) /\ res' = value[k]
          /\ UNCHANGED <<map, value, left, doomed>>
      BY <1>3 DEF Get
    <2>2. list' \in List /\ Sound(list', map)
      BY <1>3, <2>1, MoveKeepsLinks DEF Sure, TypeOK
    <2> QED
      BY <2>1, <2>2 DEF Sure, TypeOK
  <1> QED
    BY <1>1, <1>2, <1>3

(* A set: the expired node goes, then the tail if the map is full, then a
   node is added. *)
LEMMA SetStep ==
  ASSUME Sure, NEW k \in Keys, NEW v \in Values, NEW t \in Ttls, Set(k, v, t)
  PROVE  Sure'
  <1>1. CASE k \in map /\ ~Expired(k)
    <2>1. /\ list' = MoveToHead(list, k)
          /\ value' = [value EXCEPT ![k] = v] /\ left' = [left EXCEPT ![k] = t]
          /\ UNCHANGED <<map, doomed, res>>
      BY <1>1 DEF Set
    <2>2. list' \in List /\ Sound(list', map)
      BY <1>1, <2>1, MoveKeepsLinks DEF Sure, TypeOK
    <2>3. value' \in [Keys -> Values \cup {Absent}] /\ left' \in [Keys -> Nat]
      BY <2>1, TtlsType DEF Sure, TypeOK
    <2> QED
      BY <2>1, <2>2, <2>3 DEF Sure, TypeOK
  <1>2. CASE ~(k \in map /\ ~Expired(k))
    <2> DEFINE m1 == map \ {k}
               l1 == IF k \in map THEN RemoveNode(list, k) ELSE list
               evict == IF Full(m1) /\ l1.tail # Null THEN {l1.tail} ELSE {}
               l2 == IF evict = {} THEN l1 ELSE RemoveNode(l1, l1.tail)
    <2>1. /\ map' = (m1 \ evict) \cup {k} /\ list' = AddToHead(l2, k)
          /\ value' = [j \in Keys |-> IF j = k THEN v
                                      ELSE IF j \in evict THEN Absent ELSE value[j]]
          /\ left' = [j \in Keys |-> IF j = k THEN t ELSE IF j \in evict THEN 0 ELSE left[j]]
          /\ doomed = {} /\ UNCHANGED <<doomed, res>>
      BY <1>2 DEF Set
    <2>2. l1 \in List /\ Sound(l1, m1) /\ m1 \in SUBSET Keys /\ k \notin m1
      <3>1. map \in SUBSET Keys /\ list \in List /\ Sound(list, map)
        BY DEF Sure, TypeOK
      <3>2. CASE k \in map
        BY <3>1, <3>2, RemoveKeepsLinks
      <3>3. CASE k \notin map
        <4>1. map \ {k} = map
          BY <3>3
        <4> QED
          BY <3>1, <3>3, <4>1
      <3> QED
        BY <3>2, <3>3
    <2>3. l1.tail \in m1 \cup {Null}
      BY <2>2 DEF Sound, Linked
    <2>4. l2 \in List /\ Sound(l2, m1 \ evict)
      <3> HIDE DEF m1, l1
      <3>1. CASE evict = {}
        <4>1. m1 \ evict = m1 /\ l2 = l1
          BY <3>1
        <4> QED
          BY <2>2, <4>1
      <3>2. CASE evict # {}
        <4>1. evict = {l1.tail} /\ l2 = RemoveNode(l1, l1.tail) /\ l1.tail \in m1
          BY <2>3, <3>2
        <4> QED
          BY <2>2, <4>1, RemoveKeepsLinks
      <3> QED
        BY <3>1, <3>2
    <2>5. list' \in List /\ Sound(list', map')
      <3> HIDE DEF m1, l2, evict
      <3>1. m1 \ evict \in SUBSET Keys /\ k \notin m1 \ evict
        BY <2>2
      <3> QED
        BY <2>1, <2>4, <3>1, AddKeepsLinks
    <2>6. value' \in [Keys -> Values \cup {Absent}] /\ left' \in [Keys -> Nat]
      BY <2>1, TtlsType DEF Sure, TypeOK
    <2>7. /\ map' \subseteq Keys /\ doomed' \subseteq map'
          /\ res' \in Values \cup {Absent} \cup BOOLEAN
      BY <2>1, <2>2 DEF Sure, TypeOK
    <2> QED
      BY <2>5, <2>6, <2>7 DEF Sure, TypeOK
  <1> QED
    BY <1>1, <1>2

LEMMA ClearStep == ASSUME Sure, Clear PROVE Sure'
  <1>1. /\ map' = {} /\ list' = [list EXCEPT !.head = Null, !.tail = Null]
        /\ doomed' = {} /\ UNCHANGED res
    BY DEF Clear
  <1>2. list' \in List /\ list'.head = Null /\ list'.tail = Null
    BY <1>1 DEF Sure, TypeOK, List, Pointer
  <1>3. Linked(list', map')
    BY <1>1, <1>2 DEF Linked
  <1>4. Ranked(list', map')
    <2>1. [k \in Keys |-> 0] \in [Keys -> Nat]
      OBVIOUS
    <2> QED
      BY <1>1, <2>1 DEF Ranked
  <1>5. value' \in [Keys -> Values \cup {Absent}] /\ left' \in [Keys -> Nat]
    BY EraseTypes DEF Clear, Sure
  <1> QED
    BY <1>1, <1>2, <1>3, <1>4, <1>5 DEF Sure, Sound, TypeOK

LEMMA SureStep == ASSUME Sure, [Next]_vars PROVE Sure'
  <1>1. ASSUME NEW k \in Keys, Delete(k) PROVE Sure'
    <2>1. CASE k \in map
      <3>1. Remove(k) /\ doomed' = {} /\ res' \in BOOLEAN
        BY <1>1, <2>1 DEF Delete
      <3> QED
        BY <2>1, <3>1, RemoveStep
    <2>2. CASE k \notin map
      BY <1>1, <2>2 DEF Delete, Sure, TypeOK
    <2> QED
      BY <2>1, <2>2
  <1>2. ASSUME NEW k \in Keys, SweepDelete(k) PROVE Sure'
    <2>1. k \in map /\ Remove(k) /\ doomed' = doomed \ {k} /\ res' = res
      BY <1>2 DEF SweepDelete, Sure, TypeOK
    <2> QED
      BY <2>1, RemoveStep DEF Sure, TypeOK
  <1>3. CASE Sweep
    BY <1>3 DEF Sweep, Sure, TypeOK
  <1>4. CASE Tick
    <2>1. left' \in [Keys -> Nat]
      BY <1>4 DEF Tick, Sure, TypeOK
    <2> QED
      BY <1>4, <2>1 DEF Tick, Sure, TypeOK
  <1>5. CASE UNCHANGED vars
    BY <1>5 DEF vars, Sure, TypeOK
  <1> QED
    BY <1>1, <1>2, <1>3, <1>4, <1>5, GetStep, SetStep, ClearStep DEF Next

THEOREM Soundness == Spec => []Sure
  <1>1. Init => Sure
    <2> SUFFICES ASSUME Init PROVE Sure
      OBVIOUS
    <2>1. TypeOK
      BY DEF Init, TypeOK, List, Pointer, Unlinked
    <2>2. Linked(list, map)
      BY DEF Init, Linked
    <2>3. Ranked(list, map)
      <3>1. [k \in Keys |-> 0] \in [Keys -> Nat]
        OBVIOUS
      <3> QED
        BY <3>1 DEF Init, Ranked
    <2> QED
      BY <2>1, <2>2, <2>3 DEF Sure, Sound
  <1>2. Sure /\ [Next]_vars => Sure'
    BY SureStep
  <1> QED
    BY <1>1, <1>2, PTL DEF Spec

(* After any sequence of calls the list holds the entries of the map and no
   link dangles. *)
THEOREM Consistent == Spec => []ListMatchesMap
  <1>1. Sure => ListMatchesMap
    BY DEF Sure, Sound, ListMatchesMap
  <1> QED
    BY <1>1, Soundness, PTL

(* The map never holds more than maxEntries entries: when it is full there
   is a tail to give way. *)
THEOREM Bounded == Spec => []SizeBounded
  <1>1. Init => SizeBounded
    BY FS_EmptySet, MaxEntriesType DEF Init, SizeBounded
  <1>2. ASSUME Sure, SizeBounded, NEW S \in SUBSET map, map' = S PROVE SizeBounded'
    <2>1. IsFiniteSet(map) /\ Cardinality(map) \in Nat
      BY <1>2, KeysFinite, FS_Subset, FS_CardinalityType DEF Sure, TypeOK
    <2>2. Cardinality(S) \in Nat /\ Cardinality(S) <= Cardinality(map)
      BY <2>1, FS_Subset, FS_CardinalityType
    <2> QED
      BY <1>2, <2>1, <2>2, MaxEntriesType DEF SizeBounded
  <1>3. ASSUME Sure, SizeBounded, NEW k \in Keys, NEW v \in Values, NEW t \in Ttls, Set(k, v, t)
        PROVE  SizeBounded'
    <2>1. CASE k \in map /\ ~Expired(k)
      BY <1>3, <2>1 DEF Set, SizeBounded
    <2>2. CASE ~(k \in map /\ ~Expired(k))
      <3> DEFINE m1 == map \ {k}
                 l1 == IF k \in map THEN RemoveNode(list, k) ELSE list
                 evict == IF Full(m1) /\ l1.tail # Null THEN {l1.tail} ELSE {}
      <3>1. map' = (m1 \ evict) \cup {k}
        BY <1>3, <2>2 DEF Set
      <3>2. IsFiniteSet(m1) /\ Cardinality(m1) \in Nat
        BY <1>3, KeysFinite, FS_Subset, FS_CardinalityType DEF Sure, TypeOK
      <3>3. Sound(l1, m1) /\ k \notin m1
        <4>1. map \in SUBSET Keys /\ list \in List /\ Sound(list, map)
          BY <1>3 DEF Sure, TypeOK
        <4>2. CASE k \in map
          BY <4>1, <4>2, RemoveKeepsLinks
        <4>3. CASE k \notin map
          <5>1. map \ {k} = map
            BY <4>3
          <5> QED
            BY <4>1, <4>3, <5>1
        <4> QED
          BY <4>2, <4>3
      <3>4. Cardinality(m1) <= MaxEntries
        <4>1. IsFiniteSet(map) /\ Cardinality(map) \in Nat /\ Cardinality(m1) <= Cardinality(map)
          BY <1>3, KeysFinite, FS_Subset, FS_CardinalityType DEF Sure, TypeOK
        <4> QED
          BY <1>3, <3>2, <4>1, MaxEntriesType DEF SizeBounded
      <3> HIDE DEF m1, l1
      <3>5. CASE ~Full(m1)
        <4>1. evict = {} /\ Cardinality(m1) < MaxEntries
          BY <3>2, <3>5, MaxEntriesType DEF Full
        <4>2. map' = m1 \cup {k}
          BY <3>1, <4>1
        <4>3. Cardinality(map') = Cardinality(m1) + 1
          BY <3>2, <3>3, <4>2, FS_AddElement
        <4> QED
          BY <3>2, <4>1, <4>3, MaxEntriesType DEF SizeBounded
      <3>6. CASE Full(m1)
        <4>1. m1 # {}
          BY <3>6, FS_EmptySet, MaxEntriesType DEF Full
        <4>2. l1.tail # Null /\ l1.tail \in m1
          BY <3>3, <4>1 DEF Sound, Linked
        <4>3. map' = (m1 \ {l1.tail}) \cup {k}
          BY <3>1, <3>6, <4>2
        <4>4. /\ IsFiniteSet(m1 \ {l1.tail})
              /\ Cardinality(m1 \ {l1.tail}) = Cardinality(m1) - 1
          BY <3>2, <4>2, FS_RemoveElement
        <4>5. Cardinality(map') = Cardinality(m1 \ {l1.tail}) + 1
          BY <3>3, <4>3, <4>4, FS_AddElement
        <4> QED
          BY <3>2, <3>4, <4>4, <4>5 DEF SizeBounded
      <3> QED
        BY <3>5, <3>6
    <2> QED
      BY <2>1, <2>2
  <1>4. ASSUME Sure, SizeBounded, [Next]_vars PROVE SizeBounded'
    <2>1. (\E k \in Keys, v \in Values, t \in Ttls : Set(k, v, t)) \/ map' \in SUBSET map
      BY <1>4 DEF Next, Get, Delete, SweepDelete, Remove, Clear, Sweep, Tick, vars
    <2> QED
      BY <1>2, <1>3, <1>4, <2>1
  <1> QED
    BY <1>1, <1>4, Soundness, PTL DEF Spec

(* Every pointer of the list of lru-cache.ts is to a key or null, in every
   state, between any two operations. *)
THEOREM TypeCorrect == Spec => []TypeOK
  <1>1. Sure => TypeOK
    BY DEF Sure
  <1> QED
    BY <1>1, Soundness, PTL

-----------------------------------------------------------------------------
(* The order of the keys.                                                  *)

(* s is the order of the keys of m in l. *)
InOrder(l, m, s) ==
  /\ s \in Seq(m)
  /\ \A k \in m : \E i \in 1 .. Len(s) : s[i] = k
  /\ \A i, j \in 1 .. Len(s) : s[i] = s[j] => i = j
  /\ m # {} => s[1] = l.head
  /\ \A i \in 1 .. Len(s) - 1 : s[i + 1] = l.next[s[i]]

LEMMA OrderLength ==
  ASSUME NEW m \in SUBSET Keys, NEW l, NEW s, InOrder(l, m, s)
  PROVE  /\ Len(s) = Cardinality(m) /\ Len(s) \in Nat /\ s \in [1 .. Len(s) -> m]
         /\ IsFiniteSet(m) /\ (m # {} <=> Len(s) > 0)
  <1>1. Len(s) \in Nat /\ s \in [1 .. Len(s) -> m]
    BY LenProperties DEF InOrder
  <1>2. s \in Bijection(1 .. Len(s), m)
    BY <1>1 DEF InOrder, Bijection, Injection, Surjection, IsInjective
  <1>3. Cardinality(m) = Len(s)
    BY <1>1, <1>2, FS_CountingElements DEF ExistsBijection
  <1>4. IsFiniteSet(m)
    BY KeysFinite, FS_Subset
  <1>5. m # {} <=> Len(s) > 0
    BY <1>1 DEF InOrder
  <1> QED
    BY <1>1, <1>3, <1>4, <1>5

(* Following the links gives that order and no other. *)
LEMMA PathIs ==
  ASSUME NEW m \in SUBSET Keys, NEW l, NEW s, InOrder(l, m, s)
  PROVE  Path(l, m) = s
  <1> DEFINE n == Cardinality(m)
             AsLinked(t) == /\ m # {} => t[1] = l.head
                           /\ \A i \in 1 .. n - 1 : t[i + 1] = l.next[t[i]]
  <1>1. n = Len(s) /\ n \in Nat /\ (m # {} <=> n > 0)
    BY OrderLength
  <1>2. s \in [1 .. n -> m] /\ AsLinked(s)
    BY <1>1, OrderLength DEF InOrder
  <1>3. ASSUME NEW t \in [1 .. n -> m], AsLinked(t) PROVE t = s
    <2> DEFINE D == {i \in 1 .. n : t[i] # s[i]}
    <2>1. CASE D = {}
      <3>1. \A i \in 1 .. n : t[i] = s[i]
        BY <2>1
      <3>2. n \in Nat /\ s \in [1 .. n -> m] /\ t \in [1 .. n -> m]
        BY <1>1, <1>2, <1>3
      <3> HIDE DEF D, n, AsLinked
      <3> QED
        BY <3>1, <3>2
    <2>2. CASE D # {}
      <3>1. D \in SUBSET Nat
        OBVIOUS
      <3> HIDE DEF D
      <3>2. PICK i \in D : \A j \in D : i <= j
        BY <2>2, <3>1, LeastOf
      <3> USE DEF D
      <3>3. CASE i = 1
        BY <1>1, <1>2, <1>3, <3>2, <3>3
      <3>4. CASE i # 1
        <4>1. i - 1 \in 1 .. n - 1 /\ i - 1 \notin D /\ i - 1 \in 1 .. n /\ (i - 1) + 1 = i
          BY <1>1, <3>2, <3>4
        <4>2. t[i - 1] = s[i - 1]
          BY <4>1
        <4>3. t[i] = l.next[t[i - 1]] /\ s[i] = l.next[s[i - 1]]
          BY <1>2, <1>3, <4>1
        <4> QED
          BY <3>2, <4>2, <4>3
      <3> QED
        BY <3>3, <3>4
    <2> QED
      BY <2>1, <2>2
  <1>4. Path(l, m) = CHOOSE t \in [1 .. n -> m] : AsLinked(t)
    BY DEF Path
  <1> HIDE DEF n, AsLinked
  <1> QED
    BY <1>2, <1>3, <1>4

(* The neighbours in s are the neighbours in l. *)
Follows(l, s) ==
  /\ \A i \in 1 .. Len(s) - 1 : l.next[s[i]] = s[i + 1] /\ l.prev[s[i + 1]] = s[i]
  /\ Len(s) > 0 => l.prev[s[1]] = Null /\ l.next[s[Len(s)]] = Null

LEMMA Neighbours ==
  ASSUME NEW m \in SUBSET Keys, NEW l \in List, NEW s, Linked(l, m), InOrder(l, m, s)
  PROVE  Follows(l, s)
  <1>1. Len(s) \in Nat /\ s \in [1 .. Len(s) -> m] /\ (m # {} <=> Len(s) > 0)
    BY OrderLength
  <1>2. ASSUME NEW i \in 1 .. Len(s) - 1
        PROVE  l.next[s[i]] = s[i + 1] /\ l.prev[s[i + 1]] = s[i]
    <2>1. i \in 1 .. Len(s) /\ i + 1 \in 1 .. Len(s)
      BY <1>1
    <2>2. s[i] \in m /\ s[i + 1] \in m /\ l.next[s[i]] = s[i + 1]
      BY <1>1, <2>1 DEF InOrder
    <2> QED
      BY <2>2, NullIsNoKey DEF Linked
  <1>3. ASSUME Len(s) > 0 PROVE l.prev[s[1]] = Null /\ l.next[s[Len(s)]] = Null
    <2>1. 1 \in 1 .. Len(s) /\ Len(s) \in 1 .. Len(s) /\ s[1] \in m /\ s[Len(s)] \in m
      BY <1>1, <1>3
    <2>2. l.prev[s[1]] = Null
      BY <1>1, <1>3, <2>1 DEF InOrder, Linked
    <2>3. ASSUME l.next[s[Len(s)]] # Null PROVE FALSE
      <3>1. l.next[s[Len(s)]] \in m /\ l.prev[l.next[s[Len(s)]]] = s[Len(s)]
        BY <2>1, <2>3 DEF Linked
      <3>2. PICK j \in 1 .. Len(s) : s[j] = l.next[s[Len(s)]]
        BY <3>1 DEF InOrder
      <3>3. j # 1
        BY <2>1, <2>2, <3>1, <3>2, NullIsNoKey
      <3>4. j - 1 \in 1 .. Len(s) - 1 /\ (j - 1) + 1 = j /\ j - 1 \in 1 .. Len(s) /\ j - 1 # Len(s)
        BY <1>1, <3>3
      <3>5. s[j - 1] = s[Len(s)]
        BY <1>2, <3>1, <3>2, <3>4
      <3> QED
        BY <2>1, <3>4, <3>5 DEF InOrder
    <2> QED
      BY <2>2, <2>3
  <1> QED
    BY <1>2, <1>3 DEF Follows

(* s without its i-th element. *)
Without(s, i) == SubSeq(s, 1, i - 1) \o SubSeq(s, i + 1, Len(s))

LEMMA WithoutOne ==
  ASSUME NEW S, NEW s \in Seq(S), NEW i \in 1 .. Len(s)
  PROVE  /\ Without(s, i) \in Seq(S) /\ Len(Without(s, i)) = Len(s) - 1
         /\ \A j \in 1 .. Len(s) - 1 : Without(s, i)[j] = IF j < i THEN s[j] ELSE s[j + 1]
  <1>1. Len(s) \in Nat /\ i \in Nat /\ i >= 1 /\ i <= Len(s)
    OBVIOUS
  <1>2. SubSeq(s, 1, i - 1) \in Seq(S) /\ SubSeq(s, i + 1, Len(s)) \in Seq(S)
    BY <1>1
  <1>3. Len(SubSeq(s, 1, i - 1)) = i - 1 /\ Len(SubSeq(s, i + 1, Len(s))) = Len(s) - i
    BY <1>1
  <1>4. \A j \in 1 .. i - 1 : SubSeq(s, 1, i - 1)[j] = s[j]
    BY <1>1
  <1>5. \A j \in 1 .. Len(s) - i : SubSeq(s, i + 1, Len(s))[j] = s[i + j]
    BY <1>1
  <1>6. /\ Without(s, i) \in Seq(S)
        /\ Len(Without(s, i)) = (i - 1) + (Len(s) - i)
        /\ \A j \in 1 .. (i - 1) + (Len(s) - i) :
             Without(s, i)[j] = IF j <= i - 1 THEN SubSeq(s, 1, i - 1)[j]
                                ELSE SubSeq(s, i + 1, Len(s))[j - (i - 1)]
    <2> DEFINE p == SubSeq(s, 1, i - 1)
               q == SubSeq(s, i + 1, Len(s))
    <2>1. Without(s, i) = p \o q
      BY DEF Without
    <2> HIDE DEF p, q
    <2>2. /\ p \o q \in Seq(S) /\ Len(p \o q) = Len(p) + Len(q)
          /\ \A j \in 1 .. Len(p) + Len(q) :
               (p \o q)[j] = IF j <= Len(p) THEN p[j] ELSE q[j - Len(p)]
      BY <1>2, ConcatProperties DEF p, q
    <2>3. Len(p) = i - 1 /\ Len(q) = Len(s) - i
      BY <1>3 DEF p, q
    <2> QED
      BY <2>1, <2>2, <2>3 DEF p, q
  <1>7. ASSUME NEW j \in 1 .. Len(s) - 1
        PROVE  Without(s, i)[j] = IF j < i THEN s[j] ELSE s[j + 1]
    <2>1. CASE j < i
      BY <1>1, <1>4, <1>6, <2>1
    <2>2. CASE ~(j < i)
      <3>1. /\ j - (i - 1) \in 1 .. Len(s) - i /\ i + (j - (i - 1)) = j + 1
            /\ ~(j <= i - 1) /\ j \in 1 .. (i - 1) + (Len(s) - i)
        BY <1>1, <2>2
      <3> QED
        BY <1>5, <1>6, <2>2, <3>1
    <2> QED
      BY <2>1, <2>2
  <1> QED
    BY <1>1, <1>6, <1>7

LEMMA RemoveKeepsOrder ==
  ASSUME NEW m \in SUBSET Keys, NEW l \in List, NEW s, Linked(l, m), InOrder(l, m, s),
         NEW i \in 1 .. Len(s)
  PROVE  InOrder(RemoveNode(l, s[i]), m \ {s[i]}, Without(s, i))
  <1> DEFINE n == s[i]
             r == RemoveNode(l, n)
             t == Without(s, i)
             N == Len(s)
  <1>1. N \in Nat /\ s \in [1 .. N -> m] /\ (m # {} <=> N > 0) /\ s \in Seq(m)
    BY OrderLength DEF InOrder
  <1>2. n \in m
    BY <1>1
  <1>3. \A k \in Keys : r.next[k] = IF k = l.prev[n] THEN l.next[n] ELSE l.next[k]
    BY <1>2, NullIsNoKey DEF RemoveNode, Assign, List, Pointer
  <1>4. r.head = IF l.prev[n] = Null THEN l.next[n] ELSE l.head
    BY DEF RemoveNode
  <1>5. /\ t \in Seq(m) /\ Len(t) = N - 1
        /\ \A j \in 1 .. N - 1 : t[j] = IF j < i THEN s[j] ELSE s[j + 1]
    BY <1>1, WithoutOne
  <1>6. \A j, k \in 1 .. N : s[j] = s[k] => j = k
    BY DEF InOrder
  <1>7. /\ \A j \in 1 .. N - 1 : l.next[s[j]] = s[j + 1] /\ l.prev[s[j + 1]] = s[j]
        /\ N > 0 => l.prev[s[1]] = Null /\ l.next[s[N]] = Null
    <2>1. Follows(l, s)
      BY Neighbours
    <2> HIDE DEF n, r, t
    <2> QED
      BY <2>1 DEF Follows
  <1>8. l.prev[n] = IF i = 1 THEN Null ELSE s[i - 1]
    BY <1>1, <1>7
  <1> HIDE DEF r, t, N
  <1>9. ASSUME NEW j \in 1 .. N - 1
        PROVE  /\ j \in 1 .. N /\ j + 1 \in 1 .. N
               /\ t[j] \in m \ {n}
    <2>1. j \in 1 .. N /\ j + 1 \in 1 .. N /\ i \in 1 .. N
      BY <1>1 DEF N
    <2>2. CASE j < i
      <3>1. t[j] = s[j] /\ j # i
        BY <1>5, <2>1, <2>2
      <3> QED
        BY <1>1, <1>6, <2>1, <3>1
    <2>3. CASE ~(j < i)
      <3>1. t[j] = s[j + 1] /\ j + 1 # i
        BY <1>5, <2>1, <2>3
      <3> QED
        BY <1>1, <1>6, <2>1, <3>1
    <2> QED
      BY <2>2, <2>3
  <1>10. t \in Seq(m \ {n})
    <2>1. t \in [1 .. Len(t) -> m] /\ Len(t) \in Nat
      BY <1>5, LenProperties
    <2>2. t \in [1 .. Len(t) -> m \ {n}]
      BY <1>5, <1>9, <2>1
    <2> QED
      BY <2>1, <2>2, SeqDef
  <1>11. ASSUME NEW k \in m \ {n} PROVE \E j \in 1 .. Len(t) : t[j] = k
    <2>1. PICK j \in 1 .. N : s[j] = k
      BY DEF InOrder, N
    <2>2. j # i
      BY <2>1
    <2>3. CASE j < i
      <3>1. j \in 1 .. N - 1
        BY <1>1, <2>3 DEF N
      <3> QED
        BY <1>5, <2>1, <2>3, <3>1
    <2>4. CASE ~(j < i)
      <3>1. j - 1 \in 1 .. N - 1 /\ ~(j - 1 < i) /\ (j - 1) + 1 = j
        BY <1>1, <2>2, <2>4 DEF N
      <3> QED
        BY <1>5, <2>1, <3>1
    <2> QED
      BY <2>3, <2>4
  <1>12. ASSUME NEW j \in 1 .. N - 1, NEW k \in 1 .. N - 1, t[j] = t[k] PROVE j = k
    <2> DEFINE a == IF j < i THEN j ELSE j + 1
               b == IF k < i THEN k ELSE k + 1
    <2>1. t[j] = s[a] /\ t[k] = s[b]
      BY <1>5
    <2>2. a \in 1 .. N /\ b \in 1 .. N
      BY <1>1
    <2>3. a = b
      BY <1>6, <1>12, <2>1, <2>2
    <2> QED
      BY <1>1, <2>3
  <1>13. ASSUME m \ {n} # {} PROVE t[1] = r.head
    <2>1. N - 1 > 0 /\ 1 \in 1 .. N - 1 /\ 1 \in 1 .. N
      BY <1>1, <1>5, <1>11, <1>13
    <2>2. CASE i = 1
      BY <1>4, <1>5, <1>7, <1>8, <2>1, <2>2
    <2>3. CASE i # 1
      <3>1. l.prev[n] # Null
        <4>1. i - 1 \in 1 .. N
          BY <1>1, <2>3 DEF N
        <4> QED
          BY <1>1, <1>8, <2>3, <4>1, NullIsNoKey
      <3>2. t[1] = s[1]
        BY <1>5, <2>1, <2>3
      <3> QED
        BY <1>4, <3>1, <3>2, <1>13 DEF InOrder
    <2> QED
      BY <2>2, <2>3
  <1>14. ASSUME NEW j \in 1 .. (N - 1) - 1 PROVE t[j + 1] = r.next[t[j]]
    <2>1. /\ j \in 1 .. N - 1 /\ j + 1 \in 1 .. N - 1 /\ j \in 1 .. N /\ j + 1 \in 1 .. N
          /\ i \in 1 .. N /\ (j + 1) + 1 \in 1 .. N
      BY <1>1 DEF N
    <2>2. t[j] \in Keys
      BY <1>9, <2>1
    <2>3. CASE j + 1 < i
      <3>1. t[j] = s[j] /\ t[j + 1] = s[j + 1] /\ i # 1 /\ j # i - 1 /\ i - 1 \in 1 .. N
        BY <1>1, <1>5, <2>1, <2>3
      <3>2. s[j] # l.prev[n]
        BY <1>6, <1>8, <2>1, <3>1
      <3> QED
        BY <1>3, <1>7, <2>1, <2>2, <3>1, <3>2
    <2>4. CASE j + 1 = i
      <3>1. t[j] = s[j] /\ t[j + 1] = s[i + 1] /\ i # 1 /\ j = i - 1 /\ i \in 1 .. N - 1
        BY <1>1, <1>5, <2>1, <2>4
      <3> QED
        BY <1>3, <1>7, <1>8, <2>1, <2>2, <3>1
    <2>5. CASE ~(j + 1 <= i)
      <3>1. t[j] = s[j + 1] /\ t[j + 1] = s[(j + 1) + 1] /\ j + 1 # i - 1
        BY <1>1, <1>5, <2>1, <2>5
      <3>2. s[j + 1] # l.prev[n]
        <4>1. CASE i = 1
          BY <1>1, <1>8, <2>1, <4>1, NullIsNoKey
        <4>2. CASE i # 1
          <5>1. i - 1 \in 1 .. N
            BY <1>1, <2>1, <4>2
          <5> QED
            BY <1>6, <1>8, <2>1, <3>1, <4>2, <5>1
        <4> QED
          BY <4>1, <4>2
      <3> QED
        BY <1>3, <1>7, <2>1, <2>2, <3>1, <3>2
    <2> QED
      BY <1>1, <2>1, <2>3, <2>4, <2>5
  <1> QED
    BY <1>5, <1>10, <1>11, <1>12, <1>13, <1>14 DEF InOrder, r, t

LEMMA AddKeepsOrder ==
  ASSUME NEW m \in SUBSET Keys, NEW l \in List, NEW s, InOrder(l, m, s),
         NEW n \in Keys, n \notin m
  PROVE  InOrder(AddToHead(l, n), m \cup {n}, <<n>> \o s)
  <1> DEFINE a == AddToHead(l, n)
             t == <<n>> \o s
             N == Len(s)
             M == m \cup {n}
  <1>1. N \in Nat /\ s \in [1 .. N -> m] /\ (m # {} <=> N > 0) /\ s \in Seq(m)
    BY OrderLength DEF InOrder
  <1>2. \A k \in Keys : a.next[k] = IF k = n THEN l.head ELSE l.next[k]
    BY DEF AddToHead, Assign, List, Pointer
  <1>3. a.head = n
    BY DEF AddToHead
  <1>4. t \in Seq(M) /\ Len(t) = N + 1 /\ \A j \in 1 .. N + 1 : t[j] = IF j = 1 THEN n ELSE s[j - 1]
    <2>1. <<n>> \in Seq(M) /\ Len(<<n>>) = 1 /\ <<n>>[1] = n
      OBVIOUS
    <2>2. s \in Seq(M)
      BY <1>1, SeqMonotonic
    <2> HIDE DEF M
    <2>3. /\ t \in Seq(M) /\ Len(t) = 1 + N
          /\ \A j \in 1 .. 1 + N : t[j] = IF j <= 1 THEN <<n>>[j] ELSE s[j - 1]
      BY <2>1, <2>2, ConcatProperties
    <2> QED
      BY <1>1, <2>1, <2>3
  <1> HIDE DEF a, t, N
  <1>5. ASSUME NEW k \in M PROVE \E j \in 1 .. N + 1 : t[j] = k
    <2>1. CASE k = n
      BY <1>1, <1>4, <2>1
    <2>2. CASE k # n
      <3>1. PICK j \in 1 .. N : s[j] = k
        BY <2>2 DEF InOrder, N
      <3>2. j + 1 \in 1 .. N + 1 /\ j + 1 # 1 /\ (j + 1) - 1 = j
        BY <1>1
      <3> QED
        BY <1>4, <3>1, <3>2
    <2> QED
      BY <2>1, <2>2
  <1>6. ASSUME NEW j \in 1 .. N + 1, NEW k \in 1 .. N + 1, t[j] = t[k] PROVE j = k
    <2>1. \A i \in 1 .. N + 1 : i # 1 => i - 1 \in 1 .. N
      BY <1>1
    <2>2. (j = 1 <=> t[j] = n) /\ (k = 1 <=> t[k] = n)
      BY <1>1, <1>4, <2>1
    <2>3. CASE j # 1 /\ k # 1
      <3>1. j - 1 = k - 1
        <4>1. j - 1 \in 1 .. N /\ k - 1 \in 1 .. N
          BY <2>1, <2>3
        <4>2. s[j - 1] = s[k - 1]
          BY <1>4, <1>6, <2>3
        <4> QED
          BY <4>1, <4>2 DEF InOrder, N
      <3> QED
        BY <1>1, <3>1
    <2> QED
      BY <1>6, <2>2, <2>3
  <1>7. t[1] = a.head
    BY <1>1, <1>3, <1>4
  <1>8. ASSUME NEW j \in 1 .. (N + 1) - 1 PROVE t[j + 1] = a.next[t[j]]
    <2>1. j \in 1 .. N /\ j \in 1 .. N + 1 /\ j + 1 \in 1 .. N + 1 /\ j + 1 # 1 /\ (j + 1) - 1 = j
      BY <1>1
    <2>2. t[j + 1] = s[j] /\ m # {}
      BY <1>1, <1>4, <2>1
    <2>3. CASE j = 1
      BY <1>2, <1>4, <2>1, <2>2, <2>3 DEF InOrder
    <2>4. CASE j # 1
      <3>1. j - 1 \in 1 .. N - 1 /\ (j - 1) + 1 = j /\ j - 1 \in 1 .. N
        BY <1>1, <2>1, <2>4
      <3>2. t[j] = s[j - 1] /\ s[j - 1] \in m
        BY <1>1, <1>4, <2>1, <2>4, <3>1
      <3>3. s[j] = l.next[s[j - 1]]
        BY <3>1 DEF InOrder, N
      <3> QED
        BY <1>2, <2>2, <3>2, <3>3
    <2> QED
      BY <2>3, <2>4
  <1> QED
    BY <1>4, <1>5, <1>6, <1>7, <1>8 DEF InOrder, a, t

-----------------------------------------------------------------------------
(* What the refinement needs beside Sure: the links give an order, what is
   no longer in the map is undefined, and the sweep deletes expired keys. *)
Ordered == InOrder(list, map, Order)
Erased == \A k \in Keys \ map : value[k] = Absent /\ left[k] = 0
SweepsExpired == \A k \in doomed : Expired(k)

Base == Sure /\ SizeBounded /\ Ordered /\ Erased /\ SweepsExpired

LEMMA OrderIs ==
  ASSUME NEW m \in SUBSET Keys, NEW l, NEW s, InOrder(l, m, s), map' = m, list' = l
  PROVE  Order' = s /\ Ordered'
  <1>1. Order' = s
    BY PathIs DEF Order
  <1> QED
    BY <1>1 DEF Ordered

LEMMA RangeIs ==
  ASSUME NEW m \in SUBSET Keys, NEW l, NEW s, InOrder(l, m, s)
  PROVE  Abstract!Range(s) = m
  <1>1. Len(s) \in Nat /\ s \in [1 .. Len(s) -> m] /\ DOMAIN s = 1 .. Len(s)
    BY OrderLength
  <1>2. \A k \in m : \E i \in 1 .. Len(s) : s[i] = k
    BY DEF InOrder
  <1> QED
    BY <1>1, <1>2 DEF Abstract!Range

(* Whether k is there or not, the order without it is that of the list
   without it. *)
LEMMA OrderWithout ==
  ASSUME Base, NEW k \in Keys
  PROVE  /\ InOrder(IF k \in map THEN RemoveNode(list, k) ELSE list, map \ {k}, Abstract!Without(k))
         /\ k \in map => \E i \in 1 .. Len(Order) :
                          Order[i] = k /\ Abstract!Without(k) = Without(Order, i)
         /\ Abstract!Held = map
  <1>1. map \in SUBSET Keys /\ list \in List /\ Linked(list, map) /\ InOrder(list, map, Order)
    BY DEF Base, Sure, Sound, TypeOK, Ordered
  <1>2. Abstract!Held = map
    BY <1>1, RangeIs DEF Abstract!Held
  <1>3. CASE k \in map
    <2>1. DOMAIN Order = 1 .. Len(Order)
      BY <1>1, OrderLength
    <2>2. \E i \in DOMAIN Order : Order[i] = k
      BY <1>1, <1>3, <2>1 DEF InOrder
    <2>3. PICK i \in 1 .. Len(Order) : i = Abstract!Place(k) /\ Order[i] = k
      BY <2>1, <2>2 DEF Abstract!Place
    <2>4. Abstract!Without(k) = Without(Order, i)
      BY <1>2, <1>3, <2>3 DEF Abstract!Without, Abstract!RemoveAt, Without
    <2>5. InOrder(RemoveNode(list, Order[i]), map \ {Order[i]}, Without(Order, i))
      BY <1>1, RemoveKeepsOrder
    <2> QED
      BY <1>2, <1>3, <2>3, <2>4, <2>5
  <1>4. CASE k \notin map
    <2>1. Abstract!Without(k) = Order /\ map \ {k} = map
      BY <1>2, <1>4 DEF Abstract!Without
    <2> QED
      BY <1>1, <1>2, <1>4, <2>1
  <1> QED
    BY <1>3, <1>4

(* A key moved to the head comes first in the order. *)
LEMMA OrderMoved ==
  ASSUME Base, NEW k \in map
  PROVE  InOrder(MoveToHead(list, k), map, <<k>> \o Abstract!Without(k))
  <1>1. map \in SUBSET Keys /\ list \in List /\ Sound(list, map) /\ InOrder(list, map, Order)
    BY DEF Base, Sure, Sound, TypeOK, Ordered
  <1>2. PICK i \in 1 .. Len(Order) : Order[i] = k /\ Abstract!Without(k) = Without(Order, i)
    BY <1>1, OrderWithout
  <1>3. CASE k = list.head
    <2>1. Len(Order) \in Nat /\ Order \in Seq(map) /\ 1 \in 1 .. Len(Order) /\ Order[1] = k
      BY <1>1, <1>3, OrderLength DEF InOrder
    <2>2. i = 1
      BY <1>1, <1>2, <2>1 DEF InOrder
    <2> DEFINE t == Without(Order, 1)
    <2>3. /\ t \in Seq(map) /\ Len(t) = Len(Order) - 1
          /\ \A j \in 1 .. Len(Order) - 1 : t[j] = Order[j + 1]
      BY <2>1, WithoutOne
    <2> HIDE DEF t
    <2>4. <<k>> \in Seq(map) /\ Len(<<k>>) = 1 /\ <<k>>[1] = k
      OBVIOUS
    <2>5. /\ <<k>> \o t \in Seq(map) /\ Len(<<k>> \o t) = 1 + Len(t)
          /\ \A j \in 1 .. 1 + Len(t) : (<<k>> \o t)[j] = IF j <= 1 THEN <<k>>[j] ELSE t[j - 1]
      BY <2>3, <2>4, ConcatProperties
    <2>6. Len(<<k>> \o t) = Len(Order)
      BY <2>1, <2>3, <2>5
    <2>7. ASSUME NEW j \in 1 .. Len(Order) PROVE (<<k>> \o t)[j] = Order[j]
      <3>1. CASE j = 1
        BY <2>1, <2>3, <2>4, <2>5, <3>1
      <3>2. CASE j # 1
        <4>1. j - 1 \in 1 .. Len(Order) - 1 /\ (j - 1) + 1 = j /\ ~(j <= 1) /\ j \in 1 .. 1 + Len(t)
          BY <2>1, <2>3, <3>2
        <4> QED
          BY <2>3, <2>5, <4>1
      <3> QED
        BY <3>1, <3>2
    <2>8. <<k>> \o t = Order
      BY <2>1, <2>5, <2>6, <2>7, SeqEqual
    <2>9. MoveToHead(list, k) = list
      BY <1>3 DEF MoveToHead
    <2> QED
      BY <1>1, <1>2, <2>2, <2>8, <2>9 DEF t
  <1>4. CASE k # list.head
    <2>1. MoveToHead(list, k) = AddToHead(RemoveNode(list, k), k)
      <3>1. list.prev[k] # Null /\ (k = list.tail <=> list.next[k] = Null)
        BY <1>1, <1>4 DEF Sound, Linked
      <3> QED
        BY <1>4, <3>1 DEF MoveToHead, RemoveNode
    <2>2. /\ RemoveNode(list, k) \in List
          /\ InOrder(RemoveNode(list, k), map \ {k}, Abstract!Without(k))
      BY <1>1, RemoveKeepsLinks, OrderWithout
    <2>3. map \ {k} \in SUBSET Keys /\ k \notin map \ {k} /\ (map \ {k}) \cup {k} = map /\ k \in Keys
      BY <1>1
    <2>4. InOrder(AddToHead(RemoveNode(list, k), k), (map \ {k}) \cup {k},
                  <<k>> \o Abstract!Without(k))
      BY <2>2, <2>3, AddKeepsOrder
    <2> QED
      BY <2>1, <2>3, <2>4
  <1> QED
    BY <1>3, <1>4

LEMMA DropStep ==
  ASSUME Base, NEW k \in map, Remove(k), doomed' \subseteq doomed \ {k}
  PROVE  Ordered' /\ Erased' /\ SweepsExpired' /\ Abstract!Drop(k)
  <1>1. map \in SUBSET Keys /\ k \in Keys
    BY DEF Base, Sure, TypeOK
  <1>2. map' = map \ {k} /\ list' = RemoveNode(list, k) /\ Erase({k})
    BY DEF Remove
  <1>3. Order' = Abstract!Without(k) /\ Ordered'
    <2>1. InOrder(RemoveNode(list, k), map \ {k}, Abstract!Without(k))
      BY <1>1, OrderWithout
    <2>2. map \ {k} \in SUBSET Keys
      BY <1>1
    <2> QED
      BY <1>2, <2>1, <2>2, OrderIs
  <1>4. value' = [value EXCEPT ![k] = Absent] /\ left' = [left EXCEPT ![k] = 0]
    BY <1>1, <1>2 DEF Erase, Base, Sure, TypeOK
  <1>5. Erased'
    BY <1>1, <1>2, <1>4 DEF Erased, Base, Sure, TypeOK
  <1>6. SweepsExpired'
    BY <1>1, <1>4 DEF SweepsExpired, Expired, Base, Sure, TypeOK
  <1> QED
    BY <1>3, <1>4, <1>5, <1>6 DEF Abstract!Drop

(* The entry of a key that is not in the map is gone already. *)
LEMMA NoDrop ==
  ASSUME Base, NEW k \in Keys \ map, UNCHANGED <<map, value, left, list>>, doomed' = {}
  PROVE  Ordered' /\ Erased' /\ SweepsExpired' /\ Abstract!Drop(k)
  <1>1. map \in SUBSET Keys /\ InOrder(list, map, Order)
    BY DEF Base, Sure, TypeOK, Ordered
  <1>2. Order' = Order /\ Ordered'
    BY <1>1, OrderIs
  <1>3. value[k] = Absent /\ left[k] = 0
    BY DEF Base, Erased
  <1>4. value' = [value EXCEPT ![k] = Absent] /\ left' = [left EXCEPT ![k] = 0]
    BY <1>3 DEF Base, Sure, TypeOK
  <1>5. Abstract!Without(k) = Order
    BY OrderWithout DEF Abstract!Without
  <1>6. Erased' /\ SweepsExpired'
    BY DEF Base, Erased, SweepsExpired
  <1> QED
    BY <1>2, <1>4, <1>5, <1>6 DEF Abstract!Drop

LEMMA GetImplements ==
  ASSUME Base, NEW k \in Keys, Get(k)
  PROVE  Ordered' /\ Erased' /\ SweepsExpired' /\ Abstract!Get(k)
  <1>1. map \in SUBSET Keys /\ InOrder(list, map, Order)
    BY DEF Base, Sure, TypeOK, Ordered
  <1>2. Abstract!Held = map /\ left \in [Keys -> Nat]
    BY OrderWithout DEF Base, Sure, TypeOK
  <1>3. doomed' = {} /\ SweepsExpired'
    BY DEF Get, SweepsExpired
  <1>4. CASE k \notin map
    <2>1. res' = Absent /\ UNCHANGED <<map, value, left, list>>
      BY <1>4 DEF Get
    <2>2. Ordered' /\ Erased' /\ SweepsExpired' /\ Abstract!Drop(k)
      BY <1>3, <1>4, <2>1, NoDrop
    <2> QED
      BY <1>2, <1>4, <2>1, <2>2 DEF Abstract!Get, Abstract!Live
  <1>5. CASE k \in map /\ Expired(k)
    <2>1. Remove(k) /\ res' = Absent /\ doomed' \subseteq doomed \ {k}
      BY <1>3, <1>5 DEF Get
    <2>2. Ordered' /\ Erased' /\ SweepsExpired' /\ Abstract!Drop(k)
      BY <1>5, <2>1, DropStep
    <2>3. ~Abstract!Live(k)
      BY <1>5 DEF Abstract!Live, Expired
    <2> QED
      BY <2>1, <2>2, <2>3 DEF Abstract!Get
  <1>6. CASE k \in map /\ ~Expired(k)
    <2>1. res' = value[k] /\ list' = MoveToHead(list, k) /\ UNCHANGED <<map, value, left>>
      BY <1>6 DEF Get
    <2>2. InOrder(MoveToHead(list, k), map, <<k>> \o Abstract!Without(k))
      BY <1>6, OrderMoved
    <2>3. Order' = <<k>> \o Abstract!Without(k) /\ Ordered'
      BY <1>1, <2>1, <2>2, OrderIs
    <2>4. Abstract!Live(k)
      BY <1>2, <1>6 DEF Abstract!Live, Expired
    <2>5. Erased'
      BY <2>1 DEF Base, Erased
    <2> QED
      BY <1>3, <2>1, <2>3, <2>4, <2>5 DEF Abstract!Get
  <1> QED
    BY <1>4, <1>5, <1>6

(* In a list in order the tail is the last. *)
LEMMA TailIsLast ==
  ASSUME NEW m \in SUBSET Keys, NEW l \in List, NEW s, Linked(l, m), InOrder(l, m, s), m # {}
  PROVE  /\ Len(s) \in 1 .. Len(s) /\ s[Len(s)] = l.tail
         /\ Without(s, Len(s)) = Abstract!Front(s)
  <1>1. Len(s) \in Nat /\ s \in [1 .. Len(s) -> m] /\ Len(s) > 0 /\ s \in Seq(m)
    BY OrderLength DEF InOrder
  <1>2. Len(s) \in 1 .. Len(s) /\ s[Len(s)] \in m
    BY <1>1
  <1>3. Follows(l, s)
    BY Neighbours
  <1>4. s[Len(s)] = l.tail
    BY <1>1, <1>2, <1>3 DEF Follows, Linked
  <1>5. Without(s, Len(s)) = Abstract!Front(s)
    <2>1. SubSeq(s, Len(s) + 1, Len(s)) = <<>>
      BY <1>1, SubSeqEmpty
    <2>2. SubSeq(s, 1, Len(s) - 1) \in Seq(m)
      BY <1>1
    <2>3. SubSeq(s, 1, Len(s) - 1) \o <<>> = SubSeq(s, 1, Len(s) - 1)
      BY <2>2, ConcatEmptySeq
    <2> QED
      BY <2>1, <2>3 DEF Without, Abstract!Front
  <1> QED
    BY <1>2, <1>4, <1>5

LEMMA SetImplements ==
  ASSUME Base, NEW k \in Keys, NEW v \in Values, NEW t \in Ttls, Set(k, v, t)
  PROVE  Ordered' /\ Erased' /\ SweepsExpired' /\ Abstract!Set(k, v, t)
  <1> DEFINE rest == Abstract!Without(k)
             kept == IF Len(rest) >= MaxEntries THEN Abstract!Front(rest) ELSE rest
             m1 == map \ {k}
             l1 == IF k \in map THEN RemoveNode(list, k) ELSE list
  <1>1. /\ map \in SUBSET Keys /\ list \in List /\ Sound(list, map) /\ InOrder(list, map, Order)
        /\ value \in [Keys -> Values \cup {Absent}] /\ left \in [Keys -> Nat]
    BY DEF Base, Sure, Sound, TypeOK, Ordered
  <1>2. m1 \in SUBSET Keys /\ InOrder(l1, m1, rest) /\ k \notin m1
    BY <1>1, OrderWithout
  <1>3. Len(rest) = Cardinality(m1) /\ Len(rest) \in Nat /\ (m1 # {} <=> Len(rest) > 0)
    BY <1>2, OrderLength
  <1>4. l1 \in List /\ Linked(l1, m1)
    <2>1. CASE k \in map
      BY <1>1, <2>1, RemoveKeepsLinks DEF Sound
    <2>2. CASE k \notin map
      <3>1. m1 = map /\ l1 = list
        BY <2>2
      <3> QED
        BY <1>1, <3>1 DEF Sound
    <2> QED
      BY <2>1, <2>2
  <1>5. doomed' = {} /\ res' = res
    BY DEF Set
  <1>6. SweepsExpired'
    BY <1>5 DEF SweepsExpired
  <1>7. CASE k \in map /\ ~Expired(k)
    <2>1. /\ list' = MoveToHead(list, k) /\ map' = map
          /\ value' = [value EXCEPT ![k] = v] /\ left' = [left EXCEPT ![k] = t]
      BY <1>7 DEF Set
    <2>2. Order' = <<k>> \o rest /\ Ordered'
      BY <1>1, <1>7, <2>1, OrderMoved, OrderIs
    <2>3. Len(rest) < MaxEntries
      <3>1. IsFiniteSet(map) /\ Cardinality(map) \in Nat
        BY <1>1, KeysFinite, FS_Subset, FS_CardinalityType
      <3>2. Cardinality(m1) = Cardinality(map) - 1
        BY <1>7, <3>1, FS_RemoveElement
      <3> QED
        BY <1>3, <3>1, <3>2, MaxEntriesType DEF Base, SizeBounded
    <2>4. kept = rest /\ Abstract!Range(kept) = m1
      <3>1. kept = rest
        BY <1>3, <2>3, MaxEntriesType
      <3> HIDE DEF kept, rest, m1, l1
      <3> QED
        BY <1>2, <3>1, RangeIs
    <2>5. Erased'
      BY <1>1, <1>7, <2>1 DEF Base, Erased
    <2>6. /\ value' = [j \in Keys |-> IF j = k THEN v
                                      ELSE IF j \in m1 THEN value[j] ELSE Absent]
          /\ left' = [j \in Keys |-> IF j = k THEN t ELSE IF j \in m1 THEN left[j] ELSE 0]
      BY <1>1, <1>7, <2>1 DEF Base, Erased
    <2> QED
      BY <1>5, <1>6, <2>2, <2>4, <2>5, <2>6 DEF Abstract!Set
  <1>8. CASE ~(k \in map /\ ~Expired(k))
    <2> DEFINE evict == IF Full(m1) /\ l1.tail # Null THEN {l1.tail} ELSE {}
               l2 == IF evict = {} THEN l1 ELSE RemoveNode(l1, l1.tail)
    <2>1. /\ map' = (m1 \ evict) \cup {k} /\ list' = AddToHead(l2, k)
          /\ value' = [j \in Keys |-> IF j = k THEN v
                                      ELSE IF j \in evict THEN Absent ELSE value[j]]
          /\ left' = [j \in Keys |-> IF j = k THEN t ELSE IF j \in evict THEN 0 ELSE left[j]]
      BY <1>8 DEF Set
    <2>2. Full(m1) <=> Len(rest) >= MaxEntries
      BY <1>3 DEF Full
    <2> HIDE DEF rest, m1, l1
    <2>3. l2 \in List /\ InOrder(l2, m1 \ evict, kept)
      <3>1. CASE Full(m1)
        <4>1. m1 # {} /\ l1.tail \in m1 /\ l1.tail # Null
          BY <1>2, <1>3, <1>4, <2>2, <3>1, MaxEntriesType, NullIsNoKey DEF Linked
        <4>2. evict = {l1.tail} /\ l2 = RemoveNode(l1, l1.tail)
          BY <3>1, <4>1
        <4>3. /\ Len(rest) \in 1 .. Len(rest) /\ rest[Len(rest)] = l1.tail
              /\ Without(rest, Len(rest)) = kept
          BY <1>2, <1>4, <2>2, <3>1, <4>1, TailIsLast
        <4>4. InOrder(RemoveNode(l1, rest[Len(rest)]), m1 \ {rest[Len(rest)]},
                      Without(rest, Len(rest)))
          BY <1>2, <1>4, <4>3, RemoveKeepsOrder
        <4>5. RemoveNode(l1, l1.tail) \in List
          BY <1>2, <1>4, <4>1, NullIsNoKey DEF RemoveNode, Assign, List, Pointer
        <4> QED
          BY <4>2, <4>3, <4>4, <4>5
      <3>2. CASE ~Full(m1)
        <4>1. evict = {} /\ l2 = l1 /\ kept = rest /\ m1 \ evict = m1
          BY <2>2, <3>2
        <4> QED
          BY <1>2, <1>4, <4>1
      <3> QED
        BY <3>1, <3>2
    <2> HIDE DEF l2, evict, kept
    <2>4. m1 \ evict \in SUBSET Keys /\ k \notin m1 \ evict
      BY <1>2
    <2>5. Order' = <<k>> \o kept /\ Ordered'
      <3>1. InOrder(list', map', <<k>> \o kept)
        BY <2>1, <2>3, <2>4, AddKeepsOrder
      <3>2. map' \in SUBSET Keys
        BY <2>1, <2>4
      <3>3. PICK m \in SUBSET Keys : m = map'
        BY <3>2
      <3>4. PICK l : l = list'
        OBVIOUS
      <3> QED
        BY <3>1, <3>3, <3>4, OrderIs
    <2>6. Abstract!Range(kept) = m1 \ evict
      BY <2>3, <2>4, RangeIs
    <2>7. \A j \in Keys : j # k /\ j \notin m1 => value[j] = Absent /\ left[j] = 0
      BY DEF Base, Erased, m1
    <2>8. Erased'
      BY <2>1, <2>7 DEF Erased
    <2>9. /\ value' = [j \in Keys |-> IF j = k THEN v
                                      ELSE IF j \in m1 \ evict THEN value[j] ELSE Absent]
          /\ left' = [j \in Keys |-> IF j = k THEN t
                                     ELSE IF j \in m1 \ evict THEN left[j] ELSE 0]
      BY <1>1, <2>1, <2>7
    <2> USE DEF rest, kept
    <2> QED
      BY <1>5, <1>6, <2>5, <2>6, <2>8, <2>9 DEF Abstract!Set
  <1> QED
    BY <1>7, <1>8

LEMMA ClearImplements ==
  ASSUME Base, Clear
  PROVE  Ordered' /\ Erased' /\ SweepsExpired' /\ Abstract!Clear
  <1>1. /\ map' = {} /\ list' = [list EXCEPT !.head = Null, !.tail = Null]
        /\ doomed' = {} /\ UNCHANGED res
    BY DEF Clear
  <1>2. value' = [k \in Keys |-> Absent] /\ left' = [k \in Keys |-> 0]
    BY DEF Clear, Erase
  <1>3. InOrder(list', {}, <<>>)
    BY DEF InOrder
  <1>4. Order' = <<>> /\ Ordered'
    <2>1. PICK l : l = list'
      OBVIOUS
    <2> QED
      BY <1>1, <1>3, <2>1, OrderIs
  <1> QED
    BY <1>1, <1>2, <1>4 DEF Erased, SweepsExpired, Abstract!Clear

LEMMA StepImplements ==
  ASSUME Base, [Next]_vars
  PROVE  Ordered' /\ Erased' /\ SweepsExpired' /\ [Abstract!Next]_(Abstract!vars)
  <1>1. map \in SUBSET Keys /\ InOrder(list, map, Order)
    BY DEF Base, Sure, TypeOK, Ordered
  <1>2. ASSUME UNCHANGED <<map, list>> PROVE Order' = Order /\ Ordered'
    BY <1>1, <1>2, OrderIs
  <1>3. ASSUME NEW k \in Keys, Delete(k)
        PROVE  Ordered' /\ Erased' /\ SweepsExpired' /\ Abstract!Delete(k)
    <2>1. Abstract!Held = map
      BY OrderWithout
    <2>2. CASE k \in map
      <3>1. Remove(k) /\ doomed' \subseteq doomed \ {k} /\ res' = (k \in map)
        BY <1>3, <2>2 DEF Delete
      <3>2. Ordered' /\ Erased' /\ SweepsExpired' /\ Abstract!Drop(k)
        BY <2>2, <3>1, DropStep
      <3> QED
        BY <2>1, <3>1, <3>2 DEF Abstract!Delete
    <2>3. CASE k \notin map
      <3>1. /\ UNCHANGED <<map, value, left, list>> /\ doomed' = {} /\ res' = (k \in map)
        BY <1>3, <2>3 DEF Delete
      <3>2. Ordered' /\ Erased' /\ SweepsExpired' /\ Abstract!Drop(k)
        BY <2>3, <3>1, NoDrop
      <3> QED
        BY <2>1, <3>1, <3>2 DEF Abstract!Delete
    <2> QED
      BY <2>2, <2>3
  <1>4. ASSUME NEW k \in Keys, SweepDelete(k)
        PROVE  Ordered' /\ Erased' /\ SweepsExpired' /\ Abstract!Forget(k)
    <2>1. k \in map /\ Remove(k) /\ doomed' \subseteq doomed \ {k} /\ UNCHANGED res
      BY <1>4 DEF SweepDelete, Base, Sure, TypeOK
    <2>2. k \in Abstract!Held /\ ~Abstract!Live(k)
      <3>1. left[k] = 0
        BY <1>4 DEF SweepDelete, Base, SweepsExpired, Expired
      <3>2. Abstract!Held = map
        BY OrderWithout
      <3> QED
        BY <2>1, <3>1, <3>2 DEF Abstract!Live
    <2> QED
      BY <2>1, <2>2, DropStep DEF Abstract!Forget
  <1>5. CASE Sweep
    <2>1. UNCHANGED <<map, value, left, list, res>> /\ doomed' = {k \in map : Expired(k)}
      BY <1>5 DEF Sweep
    <2>2. Order' = Order /\ Ordered'
      BY <1>2, <2>1
    <2>3. Erased' /\ SweepsExpired'
      BY <2>1 DEF Base, Erased, SweepsExpired, Expired
    <2> QED
      BY <2>1, <2>2, <2>3 DEF Abstract!vars
  <1>6. CASE Tick
    <2>1. /\ left' = [k \in Keys |-> IF left[k] > 0 THEN left[k] - 1 ELSE 0]
          /\ UNCHANGED <<map, value, list, doomed, res>> /\ doomed = {}
      BY <1>6 DEF Tick
    <2>2. Order' = Order /\ Ordered'
      BY <1>2, <2>1
    <2>3. Erased' /\ SweepsExpired'
      BY <1>1, <2>1 DEF Base, Erased, SweepsExpired
    <2>4. Abstract!Tick
      BY <2>1, <2>2 DEF Abstract!Tick
    <2> QED
      BY <2>2, <2>3, <2>4 DEF Abstract!Next
  <1>7. CASE UNCHANGED vars
    <2>1. UNCHANGED <<map, value, left, list, doomed, res>>
      BY <1>7 DEF vars
    <2>2. Order' = Order /\ Ordered'
      BY <1>2, <2>1
    <2>3. Erased' /\ SweepsExpired'
      BY <2>1 DEF Base, Erased, SweepsExpired, Expired
    <2> QED
      BY <2>1, <2>2, <2>3 DEF Abstract!vars
  <1> QED
    BY <1>3, <1>4, <1>5, <1>6, <1>7, GetImplements, SetImplements, ClearImplements
    DEF Next, Abstract!Next

(* For every set of keys, every limit and all times to live, the linked list
   of lru-cache.ts implements the map that forgets the least recently used
   entry: each method answers and changes what that map does. *)
THEOREM ImplementsLru == Spec => IsLru
  <1>1. Init => Ordered /\ Erased /\ SweepsExpired /\ Abstract!Init
    <2> SUFFICES ASSUME Init PROVE Ordered /\ Erased /\ SweepsExpired /\ Abstract!Init
      OBVIOUS
    <2>1. InOrder(list, {}, <<>>)
      BY DEF InOrder
    <2>2. Order = <<>>
      BY <2>1, PathIs DEF Init, Order
    <2> QED
      BY <2>1, <2>2 DEF Init, Ordered, Erased, SweepsExpired, Abstract!Init
  <1>2. Spec => [](Ordered /\ Erased /\ SweepsExpired)
    <2>1. Ordered /\ Erased /\ SweepsExpired /\ Sure /\ SizeBounded /\ [Next]_vars
          => (Ordered /\ Erased /\ SweepsExpired)'
      BY StepImplements DEF Base
    <2> QED
      BY <1>1, <2>1, Soundness, Bounded, PTL DEF Spec
  <1>3. Ordered /\ Erased /\ SweepsExpired /\ Sure /\ SizeBounded /\ [Next]_vars
        => [Abstract!Next]_(Abstract!vars)
    BY StepImplements DEF Base
  <1> QED
    BY <1>1, <1>2, <1>3, Soundness, Bounded, PTL DEF Spec, IsLru, Abstract!Spec
=============================================================================

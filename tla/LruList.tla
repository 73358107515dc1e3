------------------------------- MODULE LruList -------------------------------
(***************************************************************************)
(* lru-cache.ts as it is written: a Map from keys to the nodes of a doubly *)
(* linked list, most recently used at the head.  A node is named by its    *)
(* key.  Removing a node leaves its own links as they were.                *)
(*                                                                         *)
(* Every method runs to its end; the loop of the sweep is cut into its     *)
(* iterations, during which no other method runs.                          *)
(***************************************************************************)
EXTENDS Naturals, FiniteSets, Sequences

CONSTANTS
  Keys, Values,
  Ttls,        \* times to live, in ticks
  MaxEntries,  \* maxEntries
  Null,        \* no node
  Absent       \* undefined

ASSUME KeysFinite == IsFiniteSet(Keys)
ASSUME MaxEntriesType == MaxEntries \in Nat \ {0}
ASSUME TtlsType == Ttls \subseteq Nat
ASSUME NullIsNoKey == Null \notin Keys

VARIABLES
  map,     \* the keys of map
  value, left,  \* value[k], and the time until node k expires
  list,    \* head and tail, and the links of the nodes
  doomed,  \* keysToDelete still to be deleted by the sweep
  res      \* what the last get or delete returned

vars == <<map, value, left, list, doomed, res>>

Pointer == Keys \cup {Null}
List == [head : Pointer, tail : Pointer, prev : [Keys -> Pointer], next : [Keys -> Pointer]]

TypeOK ==
  /\ map \subseteq Keys
  /\ value \in [Keys -> Values \cup {Absent}]
  /\ left \in [Keys -> Nat]
  /\ list \in List
  /\ doomed \subseteq map
  /\ res \in Values \cup {Absent} \cup BOOLEAN

Unlinked == [k \in Keys |-> Null]

Init ==
  /\ map = {}
  /\ value = [k \in Keys |-> Absent]
  /\ left = [k \in Keys |-> 0]
  /\ list = [head |-> Null, tail |-> Null, prev |-> Unlinked, next |-> Unlinked]
  /\ doomed = {}
  /\ res = Absent

-----------------------------------------------------------------------------
(* The list operations.                                                    *)

(* f with f[p] = v, unless p is null. *)
Assign(f, p, v) == IF p = Null THEN f ELSE [f EXCEPT ![p] = v]

AddToHead(l, n) ==
  [head |-> n,
   tail |-> IF l.tail = Null THEN n ELSE l.tail,
   prev |-> Assign([l.prev EXCEPT ![n] = Null], l.head, n),
   next |-> [l.next EXCEPT ![n] = l.head]]

\* Mutant: the tail is not moved when the last node goes.
RemoveNodeKeepsTail(l, n) ==
  [head |-> IF l.prev[n] = Null THEN l.next[n] ELSE l.head,
   tail |-> l.tail,
   prev |-> Assign(l.prev, l.next[n], l.prev[n]),
   next |-> Assign(l.next, l.prev[n], l.next[n])]

RemoveNode(l, n) ==
  [head |-> IF l.prev[n] = Null THEN l.next[n] ELSE l.head,
   tail |-> IF l.next[n] = Null THEN l.prev[n] ELSE l.tail,
   prev |-> Assign(l.prev, l.next[n], l.prev[n]),
   next |-> Assign(l.next, l.prev[n], l.next[n])]

\* Mutant: the old head is not linked back.
MoveToHeadOneWay(l, n) ==
  IF n = l.head THEN l
  ELSE LET removed == [head |-> l.head,
                       tail |-> IF n = l.tail THEN l.prev[n] ELSE l.tail,
                       prev |-> Assign(l.prev, l.next[n], l.prev[n]),
                       next |-> Assign(l.next, l.prev[n], l.next[n])]
       IN  [head |-> n, tail |-> removed.tail,
            prev |-> [removed.prev EXCEPT ![n] = Null],
            next |-> [removed.next EXCEPT ![n] = l.head]]

(* A node that is not the head is unlinked and put before the head. *)
MoveToHead(l, n) ==
  IF n = l.head THEN l
  ELSE AddToHead([head |-> l.head,
                  tail |-> IF n = l.tail THEN l.prev[n] ELSE l.tail,
                  prev |-> Assign(l.prev, l.next[n], l.prev[n]),
                  next |-> Assign(l.next, l.prev[n], l.next[n])], n)

-----------------------------------------------------------------------------
(* The methods.                                                            *)

Expired(k) == left[k] = 0

(* map.delete and what it makes unreachable. *)
Erase(S) ==
  /\ value' = [k \in Keys |-> IF k \in S THEN Absent ELSE value[k]]
  /\ left' = [k \in Keys |-> IF k \in S THEN 0 ELSE left[k]]

Remove(k) ==
  /\ map' = map \ {k}
  /\ list' = RemoveNode(list, k)
  /\ Erase({k})

Get(k) ==
  /\ doomed = {}
  /\ \/ /\ k \notin map
        /\ res' = Absent /\ UNCHANGED <<map, value, left, list>>
     \/ /\ k \in map /\ Expired(k)
        /\ res' = Absent /\ Remove(k)
     \/ /\ k \in map /\ ~Expired(k)
        /\ res' = value[k] /\ list' = MoveToHead(list, k)
        /\ UNCHANGED <<map, value, left>>
  /\ UNCHANGED doomed

Full(S) == Cardinality(S) >= MaxEntries

(* An entry that exists and has not expired is updated; an expired one is
   removed first, and then a new node is made, for which the tail gives way
   if the map is full. *)
Set(k, v, t) ==
  /\ doomed = {}
  /\ IF k \in map /\ ~Expired(k)
       THEN /\ list' = MoveToHead(list, k)
            /\ value' = [value EXCEPT ![k] = v]
            /\ left' = [left EXCEPT ![k] = t]
            /\ UNCHANGED map
       ELSE LET m1 == map \ {k}
                l1 == IF k \in map THEN RemoveNode(list, k) ELSE list
                evict == IF Full(m1) /\ l1.tail # Null THEN {l1.tail} ELSE {}
                l2 == IF evict = {} THEN l1 ELSE RemoveNode(l1, l1.tail)
            IN  /\ map' = (m1 \ evict) \cup {k}
                /\ list' = AddToHead(l2, k)
                /\ value' = [j \in Keys |-> IF j = k THEN v
                                            ELSE IF j \in evict THEN Absent ELSE value[j]]
                /\ left' = [j \in Keys |-> IF j = k THEN t
                                           ELSE IF j \in evict THEN 0 ELSE left[j]]
  /\ UNCHANGED <<doomed, res>>

\* Mutant: a delete comes between two iterations of the sweep.
DeleteDuringSweep(k) ==
  /\ k \in map
  /\ Remove(k)
  /\ UNCHANGED <<doomed, res>>

(* A delete tells whether the key was found, expired or not. *)
Delete(k) ==
  /\ doomed = {}
  /\ res' = (k \in map)
  /\ IF k \in map THEN Remove(k) ELSE UNCHANGED <<map, value, left, list>>
  /\ UNCHANGED doomed

Clear ==
  /\ doomed = {}
  /\ map' = {}
  /\ list' = [list EXCEPT !.head = Null, !.tail = Null]
  /\ Erase(Keys)
  /\ UNCHANGED <<doomed, res>>

\* Mutant: the sweep does not look at the time.
SweepAll ==
  /\ doomed = {}
  /\ doomed' = map
  /\ UNCHANGED <<map, value, left, list, res>>

(* The sweep collects the expired keys, then deletes them one by one. *)
Sweep ==
  /\ doomed = {}
  /\ doomed' = {k \in map : Expired(k)}
  /\ UNCHANGED <<map, value, left, list, res>>

SweepDelete(k) ==
  /\ k \in doomed
  /\ doomed' = doomed \ {k}
  /\ Remove(k)
  /\ UNCHANGED res

Tick ==
  /\ doomed = {}
  /\ left' = [k \in Keys |-> IF left[k] > 0 THEN left[k] - 1 ELSE 0]
  /\ UNCHANGED <<map, value, list, doomed, res>>

Next ==
  \/ \E k \in Keys : Get(k) \/ Delete(k) \/ SweepDelete(k)
  \/ \E k \in Keys, v \in Values, t \in Ttls : Set(k, v, t)
  \/ Clear \/ Sweep \/ Tick

Spec == Init /\ [][Next]_vars

-----------------------------------------------------------------------------
(* The links are those of one doubly linked list of exactly the keys of the
   map: head and tail are its ends, and every link has its counterpart. *)
Linked(l, m) ==
  /\ l.head \in m \cup {Null} /\ l.tail \in m \cup {Null}
  /\ (l.head = Null <=> m = {}) /\ (l.tail = Null <=> m = {})
  /\ \A k \in m :
       /\ l.prev[k] \in m \cup {Null} /\ l.next[k] \in m \cup {Null}
       /\ (l.prev[k] = Null <=> k = l.head)
       /\ (l.next[k] = Null <=> k = l.tail)
       /\ l.prev[k] # Null => l.next[l.prev[k]] = k
       /\ l.next[k] # Null => l.prev[l.next[k]] = k

(* After any sequence of gets, sets, deletes, sweeps and clears the list and
   the map hold the same entries and no link dangles. *)
ListMatchesMap == Linked(list, map)

(* The map never holds more than maxEntries entries. *)
SizeBounded == Cardinality(map) <= MaxEntries

(* The keys met from the head along next, one for each key of the map. *)
Path(l, m) ==
  CHOOSE s \in [1 .. Cardinality(m) -> m] :
    /\ m # {} => s[1] = l.head
    /\ \A i \in 1 .. Cardinality(m) - 1 : s[i + 1] = l.next[s[i]]

Order == Path(list, map)

Abstract == INSTANCE LruCache WITH order <- Order

(* The list implements the bounded map that forgets the least recently used
   entry: every get and every delete answers what that map answers, and by
   itself nothing goes before its time. *)
IsLru == Abstract!Spec
=============================================================================

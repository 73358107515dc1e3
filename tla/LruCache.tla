------------------------------ MODULE LruCache ------------------------------
(***************************************************************************)
(* What lru-cache.ts promises: a bounded map whose entries expire, and     *)
(* which makes room by giving up the entry that was used least recently.   *)
(* The order of use is a sequence, the most recent first.                  *)
(***************************************************************************)
EXTENDS Naturals, Sequences, SequencesExt

CONSTANTS Keys, Values, Ttls, MaxEntries, Absent

VARIABLES
  order,   \* the keys held, most recently used first
  value,   \* value[k], Absent for a key that is not held
  left,    \* left[k]: time until the entry of k expires
  res      \* what the last get or delete answered

vars == <<order, value, left, res>>

Held == Range(order)
Live(k) == k \in Held /\ left[k] > 0
Place(k) == CHOOSE i \in DOMAIN order : order[i] = k
Without(k) == IF k \in Held THEN RemoveAt(order, Place(k)) ELSE order

Init ==
  /\ order = <<>>
  /\ value = [k \in Keys |-> Absent]
  /\ left = [k \in Keys |-> 0]
  /\ res = Absent

(* The entry of k goes. *)
Drop(k) ==
  /\ order' = Without(k)
  /\ value' = [value EXCEPT ![k] = Absent]
  /\ left' = [left EXCEPT ![k] = 0]

(* By itself only an entry that has expired goes, at any time. *)
Forget(k) == k \in Held /\ ~Live(k) /\ Drop(k) /\ UNCHANGED res

(* On request any entry does; a delete answers whether there was one. *)
Delete(k) == Drop(k) /\ res' = (k \in Held)

(* A get answers a live entry, and that counts as a use. *)
Get(k) ==
  IF Live(k)
    THEN res' = value[k] /\ order' = <<k>> \o Without(k) /\ UNCHANGED <<value, left>>
    ELSE res' = Absent /\ Drop(k)

(* A set makes k the most recent; if k is new and the map is full, the
   least recent of all gives way. *)
Set(k, v, t) ==
  LET rest == Without(k)
      kept == IF Len(rest) >= MaxEntries THEN Front(rest) ELSE rest
  IN  /\ order' = <<k>> \o kept
      /\ value' = [j \in Keys |-> IF j = k THEN v
                                  ELSE IF j \in Range(kept) THEN value[j] ELSE Absent]
      /\ left' = [j \in Keys |-> IF j = k THEN t
                                 ELSE IF j \in Range(kept) THEN left[j] ELSE 0]
      /\ UNCHANGED res

Clear ==
  /\ order' = <<>>
  /\ value' = [k \in Keys |-> Absent]
  /\ left' = [k \in Keys |-> 0]
  /\ UNCHANGED res

Tick ==
  /\ left' = [k \in Keys |-> IF left[k] > 0 THEN left[k] - 1 ELSE 0]
  /\ UNCHANGED <<order, value, res>>

Next ==
  \/ \E k \in Keys : Get(k) \/ Delete(k) \/ Forget(k)
  \/ \E k \in Keys, v \in Values, t \in Ttls : Set(k, v, t)
  \/ Clear \/ Tick

Spec == Init /\ [][Next]_vars
=============================================================================

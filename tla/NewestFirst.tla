----------------------------- MODULE NewestFirst -----------------------------
(***************************************************************************)
(* What the index of a user's avatar versions, or of the backups, promises *)
(* (avatar-versioning.ts 4 and 33, backup-system.ts 41): a list, newest    *)
(* first, of the last Max snapshots that nobody deleted.                   *)
(***************************************************************************)
EXTENDS Naturals, Sequences

CONSTANTS Ids, Max

VARIABLE list

Init == list = <<>>

(* A snapshot newer than all listed ones; beyond Max the oldest one goes. *)
Add(i) ==
  /\ \A k \in DOMAIN list : list[k] < i
  /\ list' = SubSeq(<<i>> \o list, 1, IF Len(list) < Max THEN Len(list) + 1 ELSE Max)

(* Somebody deletes i. *)
Drop(i) ==
  \E k \in DOMAIN list :
    /\ list[k] = i
    /\ list' = SubSeq(list, 1, k - 1) \o SubSeq(list, k + 1, Len(list))

Next == \E i \in Ids : Add(i) \/ Drop(i)

Spec == Init /\ [][Next]_list
=============================================================================

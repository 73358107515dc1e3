------------------------------ MODULE FileIndex ------------------------------
(***************************************************************************)
(* A directory of snapshots and the JSON file that lists them, newest      *)
(* first: the versions of one user's avatar (avatar-versioning.ts), or the *)
(* backups (backup-system.ts), which work the same way.                    *)
(*                                                                         *)
(* Operations are processes that await between the steps below; nothing    *)
(* locks the index.  They run in several workers, any of which may die.    *)
(* An index that is missing, empty or not JSON reads as the empty list.    *)
(***************************************************************************)
EXTENDS Naturals, Sequences, FiniteSets

CONSTANTS
  Procs,   \* slots for operations under way
  Max,     \* maxVersions, maxBackups
  MaxIds   \* bound on the snapshots taken

ASSUME MaxType == Max \in Nat \ {0}
ASSUME MaxIdsType == MaxIds \in Nat

Ids == 1 .. MaxIds
Broken == <<0>>   \* an index file that is not JSON

VARIABLES
  alone,  \* operations neither overlap nor fail
  clock,  \* the id of the latest snapshot; ids are times
  clash,  \* history: two snapshots were given one id, in one millisecond
  files,  \* files[i]: "absent", "partial" or "whole"
  index,  \* what the JSON file lists
  pc, op, id, \* where operation p is, what it does, to which snapshot
  list,   \* list[p]: the list it will write
  doomed  \* doomed[p]: the files it will unlink

disk == <<files, index>>
mem  == <<id, list, doomed>>
vars == <<alone, clock, clash, disk, pc, op, mem>>

TypeOK ==
  /\ alone \in BOOLEAN
  /\ clock \in 0 .. MaxIds
  /\ clash \in BOOLEAN
  /\ files \in [Ids -> {"absent", "partial", "whole"}]
  /\ index \in Seq(Ids) \cup {Broken}
  /\ pc \in [Procs -> {"idle", "start", "copying", "copied", "unlink", "write",
                       "writing", "found", "restoring"}]
  /\ op \in [Procs -> {"none", "create", "delete", "restore"}]
  /\ id \in [Procs -> 0 .. MaxIds]
  /\ list \in [Procs -> Seq(Ids)]
  /\ doomed \in [Procs -> Seq(Ids)]

Init ==
  /\ alone \in BOOLEAN
  /\ clock = 0
  /\ clash = FALSE
  /\ files = [i \in Ids |-> "absent"]
  /\ index = <<>>
  /\ pc = [p \in Procs |-> "idle"]
  /\ op = [p \in Procs |-> "none"]
  /\ id = [p \in Procs |-> 0]
  /\ list = [p \in Procs |-> <<>>]
  /\ doomed = [p \in Procs |-> <<>>]

-----------------------------------------------------------------------------
At(p, o, l) == op[p] = o /\ pc[p] = l

Go(p, l) == pc' = [pc EXCEPT ![p] = l] /\ UNCHANGED op

(* Operation p has ended, well or not. *)
End(p) ==
  /\ pc' = [pc EXCEPT ![p] = "idle"]
  /\ op' = [op EXCEPT ![p] = "none"]
  /\ id' = [id EXCEPT ![p] = 0]
  /\ list' = [list EXCEPT ![p] = <<>>]
  /\ doomed' = [doomed EXCEPT ![p] = <<>>]

Others(p, l) == {q \in Procs \ {p} : pc[q] = l /\ id[q] = id[p]}

Listed == {index[k] : k \in DOMAIN index}

-----------------------------------------------------------------------------
(* snapshot, runBackup: the id is the time, to the millisecond. *)
Create(p) ==
  /\ pc[p] = "idle"
  /\ alone => \A q \in Procs : pc[q] = "idle"
  /\ \E i \in {clock + 1} \cup (IF alone THEN {} ELSE {clock}) :
       /\ i \in Ids
       /\ clock' = i
       /\ clash' = (clash \/ i = clock)
       /\ id' = [id EXCEPT ![p] = i]
  /\ pc' = [pc EXCEPT ![p] = "start"]
  /\ op' = [op EXCEPT ![p] = "create"]
  /\ UNCHANGED <<alone, disk, list, doomed>>

(* deleteVersion, restoreVersion, deleteBackup, restoreBackup, of an id the
   client has seen. *)
Invoke(p, o, i) ==
  /\ pc[p] = "idle"
  /\ alone => \A q \in Procs : pc[q] = "idle"
  /\ i <= clock
  /\ id' = [id EXCEPT ![p] = i]
  /\ pc' = [pc EXCEPT ![p] = "start"]
  /\ op' = [op EXCEPT ![p] = o]
  /\ UNCHANGED <<alone, clock, clash, disk, list, doomed>>

(* No avatar to take: a version is not made, silently; a backup has no
   archive, whose stat rejects unless somebody made one of that name. *)
NothingToTake(p) ==
  /\ At(p, "create", "start")
  /\ \/ End(p)
     \/ files[id[p]] # "absent" /\ Go(p, "copied") /\ UNCHANGED mem
  /\ UNCHANGED <<alone, clock, clash, disk>>

(* copyFile, createWriteStream: the file is there before its content. *)
CopyBegin(p) ==
  /\ At(p, "create", "start")
  /\ files' = [files EXCEPT ![id[p]] = "partial"]
  /\ Go(p, "copying")
  /\ UNCHANGED <<alone, clock, clash, index, mem>>

(* Two at once into one file leave either's content, or a mixture. *)
CopyEnd(p) ==
  /\ At(p, "create", "copying")
  /\ \E c \in {"whole"} \cup (IF Others(p, "copying") = {} THEN {} ELSE {"partial"}) :
       files' = IF files[id[p]] = "absent" THEN files ELSE [files EXCEPT ![id[p]] = c]
  /\ Go(p, "copied")
  /\ UNCHANGED <<alone, clock, clash, index, mem>>

(* The copy fails: copyFile removes what it wrote, createArchive does not. *)
CopyFails(p) ==
  /\ ~alone
  /\ At(p, "create", "copying")
  /\ \/ files' = [files EXCEPT ![id[p]] = "absent"]
     \/ UNCHANGED files
  /\ End(p)
  /\ UNCHANGED <<alone, clock, clash, index>>

-----------------------------------------------------------------------------
\* Mutant: what is not JSON is taken for a list.
ReadUnchecked == index

(* readMeta, readIndex. *)
Read == IF index = Broken THEN <<>> ELSE index

Kept(s, n) == IF Len(s) > n THEN n ELSE Len(s)

\* Mutant: the new entry is pushed to the end of the list.
ListPushed(p) ==
  LET all == Append(Read, id[p]) IN
  /\ At(p, "create", "copied")
  /\ list' = [list EXCEPT ![p] = SubSeq(all, 1, Kept(all, Max))]
  /\ doomed' = [doomed EXCEPT ![p] = SubSeq(all, Kept(all, Max) + 1, Len(all))]
  /\ Go(p, IF Len(all) > Max THEN "unlink" ELSE "write")
  /\ UNCHANGED <<alone, clock, clash, disk, id>>

\* Mutant: the snapshot is listed while it is still being copied.
ListEarly(p) ==
  LET all == <<id[p]>> \o Read IN
  /\ op[p] = "create" /\ pc[p] \in {"copying", "copied"}
  /\ list' = [list EXCEPT ![p] = SubSeq(all, 1, Kept(all, Max))]
  /\ doomed' = [doomed EXCEPT ![p] = SubSeq(all, Kept(all, Max) + 1, Len(all))]
  /\ Go(p, IF Len(all) > Max THEN "unlink" ELSE "write")
  /\ UNCHANGED <<alone, clock, clash, disk, id>>

(* The new entry goes in front; what lies beyond Max is doomed. *)
ListNew(p) ==
  LET all == <<id[p]>> \o Read IN
  /\ At(p, "create", "copied")
  /\ list' = [list EXCEPT ![p] = SubSeq(all, 1, Kept(all, Max))]
  /\ doomed' = [doomed EXCEPT ![p] = SubSeq(all, Kept(all, Max) + 1, Len(all))]
  /\ Go(p, IF Len(all) > Max THEN "unlink" ELSE "write")
  /\ UNCHANGED <<alone, clock, clash, disk, id>>

NotFound(p) ==
  /\ pc[p] = "start" /\ op[p] \in {"delete", "restore"}
  /\ \A k \in DOMAIN Read : Read[k] # id[p]
  /\ End(p)
  /\ UNCHANGED <<alone, clock, clash, disk>>

(* The first entry with that id is taken out of the list. *)
Unlist(p) ==
  /\ At(p, "delete", "start")
  /\ \E k \in DOMAIN Read :
       /\ Read[k] = id[p] /\ \A j \in 1 .. k - 1 : Read[j] # id[p]
       /\ list' = [list EXCEPT ![p] = SubSeq(Read, 1, k - 1) \o SubSeq(Read, k + 1, Len(Read))]
  /\ doomed' = [doomed EXCEPT ![p] = <<id[p]>>]
  /\ Go(p, "unlink")
  /\ UNCHANGED <<alone, clock, clash, disk, id>>

\* Mutant: a prune trims the index and leaves the files.
PruneIndexOnly(p) ==
  /\ pc[p] = "unlink"
  /\ files' = IF op[p] = "delete" THEN [files EXCEPT ![Head(doomed[p])] = "absent"] ELSE files
  /\ doomed' = [doomed EXCEPT ![p] = Tail(@)]
  /\ Go(p, IF Len(doomed[p]) = 1 THEN "write" ELSE "unlink")
  /\ UNCHANGED <<alone, clock, clash, index, id, list>>

(* One doomed file, if it is still there. *)
Unlink(p) ==
  /\ pc[p] = "unlink"
  /\ files' = [files EXCEPT ![Head(doomed[p])] = "absent"]
  /\ doomed' = [doomed EXCEPT ![p] = Tail(@)]
  /\ Go(p, IF Len(doomed[p]) = 1 THEN "write" ELSE "unlink")
  /\ UNCHANGED <<alone, clock, clash, index, id, list>>

(* writeFile truncates the index, and then writes it from its start: what
   another operation has put there meanwhile may be longer. *)
WriteBegin(p) ==
  /\ pc[p] = "write"
  /\ index' = <<>>
  /\ Go(p, "writing")
  /\ UNCHANGED <<alone, clock, clash, files, mem>>

WriteEnd(p) ==
  /\ pc[p] = "writing"
  /\ index' \in {list[p]} \cup (IF index = <<>> THEN {} ELSE {Broken})
  /\ End(p)
  /\ UNCHANGED <<alone, clock, clash, files>>

-----------------------------------------------------------------------------
Find(p) ==
  /\ At(p, "restore", "start")
  /\ \E k \in DOMAIN Read : Read[k] = id[p]
  /\ Go(p, "found")
  /\ UNCHANGED <<alone, clock, clash, disk, mem>>

Access(p) ==
  /\ At(p, "restore", "found")
  /\ IF files[id[p]] = "absent" THEN End(p) ELSE Go(p, "restoring") /\ UNCHANGED mem
  /\ UNCHANGED <<alone, clock, clash, disk>>

(* copyFile, extractArchive: read to its end, or gone since. *)
Restored(p) ==
  /\ At(p, "restore", "restoring")
  /\ End(p)
  /\ UNCHANGED <<alone, clock, clash, disk>>

-----------------------------------------------------------------------------
(* The worker of p is killed, or the disk refuses the rest. *)
Die(p) ==
  /\ ~alone
  /\ pc[p] # "idle"
  /\ End(p)
  /\ UNCHANGED <<alone, clock, clash, disk>>

Step(p) ==
  \/ Create(p)
  \/ \E o \in {"delete", "restore"}, i \in Ids : Invoke(p, o, i)
  \/ NothingToTake(p) \/ CopyBegin(p) \/ CopyEnd(p) \/ CopyFails(p)
  \/ ListNew(p) \/ NotFound(p) \/ Unlist(p) \/ Unlink(p)
  \/ WriteBegin(p) \/ WriteEnd(p) \/ Find(p) \/ Access(p) \/ Restored(p)
  \/ Die(p)

Next == \E p \in Procs : Step(p)

Spec == Init /\ [][Next]_vars

-----------------------------------------------------------------------------
(* However operations overlap and fail, with lists that are stale when they are
   written: while a restore reads a snapshot nobody writes it, and it is not
   the remains of one that failed; and nobody unlinks a snapshot that is being
   taken.  An id is listed only after its file is complete, and only what was
   listed is unlinked.  Two snapshots of one millisecond break this. *)
SnapshotsSafe ==
  ~clash => \A p \in Procs :
    /\ At(p, "restore", "restoring") => files[id[p]] # "partial"
    /\ op[p] = "create" /\ pc[p] \in {"copying", "copied"} => files[id[p]] # "absent"

(* Between operations that neither overlap nor fail, the directory holds the
   files that the index lists, whole, and no others: prunes and deletions
   neither leave files behind nor take one too many. *)
IndexMatchesFiles ==
  (alone /\ \A p \in Procs : pc[p] = "idle")
     => \A i \in Ids : files[i] = IF i \in Listed THEN "whole" ELSE "absent"

(* Such operations keep the list that NewestFirst describes. *)
Committed ==
  IF \E p \in Procs : pc[p] = "writing"
    THEN list[CHOOSE p \in Procs : pc[p] = "writing"] ELSE index

Visible == IF alone THEN Committed ELSE <<>>

History == INSTANCE NewestFirst WITH list <- Visible

KeepsNewestFirst == History!Spec
=============================================================================

--------------------------- MODULE FileIndexProofs ---------------------------
(***************************************************************************)
(* For any number of operations at once, any maximum and any number of     *)
(* snapshots: the types of FileIndex, that no operation disturbs the files *)
(* of another one, although the lists they write are stale, and that       *)
(* operations one at a time keep index and files in step and implement     *)
(* NewestFirst.  For any files, any sizes and any chunks: that a restore   *)
(* finds in a BackupArchive what was put there.                            *)
(***************************************************************************)
EXTENDS MCFileIndex, SequenceTheorems, WellFoundedInduction, TLAPS

(* All lists are lists of members of S. *)
Lists(S, ix, ls, dm) ==
  /\ ix \in Seq(S) \cup {Broken}
  /\ ls \in [Procs -> Seq(S)]
  /\ dm \in [Procs -> Seq(S)]

(* What operations hold while they run. *)
Held ==
  /\ \A p \in Procs : op[p] # "none" => id[p] \in Ids
  /\ \A p \in Procs : pc[p] = "unlink" => doomed[p] # <<>>

Types == TypeOK /\ Held

-----------------------------------------------------------------------------
(* Lists.                                                                  *)

LEMMA Cut ==
  ASSUME NEW S, NEW s \in Seq(S), NEW m \in 1 .. Len(s) + 1, NEW n \in 0 .. Len(s)
  PROVE  SubSeq(s, m, n) \in Seq(S) /\ (m <= n => SubSeq(s, m, n) # <<>>)
  <1>1. Len(s) \in Nat
    BY LenProperties
  <1>2. m \in Int /\ n \in Int /\ \A i \in m .. n : s[i] \in S
    BY <1>1, ElementOfSeq
  <1>3. SubSeq(s, m, n) \in Seq(S) /\ Len(SubSeq(s, m, n)) = IF m <= n THEN n - m + 1 ELSE 0
    BY <1>2, SubSeqProperties
  <1>4. Len(<<>>) = 0
    BY EmptySeq
  <1> QED
    BY <1>2, <1>3, <1>4

LEMMA ReadIsList == ASSUME NEW S, index \in Seq(S) \cup {Broken} PROVE Read \in Seq(S)
  BY EmptySeq DEF Read

(* The list that a new snapshot makes, and what it dooms. *)
LEMMA NewLists ==
  ASSUME NEW S, NEW s \in Seq(S), NEW i \in S
  PROVE  LET all == <<i>> \o s IN
         /\ SubSeq(all, 1, Kept(all, Max)) \in Seq(S)
         /\ SubSeq(all, Kept(all, Max) + 1, Len(all)) \in Seq(S)
         /\ Len(all) > Max => SubSeq(all, Kept(all, Max) + 1, Len(all)) # <<>>
  <1> DEFINE all == <<i>> \o s
  <1>1. <<i>> \in Seq(S)
    OBVIOUS
  <1>2. all \in Seq(S)
    BY <1>1, ConcatProperties
  <1> HIDE DEF all
  <1>3. Len(all) \in Nat
    BY <1>2, LenProperties
  <1>4. Kept(all, Max) \in 0 .. Len(all) /\ (Len(all) > Max => Kept(all, Max) = Max)
    BY <1>3, MaxType DEF Kept
  <1>5. /\ SubSeq(all, 1, Kept(all, Max)) \in Seq(S)
        /\ SubSeq(all, Kept(all, Max) + 1, Len(all)) \in Seq(S)
        /\ Kept(all, Max) + 1 <= Len(all) => SubSeq(all, Kept(all, Max) + 1, Len(all)) # <<>>
    <2>1. Kept(all, Max) \in 0 .. Len(all) /\ Kept(all, Max) + 1 \in 1 .. Len(all) + 1
          /\ Len(all) \in 0 .. Len(all) /\ 1 \in 1 .. Len(all) + 1
      BY <1>3, <1>4
    <2> QED
      BY <1>2, <2>1, Cut
  <1>6. Len(all) > Max => Kept(all, Max) + 1 <= Len(all)
    BY <1>3, <1>4, MaxType
  <1> QED
    BY <1>5, <1>6 DEF all

LEMMA LessOne ==
  ASSUME NEW S, NEW s \in Seq(S), NEW k \in DOMAIN s
  PROVE  SubSeq(s, 1, k - 1) \o SubSeq(s, k + 1, Len(s)) \in Seq(S)
  <1>1. Len(s) \in Nat /\ k \in 1 .. Len(s)
    BY LenProperties
  <1>2. k - 1 \in 0 .. Len(s) /\ k + 1 \in 1 .. Len(s) + 1 /\ Len(s) \in 0 .. Len(s)
        /\ 1 \in 1 .. Len(s) + 1
    BY <1>1
  <1>3. SubSeq(s, 1, k - 1) \in Seq(S) /\ SubSeq(s, k + 1, Len(s)) \in Seq(S)
    BY <1>2, Cut
  <1> QED
    BY <1>3, ConcatProperties

(* An operation that writes only members of S keeps all lists in S. *)
LEMMA ListsStep ==
  ASSUME NEW S, Lists(S, index, list, doomed), NEW p \in Procs, Step(p),
         At(p, "create", "copied") => id[p] \in S,
         pc[p] = "unlink" => doomed[p] # <<>>
  PROVE  Lists(S, index', list', doomed')
  <1> USE DEF Lists
  <1>0. <<>> \in Seq(S) /\ Read \in Seq(S)
    BY EmptySeq, ReadIsList
  <1>1. ASSUME End(p) PROVE list' \in [Procs -> Seq(S)] /\ doomed' \in [Procs -> Seq(S)]
    BY <1>0, <1>1 DEF End
  <1>2. ASSUME UNCHANGED index, End(p) \/ UNCHANGED <<list, doomed>>
        PROVE  Lists(S, index', list', doomed')
    BY <1>1, <1>2
  <1>3. CASE Create(p) \/ (\E o \in {"delete", "restore"}, i \in Ids : Invoke(p, o, i))
    BY <1>3 DEF Create, Invoke, disk
  <1>4. CASE NothingToTake(p) \/ CopyBegin(p) \/ CopyEnd(p) \/ CopyFails(p)
    BY <1>2, <1>4 DEF NothingToTake, CopyBegin, CopyEnd, CopyFails, disk, mem
  <1>5. CASE ListNew(p)
    <2>1. list' = [list EXCEPT ![p] = list'[p]] /\ list'[p] \in Seq(S)
      BY <1>0, <1>5, NewLists DEF ListNew
    <2>2. doomed' = [doomed EXCEPT ![p] = doomed'[p]] /\ doomed'[p] \in Seq(S)
      BY <1>0, <1>5, NewLists DEF ListNew
    <2>3. UNCHANGED index
      BY <1>5 DEF ListNew, disk
    <2> QED
      BY <2>1, <2>2, <2>3
  <1>6. CASE NotFound(p) \/ Find(p) \/ Access(p) \/ Restored(p) \/ Die(p)
    BY <1>2, <1>6 DEF NotFound, Find, Access, Restored, Die, disk, mem
  <1>7. CASE Unlist(p)
    <2>1. PICK k \in DOMAIN Read :
            /\ Read[k] = id[p]
            /\ list' = [list EXCEPT ![p] = SubSeq(Read, 1, k - 1) \o SubSeq(Read, k + 1, Len(Read))]
      BY <1>7 DEF Unlist
    <2>2. list' \in [Procs -> Seq(S)]
      BY <1>0, <2>1, LessOne
    <2>3. id[p] \in S
      BY <1>0, <2>1
    <2>4. <<id[p]>> \in Seq(S)
      BY <2>3
    <2> QED
      BY <1>7, <2>2, <2>4 DEF Unlist, disk
  <1>8. CASE Unlink(p)
    <2>1. Tail(doomed[p]) \in Seq(S)
      BY <1>8, HeadTailProperties DEF Unlink
    <2> QED
      BY <1>8, <2>1 DEF Unlink
  <1>9. CASE WriteBegin(p)
    BY <1>0, <1>9 DEF WriteBegin, mem
  <1>10. CASE WriteEnd(p)
    <2>1. index' \in Seq(S) \cup {Broken}
      BY <1>10 DEF WriteEnd
    <2> QED
      BY <1>1, <1>10, <2>1 DEF WriteEnd
  <1> QED
    BY <1>3, <1>4, <1>5, <1>6, <1>7, <1>8, <1>9, <1>10 DEF Step

-----------------------------------------------------------------------------
(* Types.                                                                  *)

LEMMA TypesMeanLists == TypeOK <=> /\ Lists(Ids, index, list, doomed)
                                   /\ alone \in BOOLEAN /\ clash \in BOOLEAN
                                   /\ clock \in 0 .. MaxIds
                                   /\ files \in [Ids -> {"absent", "partial", "whole"}]
                                   /\ pc \in [Procs -> {"idle", "start", "copying", "copied", "unlink",
                                                        "write", "writing", "found", "restoring"}]
                                   /\ op \in [Procs -> {"none", "create", "delete", "restore"}]
                                   /\ id \in [Procs -> 0 .. MaxIds]
  BY DEF TypeOK, Lists

(* The snapshot that begins has the next id, or clashes with the last one. *)
LEMMA Creation ==
  ASSUME NEW p \in Procs, Create(p)
  PROVE  \E i \in Ids : /\ i = clock + 1 \/ (i = clock /\ clash')
                        /\ clock' = i
                        /\ clash' = (clash \/ i = clock)
                        /\ id' = [id EXCEPT ![p] = i]
  <1>1. PICK i \in {clock + 1} \cup (IF alone THEN {} ELSE {clock}) :
          i \in Ids /\ clock' = i /\ clash' = (clash \/ i = clock) /\ id' = [id EXCEPT ![p] = i]
    BY Zenon DEF Create
  <1>2. i = clock + 1 \/ i = clock
    BY <1>1
  <1>3. i = clock => clash'
    BY <1>1, Zenon
  <1>4. i \in Ids /\ (i = clock + 1 \/ (i = clock /\ clash'))
    BY <1>1, <1>2, <1>3, Zenon
  <1>5. clock' = i /\ clash' = (clash \/ i = clock) /\ id' = [id EXCEPT ![p] = i]
    BY <1>1, Zenon
  <1> QED
    BY <1>4, <1>5, Zenon

(* How a step moves its operation. *)
LEMMA Moves ==
  ASSUME NEW p \in Procs, Step(p)
  PROVE  \/ End(p)
         \/ UNCHANGED <<op, id>> /\ \E l \in {"copying", "copied", "unlink", "write", "writing", "found",
                                          "restoring"} : pc' = [pc EXCEPT ![p] = l]
         \/ Create(p)
         \/ \E o \in {"delete", "restore"}, i \in Ids : Invoke(p, o, i)
  BY DEF Step, NothingToTake, CopyBegin, CopyEnd, CopyFails, ListNew, mem, Go,
     NotFound, Unlist, Unlink, WriteBegin, WriteEnd, Find, Access, Restored, Die

LEMMA TypeStep == ASSUME Types, NEW p \in Procs, Step(p) PROVE TypeOK'
  <1> USE DEF Types, Held
  <1>1. Lists(Ids, index', list', doomed')
    <2>1. At(p, "create", "copied") => id[p] \in Ids
      BY DEF At
    <2> QED
      BY <2>1, ListsStep, TypesMeanLists
  <1>2. alone' \in BOOLEAN /\ clash' \in BOOLEAN /\ clock' \in 0 .. MaxIds
    <2>1. CASE Create(p)
      BY <2>1, Creation DEF Create, TypeOK, Ids
    <2>2. CASE ~Create(p)
      BY <2>2 DEF TypeOK, Step, Invoke, NothingToTake, CopyBegin, CopyEnd, CopyFails, ListNew,
         NotFound, Unlist, Unlink, WriteBegin, WriteEnd, Find, Access, Restored, Die
    <2> QED
      BY <2>1, <2>2
  <1>3. files' \in [Ids -> {"absent", "partial", "whole"}]
    <2>1. CASE CopyEnd(p)
      BY <2>1 DEF CopyEnd, TypeOK
    <2>2. CASE CopyBegin(p) \/ CopyFails(p) \/ Unlink(p)
      BY <2>2 DEF CopyBegin, CopyFails, Unlink, TypeOK
    <2>3. CASE ~(CopyEnd(p) \/ CopyBegin(p) \/ CopyFails(p) \/ Unlink(p))
      BY <2>3 DEF TypeOK, Step, Create, Invoke, NothingToTake, ListNew, disk,
         NotFound, Unlist, WriteBegin, WriteEnd, Find, Access, Restored, Die
    <2> QED
      BY <2>1, <2>2, <2>3
  <1>4. /\ pc' \in [Procs -> {"idle", "start", "copying", "copied", "unlink",
                              "write", "writing", "found", "restoring"}]
        /\ op' \in [Procs -> {"none", "create", "delete", "restore"}]
    <2>1. CASE End(p)
      BY <2>1 DEF TypeOK, End
    <2>2. CASE UNCHANGED <<op, id>> /\ \E l \in {"copying", "copied", "unlink", "write", "writing",
                                            "found", "restoring"} : pc' = [pc EXCEPT ![p] = l]
      BY <2>2 DEF TypeOK
    <2>3. CASE Create(p)
      BY <2>3 DEF TypeOK, Create
    <2>4. CASE \E o \in {"delete", "restore"}, i \in Ids : Invoke(p, o, i)
      BY <2>4 DEF TypeOK, Invoke
    <2> QED
      BY <2>1, <2>2, <2>3, <2>4, Moves
  <1>5. id' \in [Procs -> 0 .. MaxIds]
    <2>1. CASE Create(p)
      <3>1. PICK i \in Ids : id' = [id EXCEPT ![p] = i]
        BY <2>1, Creation
      <3>2. i \in 0 .. MaxIds
        BY MaxIdsType DEF Ids
      <3> QED
        BY <3>1, <3>2 DEF TypeOK
    <2>2. CASE \E o \in {"delete", "restore"}, i \in Ids : Invoke(p, o, i)
      BY <2>2, MaxIdsType DEF TypeOK, Invoke, Ids
    <2>3. CASE End(p)
      BY <2>3, MaxIdsType DEF TypeOK, End
    <2>4. CASE UNCHANGED id
      BY <2>4 DEF TypeOK
    <2> QED
      BY <2>1, <2>2, <2>3, <2>4, Moves
  <1> QED
    BY <1>1, <1>2, <1>3, <1>4, <1>5 DEF TypeOK, Lists

LEMMA HeldStep == ASSUME Types, NEW p \in Procs, Step(p) PROVE Held'
  <1> USE DEF Types, Held, TypeOK
  <1>1. \A q \in Procs : op'[q] # "none" => id'[q] \in Ids
    <2>1. CASE Create(p)
      <3>1. PICK i \in Ids : id' = [id EXCEPT ![p] = i]
        BY <2>1, Creation
      <3>2. \A q \in Procs \ {p} : op'[q] = op[q]
        BY <2>1 DEF Create
      <3> QED
        BY <3>1, <3>2
    <2>2. ASSUME NEW o \in {"delete", "restore"}, NEW i \in Ids, Invoke(p, o, i)
          PROVE  \A q \in Procs : op'[q] # "none" => id'[q] \in Ids
      BY <2>2 DEF Invoke
    <2>3. CASE End(p)
      BY <2>3 DEF End
    <2>4. CASE UNCHANGED <<op, id>>
      BY <2>4
    <2> QED
      BY <2>1, <2>2, <2>3, <2>4, Moves
  <1>2. \A q \in Procs : pc'[q] = "unlink" => doomed'[q] # <<>>
    <2>1. CASE ListNew(p)
      <3>1. id[p] \in Ids /\ Read \in Seq(Ids)
        BY <2>1, ReadIsList DEF ListNew, At
      <3>2. pc'[p] = "unlink" => doomed'[p] # <<>>
        BY <2>1, <3>1, NewLists DEF ListNew, Go
      <3>3. \A q \in Procs \ {p} : pc'[q] = pc[q] /\ doomed'[q] = doomed[q]
        BY <2>1 DEF ListNew, Go
      <3> QED
        BY <3>2, <3>3
    <2>2. CASE Unlink(p)
      <3>1. doomed[p] \in Seq(Ids) /\ doomed[p] # <<>>
        BY <2>2 DEF Unlink
      <3>2. Len(Tail(doomed[p])) = Len(doomed[p]) - 1 /\ Len(doomed[p]) \in Nat /\ Len(<<>>) = 0
        BY <3>1, HeadTailProperties, LenProperties, EmptySeq
      <3>3. Len(doomed[p]) # 1 => Tail(doomed[p]) # <<>>
        <4>1. Len(doomed[p]) # 1 => Len(Tail(doomed[p])) # 0
          BY <3>2
        <4> QED
          BY <3>2, <4>1, Zenon
      <3>4. pc'[p] = "unlink" => Len(doomed[p]) # 1
        BY <2>2 DEF Unlink, Go
      <3>5. doomed'[p] = Tail(doomed[p])
        BY <2>2 DEF Unlink
      <3>6. \A q \in Procs \ {p} : pc'[q] = pc[q] /\ doomed'[q] = doomed[q]
        BY <2>2 DEF Unlink, Go
      <3> QED
        BY <3>3, <3>4, <3>5, <3>6
    <2>3. CASE Unlist(p)
      <3>1. <<id[p]>> # <<>>
        OBVIOUS
      <3> QED
        BY <2>3, <3>1 DEF Unlist, Go
    <2>4. CASE ~(ListNew(p) \/ Unlink(p) \/ Unlist(p))
      <3>1. End(p) \/ (UNCHANGED doomed /\ \E l \in {"start", "copying", "copied", "writing", "found",
                                                   "restoring"} : pc' = [pc EXCEPT ![p] = l])
        BY <2>4 DEF Step, Create, Invoke, NothingToTake, CopyBegin, CopyEnd, CopyFails, mem, Go,
           NotFound, WriteBegin, WriteEnd, Find, Access, Restored, Die
      <3>2. CASE End(p)
        BY <3>2 DEF End
      <3> QED
        BY <3>1, <3>2
    <2> QED
      BY <2>1, <2>2, <2>3, <2>4
  <1> QED
    BY <1>1, <1>2

LEMMA InitTypes == Init => Types
  <1> SUFFICES ASSUME Init PROVE Types
    OBVIOUS
  <1>1. <<>> \in Seq(Ids)
    BY EmptySeq
  <1>2. list \in [Procs -> Seq(Ids)] /\ doomed \in [Procs -> Seq(Ids)] /\ index \in Seq(Ids)
    BY <1>1 DEF Init
  <1>3. 0 \in 0 .. MaxIds
    BY MaxIdsType
  <1> QED
    BY <1>2, <1>3 DEF Init, Types, TypeOK, Held

LEMMA NextTypes == Types /\ [Next]_vars => Types'
  <1> SUFFICES ASSUME Types, [Next]_vars PROVE Types'
    OBVIOUS
  <1>1. CASE UNCHANGED vars
    BY <1>1 DEF vars, disk, mem, Types, TypeOK, Held
  <1>2. CASE Next
    <2>1. PICK p \in Procs : Step(p)
      BY <1>2 DEF Next
    <2> QED
      BY <2>1, TypeStep, HeldStep DEF Types
  <1> QED
    BY <1>1, <1>2

(* Whatever operations overlap, die or clash, the index lists snapshots or is
   not JSON, and no operation holds another thing than snapshots. *)
THEOREM TypeCorrect == Spec => []TypeOK
  <1>1. Types => TypeOK
    BY DEF Types
  <1> QED
    BY <1>1, InitTypes, NextTypes, PTL DEF Spec

-----------------------------------------------------------------------------
(* Snapshots.  While no two have one id, the lists of the index and of the *)
(* operations under way, stale or not, name complete files only.           *)

Taking(p) == op[p] = "create" /\ pc[p] \in {"start", "copying", "copied"}

(* What nobody is taking and no failure has left half written. *)
Published == {i \in Ids : /\ i <= clock /\ files[i] # "partial"
                         /\ \A p \in Procs : Taking(p) => id[p] # i}

OwnIds ==
  /\ \A p \in Procs : pc[p] = "copying" => op[p] = "create"
  /\ \A p \in Procs : op[p] = "create" => id[p] <= clock
  /\ \A p, q \in Procs : (p # q /\ op[p] = "create" /\ op[q] = "create") => id[p] # id[q]

OwnFiles ==
  /\ \A i \in Ids : i > clock => files[i] = "absent"
  /\ \A p \in Procs :
       /\ At(p, "create", "start") => files[id[p]] = "absent"
       /\ At(p, "create", "copying") => files[id[p]] = "partial"
       /\ At(p, "create", "copied") => files[id[p]] = "whole"

Reading ==
  \A p \in Procs : (op[p] = "restore" /\ pc[p] \in {"found", "restoring"}) => id[p] \in Published

Own == OwnIds /\ OwnFiles /\ Reading /\ Lists(Published, index, list, doomed)

LEMMA OwnIdsStep ==
  ASSUME Types, OwnIds, NEW p \in Procs, Step(p), ~clash'
  PROVE  OwnIds' /\ clock' >= clock
  <1> USE DEF Types, TypeOK, Held
  <1>9. \A q \in Procs : pc'[q] = "copying" => op'[q] = "create"
    <2>1. CASE CopyBegin(p)
      BY <2>1 DEF CopyBegin, Go, At, OwnIds
    <2>2. CASE ~CopyBegin(p)
      <3>1. \A q \in Procs : pc'[q] = "copying" => (pc[q] = "copying" /\ op'[q] = op[q])
        BY <2>2 DEF Step, Create, Invoke, NothingToTake, CopyEnd, CopyFails, ListNew, Go, End,
           NotFound, Unlist, Unlink, WriteBegin, WriteEnd, Find, Access, Restored, Die
      <3> QED
        BY <3>1 DEF OwnIds
    <2> QED
      BY <2>1, <2>2
  <1>0. clock \in Nat /\ \A q \in Procs : id[q] \in Nat
    BY MaxIdsType
  <1>1. CASE Create(p)
    <2>1. PICK i \in Ids : (i = clock + 1 \/ (i = clock /\ clash')) /\ clock' = i
                            /\ id' = [id EXCEPT ![p] = i]
      BY <1>1, Creation
    <2>2. clock' = clock + 1 /\ id' = [id EXCEPT ![p] = clock + 1]
      BY <2>1
    <2>3. op' = [op EXCEPT ![p] = "create"]
      BY <1>1 DEF Create
    <2> QED
      BY <1>0, <1>9, <2>2, <2>3 DEF OwnIds
  <1>2. CASE ~Create(p)
    <2>1. UNCHANGED clock
      BY <1>2 DEF Step, Invoke, NothingToTake, CopyBegin, CopyEnd, CopyFails, ListNew,
         NotFound, Unlist, Unlink, WriteBegin, WriteEnd, Find, Access, Restored, Die
    <2>2. \A q \in Procs : op'[q] = "create" => (op[q] = "create" /\ id'[q] = id[q])
      BY <1>2, Moves DEF End, Invoke
    <2> QED
      BY <1>0, <1>9, <2>1, <2>2 DEF OwnIds
  <1> QED
    BY <1>1, <1>2

(* What a step does to the files: only to that of its own new snapshot, or it
   unlinks a published one. *)
LEMMA FilesStep ==
  ASSUME Types, Own, NEW p \in Procs, Step(p)
  PROVE  \/ UNCHANGED files
         \/ CopyBegin(p) /\ files' = [files EXCEPT ![id[p]] = "partial"]
         \/ CopyEnd(p) /\ files' = [files EXCEPT ![id[p]] = "whole"]
         \/ CopyFails(p) /\ files' = [files EXCEPT ![id[p]] = "absent"]
         \/ Unlink(p) /\ \E i \in Published : files' = [files EXCEPT ![i] = "absent"]
  <1>1. CASE CopyEnd(p)
    <2>1. Others(p, "copying") = {}
      <3>1. ASSUME NEW q \in Procs \ {p}, pc[q] = "copying", id[q] = id[p] PROVE FALSE
        <4>1. op[p] = "create" /\ op[q] # "create"
          BY <1>1, <3>1 DEF CopyEnd, At, Own, OwnIds
        <4> QED
          BY <3>1, <4>1 DEF Own, OwnIds
      <3> QED
        BY <3>1 DEF Others
    <2>2. files[id[p]] = "partial"
      BY <1>1 DEF CopyEnd, Own, OwnFiles, At
    <2> QED
      BY <1>1, <2>1, <2>2 DEF CopyEnd
  <1>2. CASE Unlink(p)
    <2>1. doomed[p] \in Seq(Published) /\ doomed[p] # <<>>
      BY <1>2 DEF Unlink, Own, Lists, Types, Held
    <2>2. Head(doomed[p]) \in Published
      BY <2>1, HeadTailProperties
    <2> QED
      BY <1>2, <2>2 DEF Unlink
  <1>3. CASE CopyBegin(p) \/ CopyFails(p)
    BY <1>3 DEF CopyBegin, CopyFails
  <1>4. CASE ~(CopyEnd(p) \/ Unlink(p) \/ CopyBegin(p) \/ CopyFails(p))
    BY <1>4 DEF Step, Create, Invoke, NothingToTake, ListNew, disk,
       NotFound, Unlist, WriteBegin, WriteEnd, Find, Access, Restored, Die
  <1> QED
    BY <1>1, <1>2, <1>3, <1>4

LEMMA PublishedGrows ==
  ASSUME Types, Own, NEW p \in Procs, Step(p), ~clash'
  PROVE  /\ \A i \in Published : i \in Published'
         /\ At(p, "create", "copied") => (ListNew(p) => id[p] \in Published')
  <1> USE DEF Types, TypeOK, Held
  <1>0. clock \in Nat /\ \A q \in Procs : id[q] \in Nat
    BY MaxIdsType
  <1>1. clock' >= clock /\ clock' \in Nat
    BY OwnIdsStep, TypeStep, MaxIdsType DEF Own
  <1>2. ASSUME NEW i \in Published PROVE files'[i] # "partial"
    <2>1. CASE CopyBegin(p)
      BY <2>1, <1>2 DEF CopyBegin, Published, Taking, At
    <2>2. CASE ~CopyBegin(p)
      BY <2>2, <1>2, FilesStep DEF Published
    <2> QED
      BY <2>1, <2>2
  <1>3. ASSUME NEW i \in Published, NEW q \in Procs, Taking(q)' PROVE id'[q] # i
    <2>1. CASE Create(p)
      <3>1. PICK j \in Ids : (j = clock + 1 \/ (j = clock /\ clash')) /\ id' = [id EXCEPT ![p] = j]
        BY <2>1, Creation
      <3>2. id' = [id EXCEPT ![p] = clock + 1]
        BY <3>1
      <3>3. CASE q = p
        BY <1>0, <1>3, <3>2, <3>3 DEF Published
      <3>4. CASE q # p
        BY <2>1, <1>3, <3>2, <3>4 DEF Published, Taking, Create
      <3> QED
        BY <3>3, <3>4
    <2>2. CASE ~Create(p)
      <3>1. Taking(q) /\ id'[q] = id[q]
        BY <1>3, <2>2 DEF Taking, Step, Invoke, NothingToTake, CopyBegin, CopyEnd, CopyFails, ListNew, Go,
           End, At, mem, NotFound, Unlist, Unlink, WriteBegin, WriteEnd, Find, Access, Restored, Die
      <3> QED
        BY <1>3, <3>1 DEF Published
    <2> QED
      BY <2>1, <2>2
  <1>4. ASSUME ListNew(p) PROVE id[p] \in Published'
    <2>1. id[p] \in Ids /\ id[p] <= clock /\ files'[id[p]] # "partial"
      <3>1. At(p, "create", "copied") /\ files' = files
        BY <1>4 DEF ListNew, disk
      <3>2. files[id[p]] = "whole"
        BY <3>1 DEF Own, OwnFiles
      <3>3. id[p] \in Ids /\ id[p] <= clock
        BY <3>1 DEF At, Own, OwnIds
      <3> QED
        BY <3>1, <3>2, <3>3
    <2>2. ASSUME NEW q \in Procs, Taking(q)' PROVE id'[q] # id[p]
      BY <1>4, <2>2 DEF ListNew, Go, At, Taking, Own, OwnIds
    <2>3. id[p] <= clock'
      BY <1>0, <1>1, <2>1
    <2> QED
      BY <2>1, <2>2, <2>3 DEF Published
  <1>5. ASSUME NEW i \in Published PROVE i \in Published'
    <2>1. i <= clock' /\ i \in Ids
      BY <1>0, <1>1 DEF Published, Ids
    <2> QED
      BY <2>1, <1>2, <1>3 DEF Published
  <1> QED
    BY <1>4, <1>5

LEMMA OwnFilesStep ==
  ASSUME Types, Own, NEW p \in Procs, Step(p), ~clash'
  PROVE  OwnFiles'
  <1> USE DEF Types, TypeOK, Held
  <1>0. clock \in Nat /\ clock' \in Nat /\ clock' >= clock /\ (\A i \in Ids : i \in Nat)
        /\ \A q \in Procs : id[q] \in Nat
    BY OwnIdsStep, TypeStep, MaxIdsType DEF Own, Ids
  <1>1. \A i \in Ids : i > clock' => files'[i] = "absent"
    <2> SUFFICES ASSUME NEW i \in Ids, i > clock' PROVE files'[i] = "absent"
      OBVIOUS
    <2>1. files[i] = "absent"
      BY <1>0 DEF Own, OwnFiles
    <2>2. op[p] = "create" => id[p] # i
      BY <1>0 DEF Own, OwnIds
    <2> QED
      BY <2>1, <2>2, FilesStep DEF CopyBegin, CopyEnd, CopyFails, At
  <1>2. CASE Create(p)
    <2>1. PICK j \in Ids : (j = clock + 1 \/ (j = clock /\ clash')) /\ id' = [id EXCEPT ![p] = j]
      BY <1>2, Creation
    <2>2. id' = [id EXCEPT ![p] = clock + 1] /\ clock + 1 \in Ids
      BY <2>1
    <2>3. UNCHANGED files /\ \A q \in Procs \ {p} : pc'[q] = pc[q] /\ op'[q] = op[q] /\ id'[q] = id[q]
      BY <1>2, <2>2 DEF Create, disk
    <2>4. files'[id'[p]] = "absent" /\ pc'[p] = "start"
      BY <1>0, <1>2, <2>2, <2>3 DEF Own, OwnFiles, Create
    <2>5. ASSUME NEW q \in Procs
          PROVE  /\ At(q, "create", "start")' => files'[id'[q]] = "absent"
                 /\ At(q, "create", "copying")' => files'[id'[q]] = "partial"
                 /\ At(q, "create", "copied")' => files'[id'[q]] = "whole"
      <3>1. CASE q = p
        BY <2>4, <3>1 DEF At
      <3>2. CASE q # p
        BY <2>3, <3>2 DEF Own, OwnFiles, At
      <3> QED
        BY <3>1, <3>2
    <2> QED
      BY <1>1, <2>5 DEF OwnFiles
  <1>3. CASE ~Create(p)
    <2>1. ASSUME NEW q \in Procs \ {p}, Taking(q) PROVE files'[id[q]] = files[id[q]]
      <3>1. op[p] = "create" => id[p] # id[q]
        BY <2>1 DEF Own, OwnIds, Taking
      <3>2. id[q] \in Ids /\ id[q] \notin Published
        BY <2>1 DEF Taking, Published
      <3> QED
        BY <3>1, <3>2, FilesStep DEF CopyBegin, CopyEnd, CopyFails, At
    <2>2. ASSUME NEW q \in Procs \ {p} PROVE pc'[q] = pc[q] /\ op'[q] = op[q] /\ id'[q] = id[q]
      <3>1. CASE End(p)
        BY <3>1 DEF End
      <3>2. CASE \E o \in {"delete", "restore"}, i \in Ids : Invoke(p, o, i)
        BY <3>2 DEF Invoke
      <3>3. CASE UNCHANGED <<op, id>> /\ \E l \in {"copying", "copied", "unlink", "write", "writing",
                                              "found", "restoring"} : pc' = [pc EXCEPT ![p] = l]
        BY <3>3
      <3> QED
        BY <1>3, <3>1, <3>2, <3>3, Moves
    <2>3. ASSUME NEW q \in Procs \ {p}
          PROVE  /\ At(q, "create", "start")' => files'[id'[q]] = "absent"
                 /\ At(q, "create", "copying")' => files'[id'[q]] = "partial"
                 /\ At(q, "create", "copied")' => files'[id'[q]] = "whole"
      <3>1. /\ At(q, "create", "start") => files[id[q]] = "absent"
            /\ At(q, "create", "copying") => files[id[q]] = "partial"
            /\ At(q, "create", "copied") => files[id[q]] = "whole"
        BY DEF Own, OwnFiles
      <3>2. Taking(q) => files'[id'[q]] = files[id[q]]
        BY <2>1, <2>2
      <3> QED
        BY <2>2, <3>1, <3>2 DEF At, Taking
    <2>4. ~At(p, "create", "start")'
      BY <1>3 DEF At, Step, Invoke, NothingToTake, CopyBegin, CopyEnd, CopyFails, ListNew, Go,
         End, mem, NotFound, Unlist, Unlink, WriteBegin, WriteEnd, Find, Access, Restored, Die
    <2>5. ASSUME At(p, "create", "copying")' PROVE files'[id'[p]] = "partial"
      <3>1. CopyBegin(p)
        BY <1>3, <2>5 DEF At, Step, Invoke, NothingToTake, CopyEnd, CopyFails, ListNew, Go,
           End, NotFound, Unlist, Unlink, WriteBegin, WriteEnd, Find, Access, Restored, Die
      <3> QED
        BY <3>1 DEF CopyBegin, At, mem
    <2>6. ASSUME At(p, "create", "copied")' PROVE files'[id'[p]] = "whole"
      <3>1. CopyEnd(p) \/ NothingToTake(p)
        BY <1>3, <2>6 DEF At, Step, Invoke, CopyBegin, CopyFails, ListNew, Go,
           End, NotFound, Unlist, Unlink, WriteBegin, WriteEnd, Find, Access, Restored, Die
      <3>2. CASE NothingToTake(p)
        <4>1. ~End(p)
          BY <2>6 DEF At, End
        <4>2. At(p, "create", "start") /\ files[id[p]] # "absent"
          BY <3>2, <4>1 DEF NothingToTake
        <4> QED
          BY <4>2 DEF Own, OwnFiles
      <3>3. CASE CopyEnd(p)
        <4>1. files' = [files EXCEPT ![id[p]] = "whole"]
          <5>2. files[id[p]] = "partial"
            BY <3>3 DEF CopyEnd, Own, OwnFiles, At
          <5>3. Others(p, "copying") = {}
            <6>1. ASSUME NEW q \in Procs \ {p}, pc[q] = "copying" PROVE id[q] # id[p]
              BY <3>3, <6>1 DEF CopyEnd, At, Own, OwnIds
            <6> QED
              BY <6>1 DEF Others
          <5> QED
            BY <3>3, <5>2, <5>3 DEF CopyEnd
        <4> QED
          BY <3>3, <4>1 DEF CopyEnd, At, mem
      <3> QED
        BY <3>1, <3>2, <3>3
    <2> QED
      BY <1>1, <2>3, <2>4, <2>5, <2>6 DEF OwnFiles
  <1> QED
    BY <1>2, <1>3

LEMMA ReadingStep ==
  ASSUME Types, Own, NEW p \in Procs, Step(p), ~clash'
  PROVE  Reading'
  <1> USE DEF Types, TypeOK, Held
  <1> SUFFICES ASSUME NEW q \in Procs, op'[q] = "restore", pc'[q] \in {"found", "restoring"}
               PROVE  id'[q] \in Published'
    BY DEF Reading
  <1>1. CASE op[q] = "restore" /\ pc[q] \in {"found", "restoring"}
    <2>1. id'[q] = id[q]
      BY <1>1, Moves DEF End, Create, Invoke
    <2> QED
      BY <1>1, <2>1, PublishedGrows DEF Own, Reading
  <1>2. CASE ~(op[q] = "restore" /\ pc[q] \in {"found", "restoring"})
    <2>1. q = p /\ Find(p)
      BY <1>2 DEF At, Step, Create, Invoke, NothingToTake, CopyBegin, CopyEnd, CopyFails, ListNew, Go,
         End, NotFound, Unlist, Unlink, WriteBegin, WriteEnd, Find, Access, Restored, Die
    <2>2. Read \in Seq(Published)
      BY ReadIsList DEF Own, Lists
    <2>3. id[p] \in Published /\ id'[p] = id[p]
      BY <2>1, <2>2 DEF Find, mem
    <2> QED
      BY <2>1, <2>3, PublishedGrows
  <1> QED
    BY <1>1, <1>2

LEMMA Wider ==
  ASSUME NEW S, NEW T, \A i \in S : i \in T, Lists(S, index, list, doomed)
  PROVE  Lists(T, index, list, doomed)
  <1>1. \A s \in Seq(S) : s \in Seq(T)
    OBVIOUS
  <1> QED
    BY <1>1 DEF Lists

LEMMA OwnStep ==
  ASSUME Types, Own, NEW p \in Procs, Step(p), ~clash'
  PROVE  Own'
  <1> DEFINE T == Published'
  <1>1. \A i \in Published : i \in T
    BY PublishedGrows
  <1>2. At(p, "create", "copied") => (ListNew(p) => id[p] \in T)
    BY PublishedGrows
  <1> HIDE DEF T
  <1>3. Lists(T, index, list, doomed)
    BY <1>1, Wider DEF Own
  <1>4. Lists(T, index', list', doomed')
    <2>1. CASE At(p, "create", "copied") => id[p] \in T
      BY <1>3, <2>1, ListsStep DEF Types, Held
    <2>2. CASE ~ListNew(p) /\ At(p, "create", "copied")
      <3>1. End(p) /\ UNCHANGED index
        BY <2>2 DEF At, Step, Create, Invoke, NothingToTake, CopyBegin, CopyEnd, CopyFails, disk,
           NotFound, Unlist, Unlink, WriteBegin, WriteEnd, Find, Access, Restored, Die
      <3>2. <<>> \in Seq(T)
        BY EmptySeq
      <3> QED
        BY <1>3, <3>1, <3>2 DEF Lists, End
    <2> QED
      BY <1>2, <2>1, <2>2
  <1>5. OwnIds' /\ OwnFiles' /\ Reading'
    BY OwnIdsStep, OwnFilesStep, ReadingStep DEF Own
  <1> QED
    BY <1>4, <1>5 DEF Own, T

(* However operations overlap and fail, with lists that are stale when they are
   written: while a restore reads a snapshot it is complete, and nobody unlinks
   the snapshot that another operation is taking (avatar-versioning.ts,
   backup-system.ts). *)
THEOREM Safe == Spec => []SnapshotsSafe
  <1> DEFINE IInv == Types /\ (~clash => Own)
  <1>1. Init => IInv
    <2> SUFFICES ASSUME Init PROVE Own
      BY InitTypes
    <2>1. <<>> \in Seq(Published)
      BY EmptySeq
    <2> QED
      BY <2>1 DEF Init, Own, OwnIds, OwnFiles, Reading, Lists, At
  <1>2. IInv /\ [Next]_vars => IInv'
    <2> SUFFICES ASSUME IInv, [Next]_vars, ~clash' PROVE Own'
      BY NextTypes
    <2>1. CASE UNCHANGED vars
      BY <2>1 DEF vars, disk, mem, Own, OwnIds, OwnFiles, Reading, Lists, At, Published, Taking
    <2>2. CASE Next
      <3>1. PICK p \in Procs : Step(p)
        BY <2>2 DEF Next
      <3>2. ~clash
        BY <3>1 DEF Step, Create, Invoke, NothingToTake, CopyBegin, CopyEnd, CopyFails, ListNew,
           NotFound, Unlist, Unlink, WriteBegin, WriteEnd, Find, Access, Restored, Die
      <3> QED
        BY <3>1, <3>2, OwnStep
    <2> QED
      BY <2>1, <2>2
  <1>3. IInv => SnapshotsSafe
    BY DEF SnapshotsSafe, Own, OwnFiles, Reading, Published, At
  <1> QED
    BY <1>1, <1>2, <1>3, PTL DEF Spec

-----------------------------------------------------------------------------
(* Operations that neither overlap nor fail.                               *)

Members(s) == {s[k] : k \in 1 .. Len(s)}

(* A list of existing snapshots, newest first, and no more than Max. *)
Newest(s) ==
  /\ s \in Seq(Ids) /\ Len(s) <= Max
  /\ \A k \in 1 .. Len(s) : s[k] <= clock
  /\ \A j, k \in 1 .. Len(s) : j < k => s[k] < s[j]

FilesAre(whole, partial) ==
  \A i \in Ids : files[i] = IF i \in whole THEN "whole" ELSE IF i \in partial THEN "partial" ELSE "absent"

Active(p) == pc[p] # "idle"

(* The list that p will write is the index with its snapshot in front, or
   without the one it deletes. *)
Follows(p) ==
  \/ /\ op[p] = "create" /\ id[p] \in Ids
     /\ \A k \in 1 .. Len(index) : index[k] < id[p]
     /\ list[p] = SubSeq(<<id[p]>> \o index, 1, Kept(<<id[p]>> \o index, Max))
  \/ /\ op[p] = "delete" /\ id[p] \in Ids
     /\ \E k \in 1 .. Len(index) :
          /\ index[k] = id[p]
          /\ list[p] = SubSeq(index, 1, k - 1) \o SubSeq(index, k + 1, Len(index))

Fresh(p) == id[p] \in Ids /\ id[p] <= clock /\ \A k \in 1 .. Len(index) : index[k] < id[p]

(* The index while p runs, what p holds, and the files. *)
InOrder(p) ==
  /\ IF pc[p] = "writing" THEN index = <<>> ELSE Newest(index)
  /\ pc[p] \in {"start", "found", "restoring"} => FilesAre(Members(index), {})
  /\ pc[p] = "copying" => FilesAre(Members(index), {id[p]})
  /\ pc[p] = "copied" => FilesAre(Members(index) \cup {id[p]}, {})
  /\ op[p] = "create" /\ pc[p] \in {"start", "copying", "copied"} => Fresh(p)
  /\ pc[p] \in {"unlink", "write"} => Follows(p)
  /\ pc[p] \in {"unlink", "write", "writing"} => Newest(list[p])
  /\ pc[p] = "unlink" =>
       /\ Len(doomed[p]) = 1
       /\ Head(doomed[p]) \in Ids \ Members(list[p])
       /\ FilesAre(Members(list[p]) \cup {Head(doomed[p])}, {})
  /\ pc[p] \in {"write", "writing"} => FilesAre(Members(list[p]), {})

Resting == Newest(index) /\ FilesAre(Members(index), {})

OneByOne ==
  alone =>
    /\ \A p, q \in Procs : Active(p) /\ Active(q) => p = q
    /\ (\A p \in Procs : ~Active(p)) => Resting
    /\ \A p \in Procs : Active(p) => InOrder(p)

(* A list with a newer snapshot in front, cut to Max. *)
LEMMA InFront ==
  ASSUME Types, NEW s, Newest(s), NEW i \in Ids, i <= clock, \A k \in 1 .. Len(s) : s[k] < i
  PROVE  LET all  == <<i>> \o s
             kept == SubSeq(all, 1, Kept(all, Max))
             rest == SubSeq(all, Kept(all, Max) + 1, Len(all)) IN
         /\ Newest(kept)
         /\ Len(all) <= Max => Members(kept) = Members(s) \cup {i}
         /\ Len(all) > Max =>
              /\ Len(rest) = 1
              /\ Head(rest) \in Ids \ Members(kept)
              /\ Members(kept) \cup {Head(rest)} = Members(s) \cup {i}
  <1> DEFINE all  == <<i>> \o s
             n    == Kept(all, Max)
             kept == SubSeq(all, 1, n)
             rest == SubSeq(all, n + 1, Len(all))
  <1>1. s \in Seq(Ids) /\ Len(s) \in Nat /\ Len(s) <= Max /\ \A k \in 1 .. Len(s) : s[k] \in Ids
    BY LenProperties, ElementOfSeq DEF Newest
  <1>2. /\ all \in Seq(Ids) /\ Len(all) = Len(s) + 1
        /\ \A k \in 1 .. Len(all) : all[k] = IF k = 1 THEN i ELSE s[k - 1]
    <2>1. <<i>> \in Seq(Ids) /\ Len(<<i>>) = 1 /\ <<i>>[1] = i
      OBVIOUS
    <2> QED
      BY <1>1, <2>1, ConcatProperties
  <1> HIDE DEF all
  <1>3. \A k \in 1 .. Len(all) : all[k] \in Ids /\ all[k] <= clock
    BY <1>1, <1>2 DEF Newest
  <1>4. \A j, k \in 1 .. Len(all) : j < k => all[k] < all[j]
    <2> SUFFICES ASSUME NEW j \in 1 .. Len(all), NEW k \in 1 .. Len(all), j < k
                 PROVE  all[k] < all[j]
      OBVIOUS
    <2>1. k - 1 \in 1 .. Len(s) /\ all[k] = s[k - 1]
      BY <1>1, <1>2
    <2>2. CASE j = 1
      BY <1>1, <1>2, <2>1, <2>2
    <2>3. CASE j # 1
      <3>1. j - 1 \in 1 .. Len(s) /\ all[j] = s[j - 1] /\ j - 1 < k - 1
        BY <1>1, <1>2, <2>3
      <3> QED
        BY <2>1, <3>1 DEF Newest
    <2> QED
      BY <2>2, <2>3
  <1>5. n \in 1 .. Len(all) /\ n <= Max /\ (Len(all) <= Max => n = Len(all))
        /\ (Len(all) > Max => n = Max /\ Len(all) = Max + 1)
    BY <1>1, <1>2, MaxType DEF Kept
  <1> HIDE DEF n
  <1>6. kept \in Seq(Ids) /\ Len(kept) = n /\ \A k \in 1 .. n : kept[k] = all[k]
    BY <1>1, <1>2, <1>3, <1>5, SubSeqProperties
  <1>7. Len(all) > Max => Len(rest) = 1 /\ rest \in Seq(Ids) /\ rest[1] = all[Len(all)]
    BY <1>1, <1>2, <1>3, <1>5, SubSeqProperties
  <1> HIDE DEF kept, rest
  <1>8. Newest(kept)
    BY <1>1, <1>2, <1>3, <1>4, <1>5, <1>6 DEF Newest
  <1>9. Members(all) = Members(s) \cup {i}
    <2>1. ASSUME NEW x \in Members(all) PROVE x \in Members(s) \cup {i}
      <3>1. PICK k \in 1 .. Len(all) : x = all[k]
        BY DEF Members
      <3>2. k # 1 => k - 1 \in 1 .. Len(s)
        BY <1>1, <1>2
      <3> QED
        BY <1>2, <3>1, <3>2 DEF Members
    <2>2. ASSUME NEW k \in 1 .. Len(s) PROVE s[k] \in Members(all)
      <3>1. k + 1 \in 1 .. Len(all) /\ all[k + 1] = s[k]
        BY <1>1, <1>2
      <3> QED
        BY <3>1 DEF Members
    <2>3. i \in Members(all)
      BY <1>1, <1>2 DEF Members
    <2> QED
      BY <2>1, <2>2, <2>3 DEF Members
  <1>10. ASSUME Len(all) <= Max PROVE Members(kept) = Members(s) \cup {i}
    BY <1>5, <1>6, <1>9, <1>10 DEF Members
  <1>11. ASSUME Len(all) > Max
         PROVE  /\ Len(rest) = 1
                /\ Head(rest) \in Ids \ Members(kept)
                /\ Members(kept) \cup {Head(rest)} = Members(s) \cup {i}
    <2>1. Head(rest) = all[Len(all)] /\ n + 1 = Len(all) /\ n \in Nat
      <3>1. rest # <<>>
        BY <1>7, <1>11, EmptySeq
      <3> QED
        BY <1>5, <1>7, <1>11, <3>1, MaxType
    <2>2. \A k \in 1 .. n : all[k] # all[Len(all)]
      BY <1>3, <1>4, <1>5, <2>1 DEF Ids
    <2>3. all[Len(all)] \in Ids \ Members(kept)
      BY <1>3, <1>5, <1>6, <2>1, <2>2 DEF Members
    <2>4. \A k : k \in 1 .. Len(all) <=> k \in 1 .. n \/ k = Len(all)
      BY <2>1
    <2>5. Members(all) = Members(kept) \cup {all[Len(all)]}
      BY <1>5, <1>6, <2>4 DEF Members
    <2> QED
      BY <1>7, <1>9, <1>11, <2>1, <2>3, <2>5
  <1> QED
    BY <1>8, <1>10, <1>11 DEF all, n, kept, rest

(* A list without the k-th entry. *)
LEMMA WithoutOne ==
  ASSUME Types, NEW s, Newest(s), NEW k \in 1 .. Len(s)
  PROVE  LET less == SubSeq(s, 1, k - 1) \o SubSeq(s, k + 1, Len(s)) IN
         /\ Newest(less)
         /\ s[k] \in Ids \ Members(less)
         /\ Members(less) \cup {s[k]} = Members(s)
  <1> DEFINE front == SubSeq(s, 1, k - 1)
             back  == SubSeq(s, k + 1, Len(s))
             less  == front \o back
             At2(j) == IF j < k THEN j ELSE j + 1
  <1>1. s \in Seq(Ids) /\ Len(s) \in Nat /\ Len(s) <= Max /\ \A j \in 1 .. Len(s) : s[j] \in Ids
    BY LenProperties, ElementOfSeq DEF Newest
  <1>2. front \in Seq(Ids) /\ Len(front) = k - 1 /\ \A j \in 1 .. k - 1 : front[j] = s[j]
    <2>1. \A j \in 1 .. k - 1 : s[j] \in Ids
      BY <1>1
    <2>2. 1 \in Int /\ k - 1 \in Int
      BY <1>1
    <2> QED
      BY <1>1, <2>1, <2>2, SubSeqProperties
  <1>3. back \in Seq(Ids) /\ Len(back) = Len(s) - k /\ \A j \in 1 .. Len(s) - k : back[j] = s[k + j]
    <2>1. \A j \in k + 1 .. Len(s) : s[j] \in Ids
      BY <1>1
    <2>2. k + 1 \in Int /\ Len(s) \in Int
      BY <1>1
    <2>3. /\ back \in Seq(Ids) /\ Len(back) = IF k + 1 <= Len(s) THEN Len(s) - (k + 1) + 1 ELSE 0
          /\ \A j \in 1 .. Len(s) - (k + 1) + 1 : back[j] = s[k + 1 + j - 1]
      BY <2>1, <2>2, SubSeqProperties
    <2> QED
      BY <1>1, <2>3
  <1> HIDE DEF front, back
  <1>4. /\ less \in Seq(Ids) /\ Len(less) = Len(s) - 1
        /\ \A j \in 1 .. Len(less) : less[j] = s[At2(j)]
    <2>1. /\ less \in Seq(Ids) /\ Len(less) = Len(front) + Len(back)
          /\ \A j \in 1 .. Len(front) + Len(back) :
               less[j] = IF j <= Len(front) THEN front[j] ELSE back[j - Len(front)]
      BY <1>2, <1>3, ConcatProperties
    <2> HIDE DEF less
    <2>2. Len(less) = Len(s) - 1
      BY <1>1, <1>2, <1>3, <2>1
    <2>3. ASSUME NEW j \in 1 .. Len(less) PROVE less[j] = s[At2(j)]
      <3>1. CASE j < k
        <4>1. j \in 1 .. Len(front) + Len(back) /\ j <= Len(front) /\ j \in 1 .. k - 1
          BY <1>1, <1>2, <1>3, <2>2, <3>1
        <4>2. less[j] = front[j] /\ front[j] = s[j]
          BY <1>2, <2>1, <4>1
        <4> QED
          BY <3>1, <4>2
      <3>2. CASE j >= k
        <4>1. j - (k - 1) \in 1 .. Len(s) - k /\ k + (j - (k - 1)) = j + 1
          BY <1>1, <2>2, <3>2
        <4>2. less[j] = back[j - (k - 1)]
          BY <1>1, <1>2, <1>3, <2>1, <2>2, <3>2
        <4> QED
          BY <1>3, <3>2, <4>1, <4>2
      <3> QED
        BY <1>1, <2>2, <3>1, <3>2
    <2> QED
      BY <2>1, <2>2, <2>3
  <1> HIDE DEF less
  <1>5. \A j \in 1 .. Len(less) : At2(j) \in 1 .. Len(s) /\ At2(j) # k
    BY <1>1, <1>4
  <1>6. \A m \in 1 .. Len(s) : m # k => \E j \in 1 .. Len(less) : At2(j) = m
    <2> SUFFICES ASSUME NEW m \in 1 .. Len(s), m # k PROVE \E j \in 1 .. Len(less) : At2(j) = m
      OBVIOUS
    <2>1. CASE m < k
      BY <1>1, <1>4, <2>1
    <2>2. CASE m > k
      <3>1. m - 1 \in 1 .. Len(less) /\ At2(m - 1) = m
        BY <1>1, <1>4, <2>2
      <3> QED
        BY <3>1
    <2> QED
      BY <1>1, <2>1, <2>2
  <1>7. \A i, j \in 1 .. Len(less) : i < j => At2(i) < At2(j)
    BY <1>1, <1>4
  <1> HIDE DEF At2
  <1>8. Newest(less)
    <2>1. Len(less) <= Max
      BY <1>1, <1>4, MaxType
    <2>2. \A j \in 1 .. Len(less) : less[j] <= clock
      BY <1>4, <1>5 DEF Newest
    <2>3. \A i, j \in 1 .. Len(less) : i < j => less[j] < less[i]
      BY <1>4, <1>5, <1>7 DEF Newest
    <2> QED
      BY <1>4, <2>1, <2>2, <2>3 DEF Newest
  <1>9. \A m \in 1 .. Len(s) : m # k => s[m] # s[k]
    BY <1>1 DEF Newest, Ids
  <1>10. s[k] \in Ids \ Members(less)
    BY <1>1, <1>4, <1>5, <1>9 DEF Members
  <1>11. Members(less) \cup {s[k]} = Members(s)
    <2>1. ASSUME NEW m \in 1 .. Len(s), m # k PROVE s[m] \in Members(less)
      <3>1. PICK j \in 1 .. Len(less) : At2(j) = m
        BY <1>6, <2>1
      <3> QED
        BY <1>4, <3>1 DEF Members
    <2>2. ASSUME NEW j \in 1 .. Len(less) PROVE less[j] \in Members(s)
      BY <1>4, <1>5 DEF Members
    <2>3. \A x \in Members(s) : x \in Members(less) \/ x = s[k]
      BY <2>1 DEF Members
    <2>4. \A x \in Members(less) : x \in Members(s)
      BY <2>2 DEF Members
    <2>5. s[k] \in Members(s)
      BY DEF Members
    <2> QED
      BY <2>3, <2>4, <2>5
  <1> QED
    BY <1>8, <1>10, <1>11 DEF less, front, back

(* An index in order reads as it is. *)
LEMMA ReadIsIndex == ASSUME Newest(index) PROVE Read = index
  <1>1. index \in Seq(Ids)
    BY DEF Newest
  <1>2. Broken \notin Seq(Ids)
    <2> SUFFICES ASSUME Broken \in Seq(Ids) PROVE FALSE
      OBVIOUS
    <2>1. Len(Broken) = 1 /\ Broken[1] = 0
      BY DEF Broken
    <2>2. Broken[1] \in Ids
      BY <2>1, ElementOfSeq
    <2> QED
      BY <2>1, <2>2 DEF Ids
  <1> QED
    BY <1>1, <1>2 DEF Read

(* One at a time: the operation that takes a step is the only one. *)
LEMMA OnlyOne ==
  ASSUME Types, OneByOne, alone, NEW p \in Procs, Step(p)
  PROVE  /\ alone'
         /\ \A q \in Procs \ {p} : ~Active(q) /\ pc'[q] = pc[q]
         /\ Active(p) => InOrder(p)
         /\ ~Active(p) => Resting
  <1> USE DEF Types, TypeOK, Held
  <1>1. alone'
    BY DEF Step, Create, Invoke, NothingToTake, CopyBegin, CopyEnd, CopyFails, ListNew,
       NotFound, Unlist, Unlink, WriteBegin, WriteEnd, Find, Access, Restored, Die
  <1>2. \A q \in Procs \ {p} : pc'[q] = pc[q]
    <2>1. CASE End(p)
      BY <2>1 DEF End
    <2>2. CASE \E l \in {"copying", "copied", "unlink", "write", "writing", "found", "restoring"} :
                 pc' = [pc EXCEPT ![p] = l]
      BY <2>2
    <2>3. CASE Create(p)
      BY <2>3 DEF Create
    <2>4. CASE \E o \in {"delete", "restore"}, i \in Ids : Invoke(p, o, i)
      BY <2>4 DEF Invoke
    <2> QED
      BY <2>1, <2>2, <2>3, <2>4, Moves
  <1>3. Active(p) \/ \A q \in Procs : ~Active(q)
    <2>1. CASE Create(p) \/ \E o \in {"delete", "restore"}, i \in Ids : Invoke(p, o, i)
      BY <2>1 DEF Create, Invoke, Active
    <2>2. CASE ~(Create(p) \/ \E o \in {"delete", "restore"}, i \in Ids : Invoke(p, o, i))
      BY <2>2 DEF Active, At, Step, NothingToTake, CopyBegin, CopyEnd, CopyFails, ListNew,
         NotFound, Unlist, Unlink, WriteBegin, WriteEnd, Find, Access, Restored, Die
    <2> QED
      BY <2>1, <2>2
  <1>4. \A q \in Procs \ {p} : ~Active(q)
    BY <1>3 DEF OneByOne
  <1> QED
    BY <1>1, <1>2, <1>3, <1>4 DEF OneByOne

(* What a step leaves: the operation in order, or the directory at rest. *)
LEMMA StepInOrder ==
  ASSUME Types, OneByOne, alone, NEW p \in Procs, Step(p)
  PROVE  /\ Active(p)' => InOrder(p)'
         /\ ~Active(p)' => Resting'
  <1> USE DEF Types, TypeOK, Held
  <1>0. /\ \A q \in Procs \ {p} : ~Active(q)
        /\ Active(p) => InOrder(p)
        /\ ~Active(p) => Resting
    BY OnlyOne
  <1>a. clock \in Nat /\ \A i \in Ids : i \in Nat
    BY MaxIdsType DEF Ids
  <1>1. CASE Create(p)
    <2>1. PICK i \in Ids : i = clock + 1 /\ clock' = i /\ id' = [id EXCEPT ![p] = i]
      BY <1>1 DEF Create
    <2>2. pc'[p] = "start" /\ op'[p] = "create" /\ UNCHANGED <<files, index>> /\ id'[p] = i
      BY <1>1, <2>1 DEF Create, disk
    <2>3. Resting
      BY <1>0, <1>1 DEF Create, Active
    <2>4. index \in Seq(Ids) /\ \A k \in 1 .. Len(index) : index[k] \in Ids /\ index[k] <= clock
      BY <2>3, ElementOfSeq DEF Resting, Newest
    <2>8. clock' = clock + 1 /\ \A k \in 1 .. Len(index) : index[k] <= clock' /\ index[k] < clock'
      <3>1. clock' = clock + 1
        BY <2>1
      <3> QED
        BY <1>a, <2>4, <3>1
    <2>5. Newest(index)'
      BY <2>2, <2>3, <2>8 DEF Resting, Newest
    <2>6. FilesAre(Members(index), {})'
      BY <2>2, <2>3 DEF Resting, FilesAre
    <2>7. Fresh(p)'
      BY <1>a, <2>1, <2>2, <2>8 DEF Fresh
    <2> QED
      BY <2>2, <2>5, <2>6, <2>7 DEF InOrder, Active
  <1>2. ASSUME NEW o \in {"delete", "restore"}, NEW i \in Ids, Invoke(p, o, i)
        PROVE  InOrder(p)' /\ Active(p)'
    <2>1. pc'[p] = "start" /\ op'[p] = o /\ UNCHANGED <<files, index, clock>>
      BY <1>2 DEF Invoke, disk
    <2>2. Resting
      BY <1>0, <1>2 DEF Invoke, Active
    <2>3. Newest(index)' /\ FilesAre(Members(index), {})'
      BY <2>1, <2>2 DEF Resting, Newest, FilesAre
    <2> QED
      BY <2>1, <2>3 DEF InOrder, Active
  <1>3. CASE NothingToTake(p)
    <2>1. InOrder(p) /\ At(p, "create", "start")
      BY <1>0, <1>3 DEF NothingToTake, At, Active
    <2>2. Newest(index) /\ FilesAre(Members(index), {}) /\ Fresh(p)
      BY <2>1 DEF InOrder, At
    <2>3. files[id[p]] = "absent"
      <3>1. id[p] \in Ids /\ id[p] \in Nat /\ \A k \in 1 .. Len(index) : index[k] < id[p]
        BY <1>a, <2>2 DEF Fresh
      <3>2. id[p] \notin Members(index)
        BY <3>1 DEF Members
      <3> QED
        BY <2>2, <3>1, <3>2 DEF FilesAre
    <2>4. End(p) /\ UNCHANGED <<files, index, clock>>
      BY <1>3, <2>3 DEF NothingToTake, disk
    <2> QED
      BY <2>2, <2>4 DEF End, Active, Resting, Newest, FilesAre
  <1>4. CASE CopyBegin(p)
    <2>1. InOrder(p) /\ At(p, "create", "start")
      BY <1>0, <1>4 DEF CopyBegin, At, Active
    <2>2. Newest(index) /\ FilesAre(Members(index), {}) /\ Fresh(p)
      BY <2>1 DEF InOrder, At
    <2>3. /\ pc'[p] = "copying" /\ op'[p] = "create" /\ UNCHANGED <<index, clock, id>>
          /\ files' = [files EXCEPT ![id[p]] = "partial"]
      BY <1>4, <2>1 DEF CopyBegin, mem, Go, At
    <2>4. id[p] \notin Members(index)
      BY <1>a, <2>2 DEF Fresh, Members
    <2>5. FilesAre(Members(index), {id[p]})'
      BY <2>2, <2>3, <2>4 DEF FilesAre
    <2>6. Newest(index)' /\ Fresh(p)'
      BY <2>2, <2>3 DEF Newest, Fresh
    <2> QED
      BY <2>3, <2>5, <2>6 DEF InOrder, Active
  <1>5. CASE CopyEnd(p)
    <2>1. InOrder(p) /\ At(p, "create", "copying")
      BY <1>0, <1>5 DEF CopyEnd, At, Active
    <2>2. Newest(index) /\ FilesAre(Members(index), {id[p]}) /\ Fresh(p)
      BY <2>1 DEF InOrder, At
    <2>3. Others(p, "copying") = {}
      BY <1>0 DEF Others, Active
    <2>4. id[p] \notin Members(index)
      BY <1>a, <2>2 DEF Fresh, Members
    <2>5. files[id[p]] = "partial"
      BY <2>2, <2>4 DEF FilesAre, Fresh
    <2>6. /\ pc'[p] = "copied" /\ op'[p] = "create" /\ UNCHANGED <<index, clock, id>>
          /\ files' = [files EXCEPT ![id[p]] = "whole"]
      BY <1>5, <2>1, <2>3, <2>5 DEF CopyEnd, mem, Go, At
    <2>7. FilesAre(Members(index) \cup {id[p]}, {})'
      BY <2>2, <2>6 DEF FilesAre
    <2>8. Newest(index)' /\ Fresh(p)'
      BY <2>2, <2>6 DEF Newest, Fresh
    <2> QED
      BY <2>6, <2>7, <2>8 DEF InOrder, Active
  <1>6. CASE ListNew(p)
    <2> DEFINE all == <<id[p]>> \o index
    <2>1. InOrder(p) /\ At(p, "create", "copied")
      BY <1>0, <1>6 DEF ListNew, At, Active
    <2>2. Newest(index) /\ FilesAre(Members(index) \cup {id[p]}, {}) /\ Fresh(p)
      BY <2>1 DEF InOrder, At
    <2>3. /\ list'[p] = SubSeq(all, 1, Kept(all, Max))
          /\ doomed'[p] = SubSeq(all, Kept(all, Max) + 1, Len(all))
          /\ pc'[p] = IF Len(all) > Max THEN "unlink" ELSE "write"
          /\ op'[p] = "create" /\ UNCHANGED <<files, index, clock, id>>
      BY <1>6, <2>2, ReadIsIndex DEF ListNew, disk, Go, At
    <2>4. /\ Newest(list'[p])
          /\ Len(all) <= Max => Members(list'[p]) = Members(index) \cup {id[p]}
          /\ Len(all) > Max =>
               /\ Len(doomed'[p]) = 1
               /\ Head(doomed'[p]) \in Ids \ Members(list'[p])
               /\ Members(list'[p]) \cup {Head(doomed'[p])} = Members(index) \cup {id[p]}
      BY <2>2, <2>3, InFront DEF Fresh
    <2>5. Len(all) \in Nat
      <3>1. <<id[p]>> \in Seq(Ids)
        BY <2>2 DEF Fresh
      <3> QED
        BY <2>2, <3>1, ConcatProperties, LenProperties DEF Newest
    <2>6. Follows(p)'
      BY <2>2, <2>3 DEF Follows, Fresh
    <2> HIDE DEF all
    <2>7. Newest(index)' /\ Newest(list[p])'
      BY <2>2, <2>3, <2>4 DEF Newest
    <2>8. CASE Len(all) <= Max
      <3>1. FilesAre(Members(list[p]), {})'
        BY <2>2, <2>3, <2>4, <2>8 DEF FilesAre
      <3>2. pc'[p] = "write"
        BY <2>3, <2>5, <2>8, MaxType
      <3> QED
        BY <2>6, <2>7, <3>1, <3>2 DEF InOrder, Active
    <2>9. CASE Len(all) > Max
      <3>1. FilesAre(Members(list[p]) \cup {Head(doomed[p])}, {})'
        BY <2>2, <2>3, <2>4, <2>9 DEF FilesAre
      <3>2. pc'[p] = "unlink"
        BY <2>3, <2>9
      <3> QED
        BY <2>4, <2>6, <2>7, <2>9, <3>1, <3>2 DEF InOrder, Active
    <2> QED
      BY <2>5, <2>8, <2>9, MaxType
  <1>7. CASE NotFound(p) \/ Find(p) \/ Access(p) \/ Restored(p)
    <2>1. InOrder(p) /\ op[p] \in {"delete", "restore"} /\ pc[p] \in {"start", "found", "restoring"}
      BY <1>0, <1>7 DEF NotFound, Find, Access, Restored, At, Active
    <2>2. Newest(index) /\ FilesAre(Members(index), {})
      BY <2>1 DEF InOrder
    <2>3. /\ UNCHANGED <<files, index, clock>>
          /\ \/ End(p)
             \/ op'[p] = "restore" /\ pc'[p] \in {"found", "restoring"}
      BY <1>7 DEF NotFound, Find, Access, Restored, At, Go, disk
    <2>4. Newest(index)' /\ FilesAre(Members(index), {})'
      BY <2>2, <2>3 DEF Newest, FilesAre
    <2> QED
      BY <2>3, <2>4 DEF End, Active, InOrder, Resting
  <1>8. CASE Unlist(p)
    <2>1. InOrder(p) /\ At(p, "delete", "start")
      BY <1>0, <1>8 DEF Unlist, At, Active
    <2>2. Newest(index) /\ FilesAre(Members(index), {})
      BY <2>1 DEF InOrder, At
    <2>3. DOMAIN index = 1 .. Len(index)
      BY <2>2, LenProperties DEF Newest
    <2>4. PICK k \in 1 .. Len(index) :
            /\ index[k] = id[p]
            /\ list' = [list EXCEPT ![p] = SubSeq(index, 1, k - 1) \o SubSeq(index, k + 1, Len(index))]
      BY <1>8, <2>2, <2>3, ReadIsIndex DEF Unlist
    <2>5. /\ list'[p] = SubSeq(index, 1, k - 1) \o SubSeq(index, k + 1, Len(index))
          /\ doomed'[p] = <<id[p]>> /\ pc'[p] = "unlink" /\ op'[p] = "delete"
          /\ UNCHANGED <<files, index, clock, id>>
      BY <1>8, <2>1, <2>4 DEF Unlist, disk, Go, At
    <2>6. /\ Newest(list'[p])
          /\ id[p] \in Ids \ Members(list'[p])
          /\ Members(list'[p]) \cup {id[p]} = Members(index)
      BY <2>2, <2>4, <2>5, WithoutOne
    <2>7. Len(doomed'[p]) = 1 /\ Head(doomed'[p]) = id[p]
      BY <2>5
    <2>8. Follows(p)'
      BY <2>4, <2>5, <2>6 DEF Follows
    <2>9. Newest(index)' /\ Newest(list[p])'
      BY <2>2, <2>5, <2>6 DEF Newest
    <2>10. FilesAre(Members(list[p]) \cup {Head(doomed[p])}, {})'
      BY <2>2, <2>5, <2>6, <2>7 DEF FilesAre
    <2> QED
      BY <2>5, <2>6, <2>7, <2>8, <2>9, <2>10 DEF InOrder, Active
  <1>9. CASE Unlink(p)
    <2>1. InOrder(p) /\ pc[p] = "unlink"
      BY <1>0, <1>9 DEF Unlink, Active
    <2>2. /\ Newest(index) /\ Newest(list[p]) /\ Follows(p) /\ Len(doomed[p]) = 1
          /\ Head(doomed[p]) \in Ids \ Members(list[p])
          /\ FilesAre(Members(list[p]) \cup {Head(doomed[p])}, {})
      BY <2>1 DEF InOrder
    <2>3. /\ files' = [files EXCEPT ![Head(doomed[p])] = "absent"]
          /\ pc'[p] = "write" /\ UNCHANGED <<index, clock, id, list, op>>
      BY <1>9, <2>2 DEF Unlink, Go
    <2>4. FilesAre(Members(list[p]), {})'
      BY <2>2, <2>3 DEF FilesAre
    <2>5. Newest(index)' /\ Newest(list[p])' /\ Follows(p)'
      BY <2>2, <2>3 DEF Newest, Follows
    <2> QED
      BY <2>3, <2>4, <2>5 DEF InOrder, Active
  <1>10. CASE WriteBegin(p)
    <2>1. InOrder(p) /\ pc[p] = "write"
      BY <1>0, <1>10 DEF WriteBegin, Active
    <2>2. Newest(list[p]) /\ FilesAre(Members(list[p]), {})
      BY <2>1 DEF InOrder
    <2>3. index' = <<>> /\ pc'[p] = "writing" /\ UNCHANGED <<files, clock, list>>
      BY <1>10 DEF WriteBegin, Go, mem
    <2>4. Newest(list[p])' /\ FilesAre(Members(list[p]), {})'
      BY <2>2, <2>3 DEF Newest, FilesAre
    <2> QED
      BY <2>3, <2>4 DEF InOrder, Active
  <1>11. CASE WriteEnd(p)
    <2>1. InOrder(p) /\ pc[p] = "writing"
      BY <1>0, <1>11 DEF WriteEnd, Active
    <2>2. index = <<>> /\ Newest(list[p]) /\ FilesAre(Members(list[p]), {})
      BY <2>1 DEF InOrder
    <2>3. index' = list[p] /\ pc'[p] = "idle" /\ UNCHANGED <<files, clock>>
      BY <1>11, <2>2 DEF WriteEnd, End
    <2> QED
      BY <2>2, <2>3 DEF Resting, Newest, FilesAre, Active
  <1> QED
    BY <1>1, <1>2, <1>3, <1>4, <1>5, <1>6, <1>7, <1>8, <1>9, <1>10, <1>11 DEF Step, CopyFails, Die

LEMMA OneByOneStep == ASSUME Types, OneByOne, NEW p \in Procs, Step(p) PROVE OneByOne'
  <1>1. alone' => alone
    BY DEF Step, Create, Invoke, NothingToTake, CopyBegin, CopyEnd, CopyFails, ListNew,
       NotFound, Unlist, Unlink, WriteBegin, WriteEnd, Find, Access, Restored, Die
  <1> SUFFICES ASSUME alone PROVE OneByOne'
    BY <1>1 DEF OneByOne
  <1>2. \A q \in Procs \ {p} : ~Active(q)'
    BY OnlyOne DEF Active
  <1>3. (Active(p)' => InOrder(p)') /\ (~Active(p)' => Resting')
    BY StepInOrder
  <1> QED
    BY <1>2, <1>3 DEF OneByOne

(* The list that NewestFirst knows is the one in the index, or the one that is
   being written to it. *)
LEMMA CommittedIs ==
  ASSUME NEW p \in Procs, \A q \in Procs \ {p} : pc[q] # "writing"
  PROVE  Committed = IF pc[p] = "writing" THEN list[p] ELSE index
  <1>1. CASE pc[p] = "writing"
    <2>1. \A q \in Procs : pc[q] = "writing" <=> q = p
      BY <1>1
    <2>2. (CHOOSE q \in Procs : pc[q] = "writing") = p
      BY <2>1
    <2> QED
      BY <1>1, <2>2 DEF Committed
  <1>2. CASE pc[p] # "writing"
    BY <1>2 DEF Committed
  <1> QED
    BY <1>1, <1>2

LEMMA WriteIsAddOrDrop ==
  ASSUME NEW p \in Procs, Newest(index), Follows(p), Visible = index, Visible' = list[p]
  PROVE  History!Next
  <1>1. DOMAIN index = 1 .. Len(index) /\ Len(index) \in Nat /\ index \in Seq(Ids) /\ Len(index) <= Max
    BY LenProperties DEF Newest
  <1>2. ASSUME op[p] = "create", id[p] \in Ids, \A k \in 1 .. Len(index) : index[k] < id[p],
               list[p] = SubSeq(<<id[p]>> \o index, 1, Kept(<<id[p]>> \o index, Max))
        PROVE  History!Add(id[p])
    <2>1. Len(<<id[p]>> \o index) = Len(index) + 1
      <3>1. <<id[p]>> \in Seq(Ids) /\ Len(<<id[p]>>) = 1
        BY <1>2
      <3> QED
        BY <1>1, <3>1, ConcatProperties
    <2>2. Kept(<<id[p]>> \o index, Max) = IF Len(index) < Max THEN Len(index) + 1 ELSE Max
      BY <1>1, <2>1, MaxType DEF Kept
    <2> QED
      BY <1>1, <1>2, <2>2 DEF History!Add
  <1>3. ASSUME NEW k \in 1 .. Len(index), index[k] = id[p],
               list[p] = SubSeq(index, 1, k - 1) \o SubSeq(index, k + 1, Len(index))
        PROVE  History!Drop(id[p])
    BY <1>1, <1>3 DEF History!Drop
  <1> QED
    BY <1>2, <1>3 DEF Follows, History!Next

LEMMA StepImplements ==
  ASSUME Types, OneByOne, NEW p \in Procs, Step(p)
  PROVE  [History!Next]_Visible
  <1> USE DEF Types, TypeOK, Held
  <1>0. alone' = alone
    BY DEF Step, Create, Invoke, NothingToTake, CopyBegin, CopyEnd, CopyFails, ListNew,
       NotFound, Unlist, Unlink, WriteBegin, WriteEnd, Find, Access, Restored, Die
  <1>1. CASE ~alone
    BY <1>0, <1>1 DEF Visible
  <1>2. CASE alone
    <2>1. \A q \in Procs \ {p} : pc[q] # "writing" /\ pc'[q] # "writing"
      BY <1>2, OnlyOne DEF Active
    <2>2. Visible = IF pc[p] = "writing" THEN list[p] ELSE index
      BY <1>2, <2>1, CommittedIs DEF Visible
    <2>3. Visible' = IF pc'[p] = "writing" THEN list'[p] ELSE index'
      <3>1. Committed' = IF pc'[p] = "writing" THEN list'[p] ELSE index'
        <4>1. CASE pc'[p] = "writing"
          <5>1. \A q \in Procs : pc'[q] = "writing" <=> q = p
            BY <2>1, <4>1
          <5>2. (CHOOSE q \in Procs : pc'[q] = "writing") = p
            BY <5>1
          <5> QED
            BY <4>1, <5>2 DEF Committed
        <4>2. CASE pc'[p] # "writing"
          BY <2>1, <4>2 DEF Committed
        <4> QED
          BY <4>1, <4>2
      <3> QED
        BY <1>0, <1>2, <3>1 DEF Visible
    <2>4. CASE WriteBegin(p)
      <3>1. pc[p] = "write" /\ pc'[p] = "writing" /\ list'[p] = list[p]
        BY <2>4 DEF WriteBegin, Go, mem
      <3>2. Newest(index) /\ Follows(p)
        BY <1>2, <3>1, OnlyOne DEF Active, InOrder
      <3> QED
        BY <2>2, <2>3, <3>1, <3>2, WriteIsAddOrDrop
    <2>5. CASE WriteEnd(p)
      <3>1. index = <<>>
        BY <1>2, <2>5, OnlyOne DEF WriteEnd, Active, InOrder
      <3>2. pc[p] = "writing" /\ pc'[p] = "idle" /\ index' = list[p]
        BY <2>5, <3>1 DEF WriteEnd, End
      <3> QED
        BY <2>2, <2>3, <3>2
    <2>6. CASE ~WriteBegin(p) /\ ~WriteEnd(p)
      <3>1. index' = index
        BY <2>6 DEF Step, Create, Invoke, NothingToTake, CopyBegin, CopyEnd, CopyFails, ListNew, disk,
           NotFound, Unlist, Unlink, Find, Access, Restored, Die
      <3>2. pc'[p] # "writing"
        BY <2>6 DEF Step, Create, Invoke, NothingToTake, CopyBegin, CopyEnd, CopyFails, ListNew, Go, End,
           NotFound, Unlist, Unlink, Find, Access, Restored, Die
      <3>3. pc[p] # "writing"
        BY <1>2, <2>6, OnlyOne DEF At, Step, Create, Invoke, NothingToTake, CopyBegin, CopyEnd, CopyFails,
           ListNew, NotFound, Unlist, Unlink, Find, Access, Restored, Die
      <3> QED
        BY <2>2, <2>3, <3>1, <3>2, <3>3
    <2> QED
      BY <2>4, <2>5, <2>6
  <1> QED
    BY <1>1, <1>2

(* The files, the index and the lists in hand of operations one at a time. *)
LEMMA OneByOneInvariance == Spec => [](Types /\ OneByOne)
  <1>1. Init => Types /\ OneByOne
    <2> SUFFICES ASSUME Init PROVE Resting /\ \A p \in Procs : ~Active(p)
      BY InitTypes DEF OneByOne
    <2>1. <<>> \in Seq(Ids) /\ Len(<<>>) = 0
      BY EmptySeq
    <2> QED
      BY <2>1, MaxType DEF Init, Resting, Newest, FilesAre, Members, Active
  <1>2. Types /\ OneByOne /\ [Next]_vars => (Types /\ OneByOne)'
    <2> SUFFICES ASSUME Types, OneByOne, [Next]_vars PROVE OneByOne'
      BY NextTypes
    <2>1. CASE UNCHANGED vars
      <3>1. UNCHANGED <<alone, clock, files, index, pc, op, id, list, doomed>>
        BY <2>1 DEF vars, disk, mem
      <3>2. Resting => Resting'
        BY <3>1 DEF Resting, Newest, FilesAre
      <3>3. ASSUME NEW p \in Procs, InOrder(p) PROVE InOrder(p)'
        BY <3>1, <3>3 DEF InOrder, Newest, FilesAre, Follows, Fresh
      <3>4. \A p \in Procs : Active(p)' <=> Active(p)
        BY <3>1 DEF Active
      <3> QED
        BY <3>1, <3>2, <3>3, <3>4 DEF OneByOne
    <2>2. CASE Next
      BY <2>2, OneByOneStep DEF Next
    <2> QED
      BY <2>1, <2>2
  <1> QED
    BY <1>1, <1>2, PTL DEF Spec

(* Whenever operations that neither overlap nor fail have ended, the directory
   holds the files that the index lists, whole, and no others, whatever was
   pruned, deleted or not found (avatar-versioning.ts, backup-system.ts). *)
THEOREM DirectoryMatches == Spec => []IndexMatchesFiles
  <1>1. Types /\ OneByOne => IndexMatchesFiles
    <2> SUFFICES ASSUME Types, OneByOne, alone, \A p \in Procs : pc[p] = "idle", NEW i \in Ids
                 PROVE  files[i] = IF i \in Listed THEN "whole" ELSE "absent"
      BY DEF IndexMatchesFiles
    <2>1. Newest(index) /\ FilesAre(Members(index), {})
      BY DEF OneByOne, Active, Resting
    <2>2. Members(index) = Listed
      BY <2>1, LenProperties DEF Newest, Members, Listed
    <2> QED
      BY <2>1, <2>2 DEF FilesAre
  <1> QED
    BY <1>1, OneByOneInvariance, PTL

(* Such operations implement NewestFirst: the index changes only when it is
   written, to a newer snapshot before the newest Max - 1, or by one deletion
   (avatar-versioning.ts, backup-system.ts). *)
THEOREM ImplementsNewestFirst == Spec => KeepsNewestFirst
  <1>1. Init => History!Init
    <2> SUFFICES ASSUME Init PROVE Visible = <<>>
      BY DEF History!Init
    <2>1. Committed = <<>>
      BY DEF Init, Committed
    <2> QED
      BY <2>1 DEF Visible
  <1>2. Types /\ OneByOne /\ [Next]_vars => [History!Next]_Visible
    <2> SUFFICES ASSUME Types, OneByOne, [Next]_vars PROVE [History!Next]_Visible
      OBVIOUS
    <2>1. CASE UNCHANGED vars
      BY <2>1 DEF vars, disk, mem, Visible, Committed
    <2>2. CASE Next
      BY <2>2, StepImplements DEF Next
    <2> QED
      BY <2>1, <2>2
  <1> QED
    BY <1>1, <1>2, OneByOneInvariance, PTL DEF Spec, KeepsNewestFirst, History!Spec

-----------------------------------------------------------------------------
(* Archives.  The stream that is left to parse, the buffer and what is still
   to come, has a record for each file that is to be restored exactly and is
   not yet, and these records are the first in it.  A record begins where the
   one before it ends, so that the parser, which is somewhere inside of the
   first, finds every one of them.                                          *)

(* What an archive is made of. *)
Units == {"head", "tail", "byte"} \X Archive!Names \X Nat

(* The k-th unit of s is the beginning of a record of f; the record after it,
   if the record is the one of version v[f], begins at Past. *)
Begins(s, f, k) == s[k][1] = "head" /\ s[k][2] = f
Past(v, f, k) == k + 2 + Size[v[f]]

Whole(s, v, f, k) ==
  /\ s[k][3] = Size[v[f]]
  /\ Past(v, f, k) <= Len(s) + 1
  /\ \A j \in k + 1 .. Past(v, f, k) - 1 : s[j][1] # "head"
  /\ \A j \in k + 2 .. Past(v, f, k) - 1 : s[j] = <<"byte", f, v[f]>>

(* What is before k are records of files of w, one behind the other. *)
Behind(s, v, w, k) ==
  k = 1 \/ \E g \in w, j \in 1 .. Len(s) : Begins(s, g, j) /\ k = Past(v, g, j)

(* Of the files of e, the stream s has the records of those of w, each once,
   whole, and before any others. *)
Intact(s, v, e, w) ==
  /\ \A f \in w : \E k \in 1 .. Len(s) : Begins(s, f, k)
  /\ \A f \in e, k \in 1 .. Len(s) :
       Begins(s, f, k) => f \in w /\ Whole(s, v, f, k) /\ Behind(s, v, w, k)
  /\ \A f \in e, j, k \in 1 .. Len(s) : Begins(s, f, j) /\ Begins(s, f, k) => j = k

Packed(s, v, e, w) ==
  /\ s \in Seq(Units)
  /\ e \subseteq Archive!Names /\ w \subseteq e
  /\ \A f \in e : v[f] \in 1 .. Len(Size)

LEMMA PackedSizes ==
  ASSUME NEW s, NEW v, NEW e, NEW w, Packed(s, v, e, w)
  PROVE  Len(s) \in Nat /\ \A f \in e : Size[v[f]] \in Nat
  <1>1. \A n \in 1 .. Len(Size) : Size[n] \in Nat
    BY ArchiveParameters, ElementOfSeq
  <1> QED
    BY <1>1, LenProperties DEF Packed

(* A set of numbers that is not empty has a least one. *)
LEMMA LeastOf == ASSUME NEW R \in SUBSET Nat, R # {} PROVE \E n \in R : \A i \in R : n <= i
  <1> DEFINE less == OpToRel(<, Nat)
  <1>1. \E n \in R : \A i \in R : <<i, n>> \notin less
    BY NatLessThanWellFounded, WFMin
  <1>2. \A i, n \in Nat : i < n => <<i, n>> \in less
    BY DEF OpToRel
  <1> HIDE DEF less
  <1>3. PICK n \in R : \A i \in R : <<i, n>> \notin less
    BY <1>1
  <1>4. ASSUME NEW i \in R PROVE n <= i
    <2>1. ~(i < n)
      BY <1>2, <1>3
    <2> QED
      BY <2>1
  <1> QED
    BY <1>3, <1>4

(* One of the files whose records are left is the first in the stream. *)
LEMMA FirstWaits ==
  ASSUME NEW s, NEW v, NEW e, NEW w, Packed(s, v, e, w), Intact(s, v, e, w), w # {}
  PROVE  Len(s) >= 1 /\ \E f \in w : Begins(s, f, 1)
  <1> DEFINE starts == {k \in 1 .. Len(s) : \E f \in w : Begins(s, f, k)}
  <1>1. starts \in SUBSET Nat /\ starts # {}
    BY DEF Intact
  <1>2. PICK k \in starts : \A i \in starts : k <= i
    BY <1>1, LeastOf
  <1>3. PICK f \in w : Begins(s, f, k)
    OBVIOUS
  <1>4. k \in 1 .. Len(s) /\ Behind(s, v, w, k)
    BY <1>3 DEF Intact, Packed
  <1>5. ASSUME NEW g \in w, NEW j \in 1 .. Len(s), Begins(s, g, j), k = Past(v, g, j) PROVE FALSE
    <2>1. j \in starts /\ Size[v[g]] \in Nat
      BY <1>5, PackedSizes DEF Packed
    <2> QED
      BY <1>2, <1>4, <1>5, <2>1 DEF Past
  <1>6. k = 1
    BY <1>4, <1>5 DEF Behind
  <1> QED
    BY <1>3, <1>4, <1>6, PackedSizes

(* The rest of a stream. *)
LEMMA Rest ==
  ASSUME NEW s \in Seq(Units), NEW m \in 0 .. Len(s)
  PROVE  LET t == SubSeq(s, m + 1, Len(s)) IN
         /\ t \in Seq(Units) /\ Len(t) = Len(s) - m
         /\ \A k \in 1 .. Len(s) - m : t[k] = s[m + k]
  <1>1. Len(s) \in Nat /\ m + 1 \in Int
    BY LenProperties
  <1>2. \A i \in m + 1 .. Len(s) : s[i] \in Units
    BY <1>1, ElementOfSeq
  <1>3. /\ SubSeq(s, m + 1, Len(s)) \in Seq(Units)
        /\ Len(SubSeq(s, m + 1, Len(s))) = IF m + 1 <= Len(s) THEN Len(s) - (m + 1) + 1 ELSE 0
        /\ \A i \in 1 .. Len(s) - (m + 1) + 1 : SubSeq(s, m + 1, Len(s))[i] = s[m + 1 + i - 1]
    BY <1>1, <1>2, SubSeqProperties
  <1> QED
    BY <1>1, <1>3

(* The parser takes the first record out of the stream. *)
LEMMA Consumed ==
  ASSUME NEW s, NEW v, NEW e, NEW w, Packed(s, v, e, w), Intact(s, v, e, w),
         NEW f \in w, Len(s) >= 1, Begins(s, f, 1)
  PROVE  Intact(SubSeq(s, Past(v, f, 1), Len(s)), v, e, w \ {f})
  <1> DEFINE m == 2 + Size[v[f]]
             t == SubSeq(s, m + 1, Len(s))
  <1>1. Len(s) \in Nat /\ (\A g \in e : Size[v[g]] \in Nat) /\ f \in e /\ m \in Nat /\ m >= 2 /\ Past(v, f, 1) = m + 1
    <2>1. Len(s) \in Nat /\ \A g \in e : Size[v[g]] \in Nat
      BY PackedSizes
    <2>2. f \in e
      BY DEF Packed
    <2> QED
      BY <2>1, <2>2 DEF Past
  <1>2. Whole(s, v, f, 1) /\ m <= Len(s)
    BY <1>1 DEF Intact, Whole
  <1>3. Len(t) = Len(s) - m /\ \A k \in 1 .. Len(s) - m : t[k] = s[m + k]
    <2>1. s \in Seq(Units) /\ m \in 0 .. Len(s)
      BY <1>1, <1>2 DEF Packed
    <2> HIDE DEF m
    <2> QED
      BY <2>1, Rest
  <1>4. ASSUME NEW g \in e, NEW k \in 1 .. Len(s), Begins(s, g, k)
        PROVE  /\ g = f => k = 1
               /\ g # f => k > m
    <2>1. 1 \in 1 .. Len(s)
      BY <1>1
    <2>2. g = f => k = 1
      BY <1>1, <1>4, <2>1 DEF Intact
    <2>3. k = 1 => g = f
      BY <1>4 DEF Begins
    <2>4. k \notin 2 .. m
      BY <1>1, <1>2, <1>4 DEF Whole, Begins
    <2> QED
      BY <1>1, <2>2, <2>3, <2>4
  <1>5. \A g, k : k \in 1 .. Len(t) => (Begins(t, g, k) <=> Begins(s, g, m + k))
    BY <1>1, <1>2, <1>3 DEF Begins
  <1> HIDE DEF m, t
  <1>6. ASSUME NEW g \in w \ {f} PROVE \E k \in 1 .. Len(t) : Begins(t, g, k)
    <2>1. PICK k \in 1 .. Len(s) : Begins(s, g, k)
      BY DEF Intact
    <2>2. k > m
      BY <1>4, <2>1 DEF Packed
    <2>3. k - m \in 1 .. Len(t) /\ m + (k - m) = k
      BY <1>1, <1>3, <2>2
    <2> QED
      BY <1>5, <2>1, <2>3
  <1>7. ASSUME NEW g \in e, NEW k \in 1 .. Len(t), Begins(t, g, k)
        PROVE  g \in w \ {f} /\ Whole(t, v, g, k) /\ Behind(t, v, w \ {f}, k)
    <2>1. m + k \in 1 .. Len(s) /\ Begins(s, g, m + k)
      <3>1. m + k \in 1 .. Len(s)
        BY <1>1, <1>3
      <3> QED
        BY <1>5, <1>7, <3>1
    <2>2. g \in w /\ Whole(s, v, g, m + k) /\ Behind(s, v, w, m + k)
      BY <2>1 DEF Intact
    <2>3. g # f /\ Size[v[g]] \in Nat /\ k \in Nat
      BY <1>1, <1>3, <1>4, <2>1
    <2>4. Whole(t, v, g, k)
      <3>1. Past(v, g, m + k) = m + Past(v, g, k) /\ Past(v, g, k) \in Nat
        <4>1. Past(v, g, m + k) = m + k + 2 + Size[v[g]] /\ Past(v, g, k) = k + 2 + Size[v[g]]
          BY DEF Past
        <4>2. m \in Nat
          BY <1>1
        <4> QED
          BY <2>3, <4>1, <4>2
      <3>2. Past(v, g, k) <= Len(t) + 1 /\ t[k] = s[m + k]
        BY <1>1, <1>3, <2>2, <3>1 DEF Whole
      <3>3. \A j \in k + 1 .. Past(v, g, k) - 1 :
              /\ t[j] = s[m + j]
              /\ m + j \in m + k + 1 .. Past(v, g, m + k) - 1
              /\ j \in k + 2 .. Past(v, g, k) - 1 => m + j \in m + k + 2 .. Past(v, g, m + k) - 1
        BY <1>1, <1>3, <2>3, <3>1, <3>2
      <3>4. k + 2 .. Past(v, g, k) - 1 \subseteq k + 1 .. Past(v, g, k) - 1
        BY <3>1
      <3> QED
        BY <2>2, <3>2, <3>3, <3>4 DEF Whole
    <2>5. Behind(t, v, w \ {f}, k)
      <3>1. m + k # 1
        BY <1>1, <1>2 DEF m
      <3>2. PICK h \in w, j \in 1 .. Len(s) : Begins(s, h, j) /\ m + k = Past(v, h, j)
        BY <2>2, <3>1 DEF Behind
      <3>3. h \in e /\ Size[v[h]] \in Nat
        BY <1>1 DEF Packed
      <3>4. CASE h = f
        <4>1. m + k = m + 1
          BY <1>1, <1>4, <3>2, <3>3, <3>4
        <4> QED
          BY <1>1, <4>1 DEF Behind
      <3>5. CASE h # f
        <4>1. j > m
          BY <1>4, <3>2, <3>3, <3>5
        <4>2. j - m \in 1 .. Len(t) /\ m + (j - m) = j /\ k = Past(v, h, j - m)
          <5>1. Past(v, h, j - m) = j - m + 2 + Size[v[h]] /\ m + k = j + 2 + Size[v[h]]
            BY <3>2 DEF Past
          <5>2. m \in Nat /\ Len(s) \in Nat /\ Len(t) = Len(s) - m
            BY <1>1, <1>3
          <5> QED
            BY <2>3, <3>2, <3>3, <4>1, <5>1, <5>2
        <4>3. Begins(t, h, j - m)
          BY <1>5, <3>2, <4>2
        <4> QED
          BY <3>5, <4>2, <4>3 DEF Behind
      <3> QED
        BY <3>4, <3>5
    <2> QED
      BY <2>2, <2>3, <2>4, <2>5
  <1>8. ASSUME NEW g \in e, NEW j \in 1 .. Len(t), NEW k \in 1 .. Len(t), Begins(t, g, j), Begins(t, g, k)
        PROVE  j = k
    <2>1. m + j \in 1 .. Len(s) /\ m + k \in 1 .. Len(s)
      BY <1>1, <1>2, <1>3
    <2>2. Begins(s, g, m + j) /\ Begins(s, g, m + k)
      BY <1>5, <1>8
    <2>3. m + j = m + k
      BY <2>1, <2>2 DEF Intact
    <2> QED
      BY <1>1, <2>3
  <1>9. Intact(t, v, e, w \ {f})
    BY <1>6, <1>7, <1>8 DEF Intact
  <1> QED
    BY <1>1, <1>9 DEF t

(* It takes anything else, once none of them is left. *)
LEMMA Skipped ==
  ASSUME NEW s, NEW v, NEW e, Packed(s, v, e, {}), Intact(s, v, e, {}), NEW m \in 0 .. Len(s)
  PROVE  Intact(SubSeq(s, m + 1, Len(s)), v, e, {})
  <1> DEFINE t == SubSeq(s, m + 1, Len(s))
  <1>1. Len(t) = Len(s) - m /\ \A k \in 1 .. Len(s) - m : t[k] = s[m + k]
    BY Rest DEF Packed
  <1>2. Len(s) \in Nat
    BY PackedSizes
  <1>3. \A g \in e, k \in 1 .. Len(t) : ~Begins(t, g, k)
    <2> SUFFICES ASSUME NEW g \in e, NEW k \in 1 .. Len(t), Begins(t, g, k) PROVE FALSE
      OBVIOUS
    <2>1. m + k \in 1 .. Len(s) /\ Begins(s, g, m + k)
      BY <1>1, <1>2 DEF Begins
    <2> QED
      BY <2>1 DEF Intact
  <1> HIDE DEF t
  <1>4. Intact(t, v, e, {})
    BY <1>3 DEF Intact
  <1> QED
    BY <1>4 DEF t

(* More is written to a stream, not of the files of e. *)
LEMMA Extended ==
  ASSUME NEW s, NEW v, NEW e, Packed(s, v, e, e), Intact(s, v, e, e),
         NEW u \in Seq(Units), \A k \in 1 .. Len(u) : u[k][1] = "head" => u[k][2] \notin e
  PROVE  Intact(s \o u, v, e, e)
  <1> DEFINE t == s \o u
  <1>1. Len(s) \in Nat /\ (\A g \in e : Size[v[g]] \in Nat) /\ Len(u) \in Nat
    BY PackedSizes, LenProperties
  <1>2. Len(t) = Len(s) + Len(u) /\ \A k \in 1 .. Len(s) + Len(u) : t[k] = IF k <= Len(s) THEN s[k] ELSE u[k - Len(s)]
    BY ConcatProperties DEF Packed
  <1> HIDE DEF t
  <1>3. 1 .. Len(s) \subseteq 1 .. Len(t) /\ \A k \in 1 .. Len(s) : t[k] = s[k]
    BY <1>1, <1>2
  <1>4. ASSUME NEW g \in e, NEW k \in 1 .. Len(t), Begins(t, g, k) PROVE k \in 1 .. Len(s) /\ Begins(s, g, k)
    <2>1. CASE k <= Len(s)
      BY <1>1, <1>2, <1>4, <2>1 DEF Begins
    <2>2. CASE k > Len(s)
      <3>1. k - Len(s) \in 1 .. Len(u) /\ t[k] = u[k - Len(s)]
        BY <1>1, <1>2, <2>2
      <3> QED
        BY <1>4, <3>1 DEF Begins
    <2> QED
      BY <1>1, <2>1, <2>2
  <1>5. \A g, k : k \in 1 .. Len(s) /\ Begins(s, g, k) => Begins(t, g, k)
    BY <1>3 DEF Begins
  <1>6. ASSUME NEW g \in e PROVE \E k \in 1 .. Len(t) : Begins(t, g, k)
    BY <1>3, <1>5 DEF Intact
  <1>7. ASSUME NEW g \in e, NEW k \in 1 .. Len(t), Begins(t, g, k)
        PROVE  Whole(t, v, g, k) /\ Behind(t, v, e, k)
    <2>1. k \in 1 .. Len(s) /\ Begins(s, g, k)
      BY <1>4, <1>7
    <2>2. Whole(s, v, g, k) /\ Behind(s, v, e, k)
      BY <2>1 DEF Intact
    <2>3. Whole(t, v, g, k)
      <3>1. Past(v, g, k) \in Nat /\ Past(v, g, k) <= Len(s) + 1
        BY <1>1, <2>1, <2>2 DEF Past, Whole
      <3>2. /\ k + 1 .. Past(v, g, k) - 1 \subseteq 1 .. Len(s)
            /\ k + 2 .. Past(v, g, k) - 1 \subseteq 1 .. Len(s)
            /\ Past(v, g, k) <= Len(t) + 1
        BY <1>1, <1>2, <2>1, <3>1
      <3> QED
        BY <1>3, <2>1, <2>2, <3>2 DEF Whole
    <2>4. Behind(t, v, e, k)
      BY <1>3, <1>5, <2>2 DEF Behind
    <2> QED
      BY <2>3, <2>4
  <1>8. ASSUME NEW g \in e, NEW j \in 1 .. Len(t), NEW k \in 1 .. Len(t), Begins(t, g, j), Begins(t, g, k)
        PROVE  j = k
    <2>1. j \in 1 .. Len(s) /\ k \in 1 .. Len(s) /\ Begins(s, g, j) /\ Begins(s, g, k)
      BY <1>4, <1>8
    <2> QED
      BY <2>1 DEF Intact
  <1>9. Intact(t, v, e, e)
    BY <1>6, <1>7, <1>8 DEF Intact
  <1> QED
    BY <1>9 DEF t

LEMMA StillBehind ==
  ASSUME NEW s \in Seq(Units), NEW u \in Seq(Units), NEW v, NEW e, NEW k, Behind(s, v, e, k)
  PROVE  Behind(s \o u, v, e, k)
  <1>1. Len(s) \in Nat /\ Len(u) \in Nat
    BY LenProperties
  <1>2. Len(s \o u) = Len(s) + Len(u) /\ \A j \in 1 .. Len(s) : j \in 1 .. Len(s) + Len(u) /\ (s \o u)[j] = s[j]
    BY <1>1, ConcatProperties
  <1> QED
    BY <1>2 DEF Behind, Begins

(* Only the versions of the files in question matter. *)
LEMMA OtherVersions ==
  ASSUME NEW s, NEW v, NEW x, NEW e, NEW w \in SUBSET e, \A g \in e : v[g] = x[g]
  PROVE  /\ Intact(s, v, e, w) => Intact(s, x, e, w)
         /\ \A k : Behind(s, v, w, k) => Behind(s, x, w, k)
  <1>1. \A k : \A g \in e : Past(v, g, k) = Past(x, g, k)
    BY DEF Past
  <1>2. \A k : Behind(s, v, w, k) => Behind(s, x, w, k)
    BY <1>1 DEF Behind
  <1>3. \A k : \A g \in e : Whole(s, v, g, k) => Whole(s, x, g, k)
    BY <1>1 DEF Whole
  <1> QED
    BY <1>2, <1>3 DEF Intact

LEMMA SizesAreNumbers == Len(Size) \in Nat /\ \A n \in 1 .. Len(Size) : Size[n] \in Nat
  BY ArchiveParameters, LenProperties, ElementOfSeq

LEMMA BytesAreUnits ==
  ASSUME NEW f \in Archive!Names, NEW v \in 1 .. Len(Size)
  PROVE  LET u == Archive!Bytes(f, v) IN
         u \in Seq(Units) /\ Len(u) = Size[v] /\ \A k \in 1 .. Size[v] : u[k] = <<"byte", f, v>>
  <1> DEFINE n == Size[v]
             u == [k \in 1 .. n |-> <<"byte", f, v>>]
  <1>1. n \in Nat /\ Archive!Bytes(f, v) = u /\ <<"byte", f, v>> \in Units
    BY SizesAreNumbers DEF Archive!Bytes, Units
  <1> HIDE DEF n
  <1>2. u \in Seq(Units) /\ Len(u) = n
    BY <1>1, IsASeq
  <1> QED
    BY <1>1, <1>2 DEF n

(* The bytes of f follow its header, the last in a stream of intact records
   of the files of e: f is one more of them. *)
LEMMA Added ==
  ASSUME NEW s, NEW v, NEW e, Packed(s, v, e, e), Intact(s, v, e, e),
         NEW f \in Archive!Names, f \notin e, v[f] \in 1 .. Len(Size),
         NEW b \in Nat, Len(s) = b + 2, Behind(s, v, e, b + 1),
         s[b + 1] = <<"head", f, Size[v[f]]>>, s[b + 2] = <<"tail", f, Size[v[f]]>>,
         \A k \in 1 .. b : ~Begins(s, f, k)
  PROVE  LET t == s \o Archive!Bytes(f, v[f]) IN
         Intact(t, v, e \cup {f}, e \cup {f}) /\ Behind(t, v, e \cup {f}, Len(t) + 1)
  <1> DEFINE u == Archive!Bytes(f, v[f])
             t == s \o u
             n == Size[v[f]]
             d == e \cup {f}
  <1>1. n \in Nat /\ v[f] # 0
    BY SizesAreNumbers
  <1>2. u \in Seq(Units) /\ Len(u) = n /\ \A k \in 1 .. n : u[k] = <<"byte", f, v[f]>>
    BY BytesAreUnits
  <1> HIDE DEF u
  <1>3. Len(t) = b + 2 + n /\ \A k \in 1 .. b + 2 + n : t[k] = IF k <= b + 2 THEN s[k] ELSE u[k - (b + 2)]
    <2>1. s \in Seq(Units)
      BY DEF Packed
    <2> HIDE DEF n
    <2>2. /\ Len(t) = Len(s) + Len(u)
          /\ \A k \in 1 .. Len(s) + Len(u) : t[k] = IF k <= Len(s) THEN s[k] ELSE u[k - Len(s)]
      BY <1>2, <2>1, ConcatProperties
    <2> HIDE DEF t
    <2>3. Len(s) = b + 2
      OBVIOUS
    <2> QED
      BY <1>2, <2>2, <2>3
  <1>4. Intact(t, v, e, e)
    <2>1. \A k \in 1 .. Len(u) : u[k][1] = "head" => u[k][2] \notin e
      BY <1>2
    <2> QED
      BY <1>2, <2>1, Extended
  <1>5. Behind(t, v, e, b + 1)
    BY <1>2, StillBehind DEF Packed
  <1> HIDE DEF t, n
  <1>6. \A k \in b + 3 .. b + 2 + n : t[k] = <<"byte", f, v[f]>>
    <2> SUFFICES ASSUME NEW k \in b + 3 .. b + 2 + n PROVE t[k] = <<"byte", f, v[f]>>
      OBVIOUS
    <2>1. k - (b + 2) \in 1 .. n /\ k \in 1 .. b + 2 + n /\ ~(k <= b + 2)
      BY <1>1
    <2> QED
      BY <1>2, <1>3, <2>1
  <1>7. t[b + 1] = <<"head", f, n>> /\ t[b + 2] = <<"tail", f, n>> /\ b + 1 \in 1 .. Len(t)
    BY <1>1, <1>3 DEF n
  <1>8. ASSUME NEW k \in 1 .. Len(t) PROVE Begins(t, f, k) <=> k = b + 1
    <2>1. CASE k <= b
      <3>1. k \in 1 .. b /\ t[k] = s[k]
        BY <1>1, <1>3, <2>1
      <3> QED
        BY <3>1 DEF Begins
    <2>2. CASE k = b + 1
      BY <1>7, <2>2 DEF Begins
    <2>3. CASE k = b + 2
      BY <1>7, <2>3 DEF Begins
    <2>4. CASE k > b + 2
      <3>1. k \in b + 3 .. b + 2 + n
        BY <1>1, <1>3, <2>4
      <3> QED
        BY <1>6, <2>4, <3>1 DEF Begins
    <2> QED
      BY <1>1, <1>3, <2>1, <2>2, <2>3, <2>4
  <1>9. Past(v, f, b + 1) = b + 3 + n
    BY <1>1 DEF Past, n
  <1>10. Whole(t, v, f, b + 1)
    <2>1. t[b + 1][3] = Size[v[f]] /\ Past(v, f, b + 1) <= Len(t) + 1
      BY <1>1, <1>3, <1>7, <1>9 DEF n
    <2>2. ASSUME NEW j \in b + 1 + 1 .. Past(v, f, b + 1) - 1 PROVE t[j][1] # "head"
      <3>1. j = b + 2 \/ j \in b + 3 .. b + 2 + n
        BY <1>1, <1>9
      <3> QED
        BY <1>6, <1>7, <3>1
    <2>3. ASSUME NEW j \in b + 1 + 2 .. Past(v, f, b + 1) - 1 PROVE t[j] = <<"byte", f, v[f]>>
      <3>1. j \in b + 3 .. b + 2 + n
        BY <1>1, <1>9
      <3> QED
        BY <1>6, <3>1
    <2> QED
      BY <2>1, <2>2, <2>3 DEF Whole
  <1>11. \A k : Behind(t, v, e, k) => Behind(t, v, d, k)
    BY DEF Behind
  <1>12. Intact(t, v, d, d)
    <2>1. \A g \in d : \E k \in 1 .. Len(t) : Begins(t, g, k)
      BY <1>4, <1>7, <1>8 DEF Intact
    <2>2. ASSUME NEW g \in d, NEW k \in 1 .. Len(t), Begins(t, g, k)
          PROVE  Whole(t, v, g, k) /\ Behind(t, v, d, k)
      BY <1>4, <1>5, <1>8, <1>10, <1>11, <2>2 DEF Intact
    <2>3. \A g \in d, j, k \in 1 .. Len(t) : Begins(t, g, j) /\ Begins(t, g, k) => j = k
      BY <1>4, <1>8 DEF Intact
    <2> QED
      BY <2>1, <2>2, <2>3 DEF Intact
  <1>13. Behind(t, v, d, Len(t) + 1)
    <2>1. Len(t) + 1 = Past(v, f, b + 1)
      BY <1>1, <1>3, <1>9
    <2> QED
      BY <1>7, <1>8, <2>1 DEF Behind
  <1> QED
    BY <1>12, <1>13 DEF t, u

-----------------------------------------------------------------------------
(* The files that were streamed as announced and are not restored yet. *)
Waiting == {f \in exact : out[f] = Archive!Nothing}

(* The archive without the header whose bytes are still to come. *)
Body == IF phase = "stream" THEN Len(archive) - 2 ELSE Len(archive)

Earlier == {Files[k] : k \in 1 .. at - 1}

ArchiveTypes ==
  /\ Archive!TypeOK
  /\ archive \in Seq(Units) /\ buf \in Seq(Units)
  /\ out \in [Archive!Names -> Seq(Units) \cup {Archive!Nothing}]

Packing ==
  /\ \A f \in exact : f \in Earlier /\ packed[f] # 0
  /\ \A k \in at .. Len(Files) : packed[Files[k]] = 0

Clean == \A k \in 1 .. at - 1 : packed[Files[k]] = 0 \/ Files[k] \in exact

Writing ==
  /\ buf = <<>>
  /\ \A f \in Archive!Names : out[f] = Archive!Nothing
  /\ \A k \in 1 .. Body : archive[k][1] = "head" => archive[k][2] \in Earlier
  /\ phase = "stream" =>
       /\ at <= Len(Files) /\ Body >= 0
       /\ archive[Body + 1] = <<"head", Files[at], size>>
       /\ archive[Body + 2] = <<"tail", Files[at], size>>
  /\ Clean => Behind(archive, packed, exact, Body + 1)

Whereabouts ==
  /\ phase \in {"stat", "stream"} => Writing
  /\ \A f \in exact : out[f] \in {Archive!Nothing, Archive!Bytes(f, packed[f])}
  /\ phase # "done" => Intact(buf \o archive, packed, exact, Waiting)
  /\ phase = "done" => Waiting = {}

ArchiveInv == ArchiveTypes /\ Packing /\ Whereabouts

LEMMA FilesAreNames ==
  /\ Len(Files) \in Nat
  /\ \A k \in 1 .. Len(Files) : Files[k] \in Archive!Names
  /\ \A j, k \in 1 .. Len(Files) : Files[j] = Files[k] => j = k
  <1>1. Len(Files) \in Nat /\ DOMAIN Files = 1 .. Len(Files)
    BY ArchiveParameters, LenProperties
  <1> QED
    BY <1>1, ArchiveParameters DEF Archive!Names

LEMMA PackedNow ==
  ASSUME ArchiveTypes, Packing
  PROVE  /\ Packed(buf \o archive, packed, exact, Waiting)
         /\ Packed(archive, packed, exact, exact)
  <1>1. buf \o archive \in Seq(Units) /\ archive \in Seq(Units)
    BY ConcatProperties DEF ArchiveTypes
  <1>2. exact \subseteq Archive!Names /\ Waiting \subseteq exact
    BY DEF ArchiveTypes, Archive!TypeOK, Waiting
  <1>3. \A f \in exact : packed[f] \in 1 .. Len(Size)
    BY <1>2, SizesAreNumbers DEF ArchiveTypes, Archive!TypeOK, Archive!Versions, Packing
  <1> QED
    BY <1>1, <1>2, <1>3 DEF Packed

LEMMA BytesAreSomething == \A f, v : Archive!Bytes(f, v) # Archive!Nothing
  <1> SUFFICES ASSUME NEW f, NEW v, Archive!Bytes(f, v) = Archive!Nothing PROVE FALSE
    OBVIOUS
  <1>1. DOMAIN Archive!Nothing = {1} /\ Archive!Nothing[1] = <<"nothing">>
    BY DEF Archive!Nothing
  <1>2. Archive!Bytes(f, v)[1] = <<"byte", f, v>>
    BY <1>1 DEF Archive!Bytes
  <1> QED
    BY <1>1, <1>2

(* While the archive is made nothing is restored. *)
LEMMA AllWait ==
  ASSUME ArchiveTypes, Writing
  PROVE  Waiting = exact /\ buf \o archive = archive
  <1>1. Waiting = exact
    BY DEF ArchiveTypes, Archive!TypeOK, Writing, Waiting
  <1>2. buf \o archive = archive
    BY ConcatEmptySeq DEF ArchiveTypes, Writing
  <1> QED
    BY <1>1, <1>2

LEMMA NotYetExact ==
  ASSUME ArchiveTypes, Packing, at <= Len(Files)
  PROVE  Files[at] \notin Earlier /\ Files[at] \notin exact /\ Files[at] \in Archive!Names
  <1>1. at \in 1 .. Len(Files)
    BY FilesAreNames DEF ArchiveTypes, Archive!TypeOK
  <1>2. Files[at] \notin Earlier
    BY <1>1, FilesAreNames DEF Earlier
  <1> QED
    BY <1>1, <1>2, FilesAreNames DEF Packing

-----------------------------------------------------------------------------
(* The archive is made.                                                    *)

LEMMA WriteStep ==
  ASSUME ArchiveInv, NEW f \in Archive!Names, NEW v \in Archive!Versions, Archive!Write(f, v)
  PROVE  ArchiveInv'
  <1>1. /\ avatar' \in [Archive!Names -> Archive!Versions]
        /\ writes' \in 0 .. MaxWrites
    BY ArchiveParameters DEF ArchiveInv, ArchiveTypes, Archive!TypeOK, Archive!Write
  <1>2. UNCHANGED <<phase, at, size, packed, exact, archive, buf, out>>
    BY DEF Archive!Write
  <1>3. ArchiveTypes'
    BY <1>1, <1>2 DEF ArchiveInv, ArchiveTypes, Archive!TypeOK
  <1>4. Packing'
    BY <1>2 DEF ArchiveInv, Packing, Earlier
  <1>5. Whereabouts'
    BY <1>2 DEF ArchiveInv, Whereabouts, Writing, Waiting, Body, Earlier, Clean
  <1> QED
    BY <1>3, <1>4, <1>5 DEF ArchiveInv

LEMMA LeaveOut ==
  ASSUME ArchiveInv, Archive!Stat, at' = at + 1, UNCHANGED <<phase, size, archive>>
  PROVE  ArchiveInv'
  <1>1. UNCHANGED <<avatar, writes, packed, exact, buf, out>> /\ phase = "stat" /\ at <= Len(Files)
    BY DEF Archive!Stat
  <1>2. at \in Nat /\ Len(Files) \in Nat /\ at >= 1
    BY FilesAreNames DEF ArchiveInv, ArchiveTypes, Archive!TypeOK
  <1>3. ArchiveTypes'
    BY <1>1, <1>2 DEF ArchiveInv, ArchiveTypes, Archive!TypeOK
  <1>4. Earlier \subseteq Earlier'
    BY <1>2 DEF Earlier
  <1>5. Packing'
    BY <1>1, <1>2, <1>4 DEF ArchiveInv, Packing
  <1>6. Writing'
    <2>1. Body' = Body
      BY <1>1 DEF Body
    <2>2. Clean' => Clean
      BY <1>1, <1>2 DEF Clean
    <2> QED
      BY <1>1, <1>4, <2>1, <2>2 DEF ArchiveInv, Whereabouts, Writing
  <1>7. Whereabouts'
    BY <1>1, <1>6 DEF ArchiveInv, Whereabouts, Waiting
  <1> QED
    BY <1>3, <1>5, <1>7 DEF ArchiveInv

LEMMA Announce ==
  ASSUME ArchiveInv, Archive!Stat, avatar[Files[at]] # 0, phase' = "stream",
         size' = Size[avatar[Files[at]]], UNCHANGED at,
         archive' = archive \o <<<<"head", Files[at], size'>>, <<"tail", Files[at], size'>>>>
  PROVE  ArchiveInv'
  <1> DEFINE u == <<<<"head", Files[at], size'>>, <<"tail", Files[at], size'>>>>
  <1>1. UNCHANGED <<avatar, writes, packed, exact, buf, out>> /\ phase = "stat" /\ at <= Len(Files)
    BY DEF Archive!Stat
  <1>2. Files[at] \in Archive!Names /\ Files[at] \notin exact
    BY <1>1, NotYetExact DEF ArchiveInv
  <1>3. size' \in Nat
    BY <1>2, SizesAreNumbers DEF ArchiveInv, ArchiveTypes, Archive!TypeOK, Archive!Versions
  <1>4. u \in Seq(Units) /\ Len(u) = 2 /\ u[1] = <<"head", Files[at], size'>> /\ u[2] = <<"tail", Files[at], size'>>
    <2>1. <<"head", Files[at], size'>> \in Units /\ <<"tail", Files[at], size'>> \in Units
      BY <1>2, <1>3 DEF Units
    <2> QED
      BY <2>1
  <1> HIDE DEF u
  <1>5. /\ Writing /\ Waiting = exact /\ buf \o archive = archive
        /\ archive \in Seq(Units) /\ Len(archive) \in Nat
        /\ Intact(archive, packed, exact, exact)
    <2>1. Writing
      BY <1>1 DEF ArchiveInv, Whereabouts
    <2>2. Waiting = exact /\ buf \o archive = archive
      BY <2>1, AllWait DEF ArchiveInv
    <2> QED
      BY <1>1, <2>1, <2>2, LenProperties DEF ArchiveInv, ArchiveTypes, Whereabouts
  <1>6. /\ archive' = archive \o u /\ archive' \in Seq(Units) /\ Len(archive') = Len(archive) + 2
        /\ \A k \in 1 .. Len(archive) + 2 : archive'[k] = IF k <= Len(archive) THEN archive[k] ELSE u[k - Len(archive)]
    <2>1. archive' = archive \o u
      BY DEF u
    <2>2. /\ archive \o u \in Seq(Units) /\ Len(archive \o u) = Len(archive) + Len(u)
          /\ \A k \in 1 .. Len(archive) + Len(u) :
               (archive \o u)[k] = IF k <= Len(archive) THEN archive[k] ELSE u[k - Len(archive)]
      BY <1>4, <1>5, ConcatProperties
    <2> QED
      BY <1>4, <2>1, <2>2
  <1>7. ArchiveTypes'
    BY <1>1, <1>3, <1>6 DEF ArchiveInv, ArchiveTypes, Archive!TypeOK
  <1>8. Packing'
    BY <1>1 DEF ArchiveInv, Packing, Earlier
  <1>9. Body' = Len(archive) /\ Body = Len(archive)
    BY <1>1, <1>5, <1>6 DEF Body
  <1>10. Writing'
    <2>1. \A k \in 1 .. Body' : archive'[k] = archive[k]
      BY <1>5, <1>6, <1>9
    <2>2. archive'[Body' + 1] = u[1] /\ archive'[Body' + 2] = u[2]
      <3>1. /\ Len(archive) + 1 \in 1 .. Len(archive) + 2 /\ ~(Len(archive) + 1 <= Len(archive))
            /\ Len(archive) + 2 \in 1 .. Len(archive) + 2 /\ ~(Len(archive) + 2 <= Len(archive))
            /\ Len(archive) + 1 - Len(archive) = 1 /\ Len(archive) + 2 - Len(archive) = 2
        BY <1>5
      <3>2. /\ archive'[Len(archive) + 1] = u[Len(archive) + 1 - Len(archive)]
            /\ archive'[Len(archive) + 2] = u[Len(archive) + 2 - Len(archive)]
        BY <1>6, <3>1
      <3> QED
        BY <1>9, <3>1, <3>2
    <2>3. Earlier' = Earlier /\ (Clean' <=> Clean)
      BY <1>1 DEF Earlier, Clean
    <2>4. Clean => Behind(archive, packed, exact, Len(archive) + 1)
      BY <1>5, <1>9 DEF Writing
    <2>5. Clean' => Behind(archive', packed', exact', Body' + 1)
      BY <1>1, <1>4, <1>5, <1>6, <1>9, <2>3, <2>4, StillBehind
    <2>6. \A k \in 1 .. Body' : archive'[k][1] = "head" => archive'[k][2] \in Earlier'
      BY <1>5, <1>9, <2>1, <2>3 DEF Writing
    <2>7. buf' = <<>> /\ \A f \in Archive!Names : out'[f] = Archive!Nothing
      BY <1>1, <1>5 DEF Writing
    <2>8. Body' >= 0 /\ archive'[Body' + 1] = <<"head", Files[at'], size'>> /\ archive'[Body' + 2] = <<"tail", Files[at'], size'>>
      BY <1>4, <1>5, <1>9, <2>2
    <2> QED
      BY <1>1, <2>5, <2>6, <2>7, <2>8 DEF Writing
  <1>11. Intact(archive', packed, exact, exact)
    <2>1. \A k \in 1 .. Len(u) : u[k][1] = "head" => u[k][2] \notin exact
      BY <1>2, <1>4
    <2>2. Packed(archive, packed, exact, exact)
      BY PackedNow DEF ArchiveInv
    <2> QED
      BY <1>4, <1>5, <1>6, <2>1, <2>2, Extended
  <1>12. Whereabouts'
    <2>1. Waiting' = exact' /\ (buf \o archive)' = archive'
      <3>1. (buf \o archive)' = archive'
        BY <1>6, <1>10, ConcatEmptySeq DEF Writing
      <3> QED
        BY <1>1, <1>5, <3>1 DEF Waiting
    <2> QED
      BY <1>1, <1>10, <1>11, <2>1 DEF ArchiveInv, Whereabouts
  <1> QED
    BY <1>7, <1>8, <1>12 DEF ArchiveInv

LEMMA StatStep == ASSUME ArchiveInv, Archive!Stat PROVE ArchiveInv'
  <1>1. \/ at' = at + 1 /\ UNCHANGED <<phase, size, archive>>
        \/ /\ avatar[Files[at]] # 0 /\ phase' = "stream"
           /\ size' = Size[avatar[Files[at]]] /\ UNCHANGED at
           /\ archive' = archive \o <<<<"head", Files[at], size'>>, <<"tail", Files[at], size'>>>>
    BY DEF Archive!Stat
  <1> QED
    BY <1>1, LeaveOut, Announce

(* What a stream of bytes changes, whether it is the one announced or not. *)
LEMMA StreamWrites ==
  ASSUME ArchiveInv, Archive!Stream, avatar[Files[at]] # 0
  PROVE  /\ ArchiveTypes' /\ Packing' /\ exact \subseteq exact'
         /\ buf' = <<>> /\ (\A f \in Archive!Names : out'[f] = Archive!Nothing)
         /\ \A k \in 1 .. Body' : archive'[k][1] = "head" => archive'[k][2] \in Earlier'
         /\ \A g \in exact : packed'[g] = packed[g]
  <1> DEFINE f == Files[at]
             v == avatar[f]
             u == Archive!Bytes(f, v)
  <1>1. /\ phase = "stream" /\ phase' = "stat" /\ at' = at + 1
        /\ archive' = archive \o u
        /\ packed' = [packed EXCEPT ![f] = v]
        /\ exact \subseteq exact' /\ exact' \subseteq exact \cup {f}
        /\ UNCHANGED <<avatar, writes, size, buf, out>>
    BY DEF Archive!Stream
  <1>2. Writing /\ at <= Len(Files) /\ at \in Nat /\ at >= 1 /\ Len(Files) \in Nat /\ Body >= 0
        /\ archive[Body + 1] = <<"head", f, size>> /\ archive[Body + 2] = <<"tail", f, size>>
    BY <1>1, FilesAreNames DEF ArchiveInv, ArchiveTypes, Archive!TypeOK, Whereabouts, Writing
  <1>3. f \notin Earlier /\ f \notin exact /\ f \in Archive!Names
    BY <1>2, NotYetExact DEF ArchiveInv
  <1>4. v \in 1 .. Len(Size) /\ v # 0
    BY <1>3, SizesAreNumbers DEF ArchiveInv, ArchiveTypes, Archive!TypeOK, Archive!Versions
  <1>5. u \in Seq(Units) /\ Len(u) \in Nat /\ \A k \in 1 .. Len(u) : u[k] = <<"byte", f, v>>
    BY <1>3, <1>4, BytesAreUnits, LenProperties
  <1> HIDE DEF f, v, u
  <1>6. packed \in [Archive!Names -> Archive!Versions] /\ archive \in Seq(Units) /\ Len(archive) \in Nat
    BY LenProperties DEF ArchiveInv, ArchiveTypes, Archive!TypeOK
  <1>7. /\ archive' \in Seq(Units) /\ Len(archive') = Len(archive) + Len(u)
        /\ \A k \in 1 .. Len(archive) + Len(u) : archive'[k] = IF k <= Len(archive) THEN archive[k] ELSE u[k - Len(archive)]
    BY <1>1, <1>5, <1>6, ConcatProperties
  <1>8. packed' \in [Archive!Names -> Archive!Versions] /\ packed'[f] = v
        /\ \A g \in Archive!Names \ {f} : packed'[g] = packed[g]
    BY <1>1, <1>3, <1>4, <1>6, SizesAreNumbers DEF Archive!Versions
  <1>9. ArchiveTypes'
    BY <1>1, <1>2, <1>3, <1>7, <1>8 DEF ArchiveInv, ArchiveTypes, Archive!TypeOK
  <1>10. Earlier' = Earlier \cup {f}
    <2>1. \A k : k \in 1 .. at' - 1 <=> k \in 1 .. at - 1 \/ k = at
      BY <1>1, <1>2
    <2> QED
      BY <2>1 DEF Earlier, f
  <1>11. \A g \in exact : g \in Archive!Names \ {f}
    BY <1>3 DEF ArchiveInv, ArchiveTypes, Archive!TypeOK
  <1>12. Packing'
    <2>1. \A g \in exact' : g \in Earlier' /\ packed'[g] # 0
      BY <1>1, <1>4, <1>8, <1>10, <1>11 DEF ArchiveInv, Packing
    <2>2. ASSUME NEW k \in at' .. Len(Files) PROVE packed'[Files[k]] = 0
      <3>1. k \in at .. Len(Files) /\ k \in 1 .. Len(Files) /\ at \in 1 .. Len(Files) /\ k # at
        BY <1>1, <1>2
      <3>2. Files[k] \in Archive!Names \ {f}
        BY <3>1, FilesAreNames DEF f
      <3> QED
        BY <1>8, <3>1, <3>2 DEF ArchiveInv, Packing
    <2> QED
      BY <2>1, <2>2 DEF Packing
  <1>13. ASSUME NEW k \in 1 .. Body', archive'[k][1] = "head" PROVE archive'[k][2] \in Earlier'
    <2>1. Body' = Len(archive) + Len(u) /\ Body = Len(archive) - 2
      BY <1>1, <1>7 DEF Body
    <2>2. CASE k <= Body
      <3>1. k \in 1 .. Body /\ archive'[k] = archive[k]
        BY <1>2, <1>5, <1>6, <1>7, <2>1, <2>2
      <3> QED
        BY <1>2, <1>10, <1>13, <3>1 DEF Writing
    <2>3. CASE k = Body + 1
      <3>1. k \in 1 .. Len(archive) + Len(u) /\ k <= Len(archive)
        BY <1>2, <1>5, <1>6, <2>1, <2>3
      <3>2. archive'[k] = archive[k]
        BY <1>7, <3>1
      <3> QED
        BY <1>2, <1>10, <2>3, <3>2
    <2>4. CASE k = Body + 2
      <3>1. k \in 1 .. Len(archive) + Len(u) /\ k <= Len(archive)
        BY <1>2, <1>5, <1>6, <2>1, <2>4
      <3>2. archive'[k] = archive[k]
        BY <1>7, <3>1
      <3> QED
        BY <1>2, <1>13, <2>4, <3>2
    <2>5. CASE k > Body + 2
      <3>1. k - Len(archive) \in 1 .. Len(u) /\ archive'[k] = u[k - Len(archive)]
        BY <1>2, <1>5, <1>6, <1>7, <2>1, <2>5
      <3> QED
        BY <1>5, <1>13, <3>1
    <2> QED
      BY <1>5, <1>6, <2>1, <2>2, <2>3, <2>4, <2>5
  <1>14. \A g \in exact : packed'[g] = packed[g]
    BY <1>8, <1>11
  <1>15. buf' = <<>> /\ \A g \in Archive!Names : out'[g] = Archive!Nothing
    BY <1>1, <1>2 DEF Writing
  <1> QED
    BY <1>1, <1>9, <1>12, <1>13, <1>14, <1>15

(* The bytes are as many as the header says, and so it is before them. *)
LEMMA StreamExact ==
  ASSUME ArchiveInv, Archive!Stream, avatar[Files[at]] # 0,
         size = Size[avatar[Files[at]]], Clean
  PROVE  /\ exact' = exact \cup {Files[at]}
         /\ Intact(archive', packed', exact', exact')
         /\ Behind(archive', packed', exact', Len(archive') + 1)
  <1> DEFINE f == Files[at]
  <1>1. /\ phase = "stream"
        /\ archive' = archive \o Archive!Bytes(f, avatar[f])
        /\ packed' = [packed EXCEPT ![f] = avatar[f]]
        /\ exact' = exact \cup {f}
    BY DEF Archive!Stream, Clean
  <1>2. Writing /\ at <= Len(Files) /\ Body >= 0
        /\ archive[Body + 1] = <<"head", f, size>> /\ archive[Body + 2] = <<"tail", f, size>>
    BY <1>1 DEF ArchiveInv, Whereabouts, Writing
  <1>3. f \notin Earlier /\ f \notin exact /\ f \in Archive!Names
    BY <1>2, NotYetExact DEF ArchiveInv
  <1> HIDE DEF f
  <1>4. Len(archive) \in Nat /\ Len(archive) = Body + 2 /\ Body \in Nat
    <2>1. Len(archive) \in Nat
      BY LenProperties DEF ArchiveInv, ArchiveTypes
    <2> QED
      BY <1>1, <1>2, <2>1 DEF Body
  <1>5. packed'[f] = avatar[f] /\ avatar[f] \in 1 .. Len(Size) /\ \A g \in exact : packed[g] = packed'[g]
    <2>1. /\ packed \in [Archive!Names -> Archive!Versions] /\ exact \subseteq Archive!Names
          /\ avatar[f] \in Archive!Versions
      BY <1>3 DEF ArchiveInv, ArchiveTypes, Archive!TypeOK
    <2>2. packed'[f] = avatar[f] /\ \A g \in exact : packed[g] = packed'[g]
      BY <1>1, <1>3, <2>1
    <2>3. avatar[f] # 0
      BY DEF f
    <2> QED
      BY <2>1, <2>2, <2>3, SizesAreNumbers DEF Archive!Versions
  <1>6. Packed(archive, packed, exact, exact) /\ Intact(archive, packed, exact, exact)
    <2>1. Waiting = exact /\ buf \o archive = archive
      BY <1>2, AllWait DEF ArchiveInv
    <2> QED
      BY <1>1, <2>1, PackedNow DEF ArchiveInv, Whereabouts
  <1>7. Packed(archive, packed', exact, exact) /\ Intact(archive, packed', exact, exact)
    <2>1. Packed(archive, packed', exact, exact)
      BY <1>5, <1>6 DEF Packed
    <2> QED
      BY <1>5, <1>6, <2>1, OtherVersions
  <1>8. Behind(archive, packed', exact, Body + 1)
    <2>1. Behind(archive, packed, exact, Body + 1)
      BY <1>2 DEF Writing
    <2> QED
      BY <1>5, <2>1, OtherVersions
  <1>9. \A k \in 1 .. Body : ~Begins(archive, f, k)
    BY <1>2, <1>3 DEF Writing, Begins
  <1>10. /\ archive[Body + 1] = <<"head", f, Size[packed'[f]]>>
         /\ archive[Body + 2] = <<"tail", f, Size[packed'[f]]>>
    BY <1>2, <1>5 DEF f
  <1>11. PICK v : v = packed'
    OBVIOUS
  <1>12. PICK b : b = Body
    OBVIOUS
  <1>13. /\ Intact(archive \o Archive!Bytes(f, v[f]), v, exact \cup {f}, exact \cup {f})
         /\ Behind(archive \o Archive!Bytes(f, v[f]), v, exact \cup {f},
                   Len(archive \o Archive!Bytes(f, v[f])) + 1)
    BY <1>3, <1>4, <1>5, <1>7, <1>8, <1>9, <1>10, <1>11, <1>12, Added
  <1>14. archive' = archive \o Archive!Bytes(f, v[f])
    BY <1>1, <1>5, <1>11
  <1> QED
    BY <1>1, <1>11, <1>13, <1>14 DEF f

LEMMA StreamStep == ASSUME ArchiveInv, Archive!Stream PROVE ArchiveInv'
  <1>1. phase = "stream"
    BY DEF Archive!Stream
  <1>2. CASE avatar[Files[at]] = 0
    <2>1. /\ phase' = "failed"
          /\ UNCHANGED <<avatar, writes, at, size, packed, exact, archive, buf, out>>
      BY <1>2 DEF Archive!Stream
    <2>2. ArchiveTypes' /\ Packing'
      BY <2>1 DEF ArchiveInv, ArchiveTypes, Archive!TypeOK, Packing, Earlier
    <2>3. Whereabouts'
      BY <1>1, <2>1 DEF ArchiveInv, Whereabouts, Waiting
    <2> QED
      BY <2>2, <2>3 DEF ArchiveInv
  <1>3. CASE avatar[Files[at]] # 0
    <2> DEFINE f == Files[at]
    <2>1. /\ ArchiveTypes' /\ Packing' /\ exact \subseteq exact'
          /\ buf' = <<>> /\ (\A g \in Archive!Names : out'[g] = Archive!Nothing)
          /\ \A k \in 1 .. Body' : archive'[k][1] = "head" => archive'[k][2] \in Earlier'
          /\ \A g \in exact : packed'[g] = packed[g]
      BY <1>3, StreamWrites
    <2>2. phase' = "stat" /\ at' = at + 1 /\ at \in Nat /\ at >= 1 /\ Body' = Len(archive')
      BY <1>3 DEF Archive!Stream, Body, ArchiveInv, ArchiveTypes, Archive!TypeOK
    <2>3. exact' \subseteq Archive!Names
      BY <2>1 DEF ArchiveTypes, Archive!TypeOK
    <2>4. Writing /\ Waiting = exact /\ buf \o archive = archive /\ at <= Len(Files)
      <3>1. Writing /\ at <= Len(Files)
        BY <1>1 DEF ArchiveInv, Whereabouts, Writing
      <3> QED
        BY <3>1, AllWait DEF ArchiveInv
    <2>5. f \notin Earlier /\ f \notin exact /\ f \in Archive!Names
      BY <2>4, NotYetExact DEF ArchiveInv
    <2>6. packed'[f] # 0
      BY <1>3, <2>5 DEF Archive!Stream, ArchiveInv, ArchiveTypes, Archive!TypeOK
    <2>7. /\ Intact(archive', packed', exact', exact')
          /\ Clean' => Behind(archive', packed', exact', Len(archive') + 1)
      <3>1. CASE size = Size[avatar[f]] /\ Clean
        BY <1>3, <3>1, StreamExact
      <3>2. CASE ~(size = Size[avatar[f]] /\ Clean)
        <4>1. exact' = exact /\ archive' = archive \o Archive!Bytes(f, avatar[f])
          BY <1>3, <3>2 DEF Archive!Stream, Clean
        <4>2. ~Clean'
          <5>1. at \in 1 .. at' - 1
            BY <2>2
          <5> QED
            BY <2>5, <2>6, <4>1, <5>1 DEF Clean
        <4>3. avatar[f] \in 1 .. Len(Size)
          BY <1>3, <2>5, SizesAreNumbers DEF ArchiveInv, ArchiveTypes, Archive!TypeOK, Archive!Versions
        <4> HIDE DEF f
        <4>4. Archive!Bytes(f, avatar[f]) \in Seq(Units)
              /\ \A k \in 1 .. Len(Archive!Bytes(f, avatar[f])) : Archive!Bytes(f, avatar[f])[k][1] # "head"
          BY <2>5, <4>3, BytesAreUnits
        <4>5. Packed(archive, packed, exact, exact) /\ Intact(archive, packed, exact, exact)
          BY <1>1, <2>4, PackedNow DEF ArchiveInv, Whereabouts
        <4>6. Intact(archive', packed, exact, exact)
          BY <4>1, <4>4, <4>5, Extended
        <4>7. PICK v : v = packed'
          OBVIOUS
        <4>8. Intact(archive', v, exact, exact)
          <5>1. \A g \in exact : packed[g] = v[g]
            BY <2>1, <4>7
          <5> QED
            BY <4>6, <5>1, OtherVersions
        <4> QED
          BY <4>1, <4>2, <4>7, <4>8
      <3> QED
        BY <3>1, <3>2
    <2>8. Writing'
      BY <2>1, <2>2, <2>7 DEF Writing
    <2>9. Waiting' = exact' /\ (buf \o archive)' = archive'
      <3>1. archive' \in Seq(Units)
        BY <2>1 DEF ArchiveTypes
      <3> QED
        BY <2>1, <2>3, <3>1, ConcatEmptySeq DEF Waiting
    <2>10. Whereabouts'
      BY <2>1, <2>2, <2>3, <2>7, <2>8, <2>9 DEF Whereabouts
    <2> QED
      BY <2>1, <2>10 DEF ArchiveInv
  <1> QED
    BY <1>2, <1>3

LEMMA RestoreStep == ASSUME ArchiveInv, Archive!Restore PROVE ArchiveInv'
  <1>1. /\ phase = "stat" /\ phase' = "restore"
        /\ UNCHANGED <<avatar, writes, at, size, packed, exact, archive, buf, out>>
    BY DEF Archive!Restore
  <1>2. ArchiveTypes' /\ Packing'
    BY <1>1 DEF ArchiveInv, ArchiveTypes, Archive!TypeOK, Packing, Earlier
  <1>3. Whereabouts'
    BY <1>1 DEF ArchiveInv, Whereabouts, Waiting
  <1> QED
    BY <1>2, <1>3 DEF ArchiveInv

-----------------------------------------------------------------------------
(* The archive is restored.                                                *)

(* A chunk moves from the archive to the buffer. *)
LEMMA ChunkStep == ASSUME ArchiveInv, NEW n \in 1 .. Len(archive), Archive!Chunk(n) PROVE ArchiveInv'
  <1> DEFINE first == SubSeq(archive, 1, n)
             rest  == SubSeq(archive, n + 1, Len(archive))
  <1>1. /\ phase = "restore" /\ buf' = buf \o first /\ archive' = rest
        /\ UNCHANGED <<avatar, writes, phase, at, size, packed, exact, out>>
    BY DEF Archive!Chunk
  <1>2. archive \in Seq(Units) /\ buf \in Seq(Units) /\ Len(archive) \in Nat /\ n \in Nat /\ n >= 1 /\ n <= Len(archive)
    BY LenProperties DEF ArchiveInv, ArchiveTypes
  <1>3. first \in Seq(Units) /\ rest \in Seq(Units)
    <2>1. \A k \in 1 .. Len(archive) : archive[k] \in Units
      BY <1>2, ElementOfSeq
    <2>2. 1 .. n \subseteq 1 .. Len(archive) /\ n + 1 .. Len(archive) \subseteq 1 .. Len(archive) /\ n + 1 \in Int
      BY <1>2
    <2>3. first \in Seq(Units)
      BY <1>2, <2>1, <2>2, SubSeqProperties
    <2>4. rest \in Seq(Units)
      BY <1>2, <2>1, <2>2, SubSeqProperties
    <2> QED
      BY <2>3, <2>4
  <1>4. first \o rest = archive
    <2>1. first \o rest = SubSeq(archive, 1, Len(archive))
      BY <1>2, ConcatAdjacentSubSeq
    <2> QED
      BY <1>2, <2>1, SubSeqFull
  <1> HIDE DEF first, rest
  <1>5. (buf \o archive)' = buf \o archive
    <2>1. (buf \o first) \o rest = buf \o (first \o rest)
      <3>1. \A r, s, t \in Seq(Units) : (r \o s) \o t = r \o (s \o t)
        BY ConcatAssociative
      <3> QED
        BY <1>2, <1>3, <3>1
    <2> QED
      BY <1>1, <1>4, <2>1
  <1>6. buf' \in Seq(Units) /\ archive' \in Seq(Units)
    BY <1>1, <1>2, <1>3, ConcatProperties
  <1>7. ArchiveTypes' /\ Packing'
    BY <1>1, <1>6 DEF ArchiveInv, ArchiveTypes, Archive!TypeOK, Packing, Earlier
  <1>8. Waiting' = Waiting
    BY <1>1 DEF Waiting
  <1>9. Whereabouts'
    BY <1>1, <1>5, <1>8 DEF ArchiveInv, Whereabouts
  <1> QED
    BY <1>7, <1>9 DEF ArchiveInv

(* If a file waits, the stream that is left begins with its record. *)
LEMMA FirstIsWhole ==
  ASSUME ArchiveInv, phase = "restore", Waiting # {}
  PROVE  LET s == buf \o archive IN
         \E f \in Waiting : Begins(s, f, 1) /\ Whole(s, packed, f, 1) /\ Len(s) >= 1
  <1> DEFINE s == buf \o archive
  <1>1. Packed(s, packed, exact, Waiting) /\ Intact(s, packed, exact, Waiting)
    BY PackedNow DEF ArchiveInv, Whereabouts
  <1> HIDE DEF s
  <1>2. Len(s) >= 1 /\ (\E f \in Waiting : Begins(s, f, 1)) /\ Len(s) \in Nat
    BY <1>1, FirstWaits, PackedSizes
  <1>3. PICK f \in Waiting : Begins(s, f, 1)
    BY <1>2
  <1>4. f \in exact /\ 1 \in 1 .. Len(s)
    BY <1>2 DEF Waiting
  <1>5. Whole(s, packed, f, 1)
    BY <1>1, <1>3, <1>4 DEF Intact
  <1> QED
    BY <1>2, <1>3, <1>5 DEF s

LEMMA FinishStep == ASSUME ArchiveInv, Archive!Finish PROVE ArchiveInv'
  <1>1. /\ phase = "restore" /\ phase' = "done" /\ archive' = <<>> /\ buf' = <<>>
        /\ UNCHANGED <<avatar, writes, at, size, packed, exact, out>>
        /\ \/ archive = <<>> /\ ~Archive!HasRecord
           \/ ~Archive!InStep
    BY DEF Archive!Finish
  <1>2. archive \in Seq(Units) /\ buf \in Seq(Units) /\ Len(archive) \in Nat /\ Len(buf) \in Nat
    BY LenProperties DEF ArchiveInv, ArchiveTypes
  <1>3. Waiting = {}
    <2> SUFFICES ASSUME Waiting # {} PROVE FALSE
      OBVIOUS
    <2> DEFINE s == buf \o archive
    <2>1. PICK f \in Waiting : Begins(s, f, 1) /\ Whole(s, packed, f, 1) /\ Len(s) >= 1
      BY <1>1, FirstIsWhole
    <2>2. /\ Len(s) = Len(buf) + Len(archive)
          /\ \A k \in 1 .. Len(buf) + Len(archive) : s[k] = IF k <= Len(buf) THEN buf[k] ELSE archive[k - Len(buf)]
      BY <1>2, ConcatProperties
    <2>3. CASE archive = <<>> /\ ~Archive!HasRecord
      <3>1. s = buf
        BY <1>2, <2>3, ConcatEmptySeq
      <3>2. f \in exact /\ packed[f] \in 1 .. Len(Size) /\ Size[packed[f]] \in Nat
        <4>1. f \in exact
          BY DEF Waiting
        <4>2. packed[f] \in 1 .. Len(Size)
          BY <4>1, PackedNow DEF ArchiveInv, Packed
        <4> QED
          BY <4>1, <4>2, SizesAreNumbers
      <3>3. buf[1][3] = Size[packed[f]] /\ 3 + Size[packed[f]] <= Len(buf) + 1
        BY <2>1, <3>1, <3>2 DEF Whole, Past
      <3> QED
        BY <1>2, <2>3, <3>2, <3>3 DEF Archive!HasRecord
    <2>4. CASE ~Archive!InStep
      <3>1. buf # <<>> /\ buf[1][1] # "head"
        BY <2>4 DEF Archive!InStep
      <3>2. Len(buf) >= 1
        BY <1>2, <3>1, EmptySeq
      <3>3. s[1] = buf[1]
        BY <1>2, <2>2, <3>2
      <3> QED
        BY <2>1, <3>1, <3>3 DEF Begins
    <2> QED
      BY <1>1, <2>3, <2>4
  <1>4. ArchiveTypes' /\ Packing'
    BY <1>1, EmptySeq DEF ArchiveInv, ArchiveTypes, Archive!TypeOK, Packing, Earlier
  <1>5. Whereabouts'
    BY <1>1, <1>3 DEF ArchiveInv, Whereabouts, Waiting
  <1> QED
    BY <1>4, <1>5 DEF ArchiveInv

(* What is taken from the buffer is taken from the stream. *)
LEMMA TakenFromBoth ==
  ASSUME NEW s \in Seq(Units), NEW t \in Seq(Units), NEW m \in 0 .. Len(s)
  PROVE  SubSeq(s, m + 1, Len(s)) \o t = SubSeq(s \o t, m + 1, Len(s \o t))
  <1> DEFINE st   == s \o t
             cut  == SubSeq(s, m + 1, Len(s))
             left == cut \o t
             rest == SubSeq(st, m + 1, Len(st))
  <1>1. Len(s) \in Nat /\ Len(t) \in Nat
    BY LenProperties
  <1>2. /\ st \in Seq(Units) /\ Len(st) = Len(s) + Len(t)
        /\ \A k \in 1 .. Len(s) + Len(t) : st[k] = IF k <= Len(s) THEN s[k] ELSE t[k - Len(s)]
    BY ConcatProperties
  <1>3. cut \in Seq(Units) /\ Len(cut) = Len(s) - m /\ \A k \in 1 .. Len(s) - m : cut[k] = s[m + k]
    BY Rest
  <1> HIDE DEF st, cut
  <1>4. /\ left \in Seq(Units) /\ Len(left) = Len(cut) + Len(t)
        /\ \A k \in 1 .. Len(cut) + Len(t) : left[k] = IF k <= Len(cut) THEN cut[k] ELSE t[k - Len(cut)]
    BY <1>3, ConcatProperties
  <1>5. rest \in Seq(Units) /\ Len(rest) = Len(st) - m /\ \A k \in 1 .. Len(st) - m : rest[k] = st[m + k]
    <2>1. m \in 0 .. Len(st)
      BY <1>1, <1>2
    <2> QED
      BY <1>2, <2>1, Rest
  <1> HIDE DEF left, rest
  <1>6. Len(left) = Len(rest)
    BY <1>1, <1>2, <1>3, <1>4, <1>5
  <1>7. ASSUME NEW k \in 1 .. Len(left) PROVE left[k] = rest[k]
    <2>1. /\ k \in 1 .. Len(st) - m /\ m + k \in 1 .. Len(s) + Len(t) /\ k \in 1 .. Len(cut) + Len(t)
          /\ k <= Len(cut) <=> m + k <= Len(s)
          /\ k <= Len(cut) => k \in 1 .. Len(s) - m
          /\ k - Len(cut) = m + k - Len(s)
      BY <1>1, <1>2, <1>3, <1>4, <1>5
    <2>2. rest[k] = st[m + k]
      BY <1>5, <2>1
    <2>3. st[m + k] = IF m + k <= Len(s) THEN s[m + k] ELSE t[m + k - Len(s)]
      BY <1>2, <2>1
    <2>4. left[k] = IF k <= Len(cut) THEN s[m + k] ELSE t[k - Len(cut)]
      BY <1>3, <1>4, <2>1
    <2> QED
      BY <2>1, <2>2, <2>3, <2>4
  <1>8. left = rest
    BY <1>4, <1>5, <1>6, <1>7, SeqEqual
  <1> QED
    BY <1>8 DEF left, rest, cut, st

(* What is taken for the content of a record. *)
LEMMA Content ==
  ASSUME NEW s \in Seq(Units), NEW n \in Nat, 2 + n <= Len(s)
  PROVE  LET data == SubSeq(s, 3, 2 + n) IN
         data \in Seq(Units) /\ Len(data) = n /\ \A k \in 1 .. n : data[k] = s[2 + k]
  <1>1. Len(s) \in Nat /\ \A k \in 1 .. Len(s) : s[k] \in Units
    BY LenProperties, ElementOfSeq
  <1>2. 3 .. 2 + n \subseteq 1 .. Len(s) /\ 3 \in Int /\ 2 + n \in Int
    BY <1>1
  <1>3. \A k \in 3 .. 2 + n : s[k] \in Units
    BY <1>1, <1>2
  <1>4. /\ SubSeq(s, 3, 2 + n) \in Seq(Units)
        /\ Len(SubSeq(s, 3, 2 + n)) = IF 3 <= 2 + n THEN 2 + n - 3 + 1 ELSE 0
        /\ \A k \in 1 .. 2 + n - 3 + 1 : SubSeq(s, 3, 2 + n)[k] = s[3 + k - 1]
    BY <1>2, <1>3, SubSeqProperties
  <1>5. 2 + n - 3 + 1 = n /\ (IF 3 <= 2 + n THEN 2 + n - 3 + 1 ELSE 0) = n /\ \A k \in 1 .. n : 3 + k - 1 = 2 + k
    OBVIOUS
  <1> QED
    BY <1>4, <1>5

LEMMA RecordStep == ASSUME ArchiveInv, Archive!Record PROVE ArchiveInv'
  <1> DEFINE s == buf \o archive
             f == buf[1][2]
             n == buf[1][3]
             data == SubSeq(buf, 3, 2 + n)
             t == SubSeq(buf, 3 + n, Len(buf))
  <1>1. /\ phase = "restore" /\ out' = [out EXCEPT ![f] = data] /\ buf' = t
        /\ Len(buf) >= 2 /\ Len(buf) >= 2 + n
        /\ UNCHANGED <<avatar, writes, phase, at, size, packed, exact, archive>>
    BY DEF Archive!Record, Archive!HasRecord
  <1>2. archive \in Seq(Units) /\ buf \in Seq(Units) /\ Len(archive) \in Nat /\ Len(buf) \in Nat
    BY LenProperties DEF ArchiveInv, ArchiveTypes
  <1>3. /\ buf[1][1] = "head" /\ f \in Archive!Names /\ n \in Nat
        /\ \A k \in 1 .. Len(buf) : buf[k] \in Units
    <2>1. buf # <<>>
      BY <1>1, EmptySeq
    <2>2. buf[1][1] = "head"
      BY <2>1 DEF Archive!Record, Archive!InStep
    <2>3. \A k \in 1 .. Len(buf) : buf[k] \in Units
      BY <1>2, ElementOfSeq
    <2>4. buf[1] \in Units
      BY <1>1, <1>2, <2>3
    <2> QED
      BY <2>2, <2>3, <2>4 DEF Units
  <1> HIDE DEF f, n
  <1>4. 2 + n \in 0 .. Len(buf) /\ (2 + n) + 1 = 3 + n
    BY <1>1, <1>2, <1>3
  <1>5. /\ Len(s) = Len(buf) + Len(archive)
        /\ \A k \in 1 .. Len(buf) : s[k] = buf[k]
    <2>1. /\ Len(s) = Len(buf) + Len(archive)
          /\ \A k \in 1 .. Len(buf) + Len(archive) : s[k] = IF k <= Len(buf) THEN buf[k] ELSE archive[k - Len(buf)]
      BY <1>2, ConcatProperties
    <2> QED
      BY <1>2, <2>1
  <1>6. t \in Seq(Units)
    BY <1>2, <1>4, Rest
  <1>7. /\ data \in Seq(Units) /\ Len(data) = n
        /\ \A k \in 1 .. n : data[k] = buf[2 + k]
    BY <1>1, <1>2, <1>3, Content
  <1>8. (buf \o archive)' = SubSeq(s, 3 + n, Len(s))
    BY <1>1, <1>2, <1>4, TakenFromBoth
  <1>9. Packed(s, packed, exact, Waiting) /\ Intact(s, packed, exact, Waiting)
    BY <1>1, PackedNow DEF ArchiveInv, Whereabouts
  <1>10. Begins(s, f, 1) /\ s[1][3] = n /\ 1 \in 1 .. Len(s) /\ Len(s) >= 1
    BY <1>1, <1>2, <1>3, <1>5 DEF Begins, f, n
  <1> HIDE DEF s, data, t
  <1>11. out \in [Archive!Names -> Seq(Units) \cup {Archive!Nothing}] /\ exact \subseteq Archive!Names
    BY DEF ArchiveInv, ArchiveTypes, Archive!TypeOK
  <1>12. /\ out' \in [Archive!Names -> Seq(Units) \cup {Archive!Nothing}]
         /\ out'[f] = data /\ \A g \in exact \ {f} : out'[g] = out[g]
    BY <1>1, <1>3, <1>7, <1>11
  <1>13. ArchiveTypes' /\ Packing'
    BY <1>1, <1>6, <1>12 DEF ArchiveInv, ArchiveTypes, Archive!TypeOK, Packing, Earlier
  <1>14. CASE f \in exact
    <2>1. f \in Waiting /\ Whole(s, packed, f, 1)
      BY <1>9, <1>10, <1>14 DEF Intact
    <2>2. packed[f] \in 1 .. Len(Size) /\ n = Size[packed[f]] /\ Past(packed, f, 1) = 3 + n
      <3>1. packed[f] \in 1 .. Len(Size)
        BY <1>9, <1>14 DEF Packed
      <3>2. n = Size[packed[f]]
        BY <1>10, <2>1 DEF Whole
      <3> QED
        BY <1>3, <3>1, <3>2 DEF Past
    <2>3. data = Archive!Bytes(f, packed[f])
      <3> DEFINE u == Archive!Bytes(f, packed[f])
      <3>1. u \in Seq(Units) /\ Len(u) = n /\ \A k \in 1 .. n : u[k] = <<"byte", f, packed[f]>>
        BY <1>3, <2>2, BytesAreUnits
      <3> HIDE DEF u
      <3>2. ASSUME NEW k \in 1 .. n PROVE data[k] = u[k]
        <4>1. 2 + k \in 1 + 2 .. Past(packed, f, 1) - 1 /\ 2 + k \in 1 .. Len(buf)
          BY <1>1, <1>2, <1>3, <2>2
        <4>2. s[2 + k] = <<"byte", f, packed[f]>>
          BY <2>1, <4>1 DEF Whole
        <4> QED
          BY <1>5, <1>7, <3>1, <4>1, <4>2
      <3>3. data = u
        BY <1>7, <3>1, <3>2, SeqEqual
      <3> QED
        BY <3>3 DEF u
    <2>4. Waiting' = Waiting \ {f}
      <3>1. out'[f] # Archive!Nothing
        BY <1>12, <2>3, BytesAreSomething
      <3> QED
        BY <1>1, <1>12, <3>1 DEF Waiting
    <2>5. Intact(SubSeq(s, 3 + n, Len(s)), packed, exact, Waiting \ {f})
      BY <1>9, <1>10, <2>1, <2>2, Consumed
    <2>6. \A g \in exact' : out'[g] \in {Archive!Nothing, Archive!Bytes(g, packed'[g])}
      BY <1>1, <1>12, <2>3 DEF ArchiveInv, Whereabouts
    <2>7. Whereabouts'
      BY <1>1, <1>8, <2>4, <2>5, <2>6 DEF Whereabouts
    <2> QED
      BY <1>13, <2>7 DEF ArchiveInv
  <1>15. CASE f \notin exact
    <2>1. Waiting = {}
      <3> SUFFICES ASSUME Waiting # {} PROVE FALSE
        OBVIOUS
      <3>1. PICK g \in Waiting : Begins(s, g, 1)
        BY <1>1, FirstIsWhole DEF s
      <3>2. g = f
        BY <1>10, <3>1 DEF Begins
      <3> QED
        BY <1>15, <3>2 DEF Waiting
    <2>2. \A g \in exact : out'[g] = out[g]
      BY <1>12, <1>15
    <2>3. Waiting' = {}
      BY <1>1, <2>1, <2>2 DEF Waiting
    <2>4. Intact(SubSeq(s, 3 + n, Len(s)), packed, exact, {})
      <3>1. 2 + n \in 0 .. Len(s)
        BY <1>2, <1>4, <1>5
      <3> QED
        BY <1>4, <1>9, <2>1, <3>1, Skipped
    <2>5. \A g \in exact' : out'[g] \in {Archive!Nothing, Archive!Bytes(g, packed'[g])}
      BY <1>1, <2>2 DEF ArchiveInv, Whereabouts
    <2>6. Whereabouts'
      BY <1>1, <1>8, <2>3, <2>4, <2>5 DEF Whereabouts
    <2> QED
      BY <1>13, <2>6 DEF ArchiveInv
  <1> QED
    BY <1>14, <1>15

-----------------------------------------------------------------------------
LEMMA ArchiveFirst == Archive!Init => ArchiveInv
  <1> SUFFICES ASSUME Archive!Init PROVE ArchiveInv
    OBVIOUS
  <1>1. /\ avatar \in [Archive!Names -> Archive!Versions]
        /\ writes \in 0 .. MaxWrites /\ at \in 1 .. Len(Files) + 1
        /\ packed \in [Archive!Names -> Archive!Versions]
    BY ArchiveParameters, SizesAreNumbers, FilesAreNames DEF Archive!Init, Archive!Versions
  <1>2. ArchiveTypes
    BY <1>1, EmptySeq DEF Archive!Init, ArchiveTypes, Archive!TypeOK
  <1>3. Packing
    BY FilesAreNames DEF Archive!Init, Packing
  <1>4. buf \o archive = <<>> /\ Len(archive) = 0 /\ exact = {}
    BY EmptySeq, ConcatEmptySeq DEF Archive!Init
  <1>5. Body + 1 = 1 /\ 1 .. Body = {}
    BY <1>4 DEF Archive!Init, Body
  <1>6. Writing
    BY <1>5 DEF Archive!Init, Writing, Behind
  <1>7. Waiting = {} /\ Intact(buf \o archive, packed, exact, {})
    BY <1>4 DEF Waiting, Intact
  <1>8. Whereabouts
    BY <1>4, <1>6, <1>7 DEF Archive!Init, Whereabouts
  <1> QED
    BY <1>2, <1>3, <1>8 DEF ArchiveInv

LEMMA ArchiveStep == ArchiveInv /\ [Archive!Next]_(Archive!vars) => ArchiveInv'
  <1> SUFFICES ASSUME ArchiveInv, [Archive!Next]_(Archive!vars) PROVE ArchiveInv'
    OBVIOUS
  <1>1. CASE \E f \in Archive!Names, v \in Archive!Versions : Archive!Write(f, v)
    BY <1>1, WriteStep
  <1>2. CASE Archive!Stat
    BY <1>2, StatStep
  <1>3. CASE Archive!Stream
    BY <1>3, StreamStep
  <1>4. CASE Archive!Restore
    BY <1>4, RestoreStep
  <1>5. CASE \E n \in 1 .. Len(archive) : Archive!Chunk(n)
    BY <1>5, ChunkStep
  <1>6. CASE Archive!Record
    BY <1>6, RecordStep
  <1>7. CASE Archive!Finish
    BY <1>7, FinishStep
  <1>8. CASE UNCHANGED Archive!vars
    <2>1. UNCHANGED <<avatar, writes, phase, at, size, packed, exact, archive, buf, out>>
      BY <1>8 DEF Archive!vars
    <2>2. ArchiveTypes' /\ Packing'
      BY <2>1 DEF ArchiveInv, ArchiveTypes, Archive!TypeOK, Packing, Earlier
    <2>3. Whereabouts'
      BY <2>1 DEF ArchiveInv, Whereabouts, Writing, Waiting, Body, Earlier, Clean
    <2> QED
      BY <2>2, <2>3 DEF ArchiveInv
  <1> QED
    BY <1>1, <1>2, <1>3, <1>4, <1>5, <1>6, <1>7, <1>8 DEF Archive!Next, Archive!Ended

THEOREM ArchiveInvariance == Archive!Spec => []ArchiveInv
  BY ArchiveFirst, ArchiveStep, PTL DEF Archive!Spec

LEMMA ArchiveAlone == BothSpec => Archive!Spec
  <1>1. BothInit => Archive!Init
    BY DEF BothInit
  <1>2. [BothNext]_<<scenario, vars, archiveVars>> => [Archive!Next]_(Archive!vars)
    BY DEF BothNext, archiveVars, Archive!vars
  <1> QED
    BY <1>1, <1>2, PTL DEF BothSpec, Archive!Spec

(* However uploads and deletions fall between the stat and the stream of each
   file, and however gunzip cuts the stream (createArchive, extractArchive):
   a restore that has ended has written every file up to the first one whose
   size changed in between, byte for byte as it was streamed. *)
THEOREM RestoresWhatWasStreamed == BothSpec => []RestoresExact
  <1>1. ArchiveInv => RestoresExact
    BY DEF ArchiveInv, ArchiveTypes, Whereabouts, Waiting, RestoresExact, Archive!RestoresExact
  <1> QED
    BY <1>1, ArchiveAlone, ArchiveInvariance, PTL
=============================================================================

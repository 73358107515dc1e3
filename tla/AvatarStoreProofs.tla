-------------------------- MODULE AvatarStoreProofs --------------------------
(***************************************************************************)
(* For every set of users, contents, workers, request slots and operations *)
(* of AvatarStore: its variables keep their types, and EverOnDisk holds.   *)
(* If the requests of Figura clients, or of clients of /api, come one at a *)
(* time, to one process, they are answered with what the file holds.       *)
(***************************************************************************)
EXTENDS MCAvatarScenarios, TLAPS

-----------------------------------------------------------------------------
(* The inductive invariant.  EverOnDisk alone is not inductive: a content on
   its way to a cache or to a client waits in a request's hands, in a
   version or in a snapshot still to be taken.                             *)

HistoryInv == \A u \in Users : disk[u] \in ever[u]

VersionInv ==
  /\ \A u \in Users : \A v \in versions[u] : v.hash \in ever[u] /\ v.file \in ever[u]
  /\ \A w \in Workers, u \in Users : snaps[w][u] \subseteq ever[u]

CacheInv ==
  \A w \in Workers, k \in Kinds, u \in Users : cache[w][k][u] \in ever[u] \cup {Miss}

Carried == {"renamed", "found", "copying", "copied", "read", "counting"}

(* The operations that compute a hash from the file. *)
Readers == Profiles \cup {"download", "preview"}

RequestInv ==
  \A r \in Reqs :
    /\ op[r] \in Uploads /\ pc[r] # "idle" => data[r] \in Contents
    /\ pc[r] \in Carried => data[r] \in ever[user[r]]
    /\ pc[r] = "reading" => op[r] \in Readers
    /\ op[r] # "backup" => tag[r] \in ever[user[r]] \cup {None}
    /\ op[r] = "restore" /\ pc[r] # "start" => tag[r] \in ever[user[r]]
    /\ ans[r] \in ever[user[r]] \cup {Failed}
    /\ pc[r] # "idle" => ans[r] = Failed

IInv == TypeOK /\ HistoryInv /\ VersionInv /\ CacheInv /\ RequestInv

(* The variables of a request, and those that hold files. *)
ReqType ==
  /\ pc \in [Reqs -> States]
  /\ op \in [Reqs -> AllOps \cup {"none"}]
  /\ user \in [Reqs -> Users]
  /\ data \in [Reqs -> Value]
  /\ tag \in [Reqs -> Value]
  /\ ans \in [Reqs -> Value \cup {Failed}]

DiskType ==
  /\ disk \in [Users -> Value]
  /\ into \in [Users -> SUBSET Reqs]
  /\ ever \in [Users -> SUBSET Value]
  /\ window \in [Reqs -> SUBSET Value]

CacheType == cache \in [Workers -> [Kinds -> [Users -> Entry]]]

VersionType ==
  /\ versions \in [Users -> SUBSET Version]
  /\ snaps \in [Workers -> [Users -> SUBSET Contents]]

Grows == \A u \in Users : ever[u] \subseteq ever'[u]

-----------------------------------------------------------------------------
(* What the operators that the actions share preserve.                     *)

USE DEF diskVars, verVars, States, AllOps, Carried, Readers, Uploads, Deletes, Profiles, At

(* Filling caches with a content the user's file has held is harmless. *)
LEMMA PutKeeps ==
  ASSUME TypeOK, CacheInv, NEW r \in Reqs, NEW fill, NEW drop,
         NEW h \in ever[user[r]] \cup {Miss}, Put(r, fill, h, drop), Grows
  PROVE  CacheType' /\ CacheInv'
  BY HomeType DEF TypeOK, CacheInv, Put, Entry, CacheType, Grows

(* A change of a file is recorded in its history. *)
LEMMA SetDiskKeeps ==
  ASSUME TypeOK, HistoryInv, NEW u \in Users, NEW v \in Value, NEW i \in SUBSET Reqs,
         SetDisk(u, v, i)
  PROVE  DiskType' /\ HistoryInv' /\ Grows /\ ever'[u] = ever[u] \cup {v}
  BY DEF TypeOK, HistoryInv, SetDisk, DiskType, Grows

(* What is known of caches and versions stays true while histories grow. *)
LEMMA GrowKeeps ==
  ASSUME TypeOK, VersionInv, CacheInv, Grows, UNCHANGED <<cache, verVars>>
  PROVE  CacheType' /\ VersionType' /\ VersionInv' /\ CacheInv'
  BY DEF TypeOK, VersionInv, CacheInv, Grows, CacheType, VersionType, Entry

LEMMA GoKeeps ==
  ASSUME TypeOK, RequestInv, NEW r \in Reqs, NEW p \in States \ {"idle"}, NEW d \in Value,
         Go(r, p, d), Grows, pc[r] # "idle",
         op[r] = "restore" => pc[r] # "start",
         op[r] \in Uploads => d \in Contents,
         p = "reading" => op[r] \in Readers,
         p \in Carried => d \in ever'[user[r]]
  PROVE  ReqType' /\ RequestInv'
  BY DEF TypeOK, RequestInv, Go, Grows, ReqType

LEMMA AnswerKeeps ==
  ASSUME TypeOK, HistoryInv, RequestInv, NEW r \in Reqs,
         NEW a \in ever[user[r]] \cup {Failed}, Answer(r, a)
  PROVE  ReqType' /\ DiskType' /\ HistoryInv' /\ RequestInv' /\ Grows
  BY DEF TypeOK, HistoryInv, RequestInv, Answer, Grows, ReqType, DiskType, Value

-----------------------------------------------------------------------------
(* The steps of a request.                                                 *)

(* A request that is answered, or goes on, and changes nothing else. *)
LEMMA PlainAnswer ==
  ASSUME IInv, NEW r \in Reqs, NEW a \in ever[user[r]] \cup {Failed},
         Answer(r, a), UNCHANGED <<cache, verVars>>
  PROVE  IInv'
  <1>1. ReqType' /\ DiskType' /\ HistoryInv' /\ RequestInv' /\ Grows
    BY AnswerKeeps DEF IInv
  <1>2. CacheType' /\ VersionType' /\ VersionInv' /\ CacheInv'
    BY <1>1, GrowKeeps DEF IInv
  <1> QED
    BY <1>1, <1>2 DEF IInv, TypeOK, ReqType, DiskType, CacheType, VersionType

LEMMA PlainGo ==
  ASSUME IInv, NEW r \in Reqs, NEW p \in States \ {"idle"}, NEW d \in Value,
         pc[r] # "idle", op[r] = "restore" => pc[r] # "start",
         op[r] \in Uploads => d \in Contents,
         p = "reading" => op[r] \in Readers,
         p \in Carried => d \in ever[user[r]],
         Go(r, p, d), UNCHANGED <<diskVars, window, cache, verVars>>
  PROVE  IInv'
  <1>1. Grows /\ DiskType' /\ HistoryInv'
    BY DEF Grows, IInv, TypeOK, DiskType, HistoryInv
  <1>2. ReqType' /\ RequestInv'
    BY <1>1, GoKeeps DEF IInv
  <1>3. CacheType' /\ VersionType' /\ VersionInv' /\ CacheInv'
    BY <1>1, GrowKeeps DEF IInv
  <1> QED
    BY <1>1, <1>2, <1>3 DEF IInv, TypeOK, ReqType, DiskType, CacheType, VersionType

(* One that is answered after filling and clearing caches. *)
LEMMA PutAnswer ==
  ASSUME IInv, NEW r \in Reqs, NEW a \in ever[user[r]] \cup {Failed},
         NEW fill, NEW drop, NEW h \in ever[user[r]] \cup {Miss},
         Put(r, fill, h, drop), Answer(r, a), VersionType', VersionInv'
  PROVE  IInv'
  <1>1. ReqType' /\ DiskType' /\ HistoryInv' /\ RequestInv' /\ Grows
    BY AnswerKeeps DEF IInv
  <1>2. CacheType' /\ CacheInv'
    BY <1>1, PutKeeps DEF IInv
  <1> QED
    BY <1>1, <1>2 DEF IInv, TypeOK, ReqType, DiskType, CacheType, VersionType

(* One that changes the file of u and goes on. *)
LEMMA WriteGo ==
  ASSUME IInv, NEW r \in Reqs, NEW u \in Users, NEW v \in Value, NEW i \in SUBSET Reqs,
         SetDisk(u, v, i), ReqType', RequestInv', UNCHANGED <<cache, verVars>>
  PROVE  IInv'
  <1>1. DiskType' /\ HistoryInv' /\ Grows
    BY SetDiskKeeps DEF IInv
  <1>2. CacheType' /\ VersionType' /\ VersionInv' /\ CacheInv'
    BY <1>1, GrowKeeps DEF IInv
  <1> QED
    BY <1>1, <1>2 DEF IInv, TypeOK, ReqType, DiskType, CacheType, VersionType

(* Facts about a request's user and the versions, used throughout. *)
LEMMA Knows ==
  ASSUME IInv, NEW r \in Reqs
  PROVE  /\ user[r] \in Users
         /\ disk[user[r]] \in Value
         /\ disk[user[r]] \in ever[user[r]]
         /\ ever[user[r]] \subseteq Value
         /\ data[r] \in Value
         /\ Failed \in ever[user[r]] \cup {Failed}
         /\ op[r] \in Uploads /\ pc[r] # "idle" => data[r] \in Contents
         /\ pc[r] = "reading" => op[r] \in Readers
         /\ pc[r] \in Carried => data[r] \in ever[user[r]]
         /\ Home[r] \in Workers
         /\ \A k \in Kinds : cache[Home[r]][k][user[r]] \in ever[user[r]] \cup {Miss}
  BY HomeType DEF IInv, TypeOK, HistoryInv, RequestInv, CacheInv

LEMMA UploadKeeps ==
  ASSUME IInv, NEW r \in Reqs, Rename(r) \/ UploadFails(r) \/ Uploaded(r)
  PROVE  IInv'
  <1>1. CASE Rename(r)
    <2>1. SetDisk(user[r], data[r], {}) /\ Grows /\ data[r] \in ever'[user[r]]
      BY <1>1, Knows, SetDiskKeeps DEF Rename, IInv
    <2>2. ReqType' /\ RequestInv'
      BY <1>1, <2>1, Knows, GoKeeps DEF Rename, IInv
    <2> QED
      BY <1>1, <2>1, <2>2, Knows, WriteGo DEF Rename
  <1>2. CASE UploadFails(r)
    BY <1>2, PlainAnswer DEF UploadFails
  <1>3. CASE Uploaded(r)
    <2>1. data[r] \in ever[user[r]] /\ data[r] \in Value
      BY <1>3, Knows DEF Uploaded
    <2>2. Grows
      BY <1>3 DEF Uploaded, Answer, Grows
    <2>3. op[r] = "upload" => data[r] \in Contents
      BY <1>3 DEF Uploaded, IInv, RequestInv
    <2>4. snaps' \in [Workers -> [Users -> SUBSET Contents]]
      BY <1>3, <2>3, Knows DEF Uploaded, IInv, TypeOK
    <2>5. \A w \in Workers, u \in Users : snaps'[w][u] \subseteq ever'[u]
      BY <1>3, <2>1, <2>2, Knows DEF Uploaded, IInv, TypeOK, VersionInv, Grows
    <2>6. VersionType' /\ VersionInv'
      BY <1>3, <2>2, <2>4, <2>5 DEF Uploaded, IInv, TypeOK, VersionType, VersionInv, Grows
    <2> QED
      BY <1>3, <2>1, <2>6, PutAnswer DEF Uploaded
  <1> QED
    BY <1>1, <1>2, <1>3

LEMMA DeleteKeeps ==
  ASSUME IInv, NEW r \in Reqs, Unlink(r) \/ NothingToDelete(r) \/ Deleted(r)
  PROVE  IInv'
  <1>1. CASE Unlink(r)
    <2>1. SetDisk(user[r], None, {}) /\ Grows
      BY <1>1, Knows, SetDiskKeeps DEF Unlink, IInv, Value
    <2>2. ReqType' /\ RequestInv'
      BY <1>1, <2>1, Knows, GoKeeps DEF Unlink, IInv, Value
    <2> QED
      BY <1>1, <2>1, <2>2, Knows, WriteGo DEF Unlink, Value
  <1>2. CASE NothingToDelete(r)
    BY <1>2, Knows, PlainAnswer DEF NothingToDelete
  <1>3. CASE Deleted(r)
    <2>1. VersionType' /\ VersionInv'
      BY <1>3 DEF Deleted, Answer, IInv, TypeOK, VersionType, VersionInv
    <2> QED
      BY <1>3, <2>1, PutAnswer DEF Deleted
  <1> QED
    BY <1>1, <1>2, <1>3

(* The copy that restoring a version, or one file of a backup, makes. *)
LEMMA CopyKeeps ==
  ASSUME IInv, NEW r \in Reqs, CopyBegin(r) \/ CopyEnd(r) \/ CopyFails(r)
  PROVE  IInv'
  <1>1. CASE CopyBegin(r)
    <2> DEFINE i == {r} \cup (IF Copiers(user[r]) = {} THEN {} ELSE into[user[r]])
    <2>1. i \in SUBSET Reqs /\ Torn \in Value
      BY Knows DEF IInv, TypeOK, Value, File
    <2>2. SetDisk(user[r], Torn, i)
      BY <1>1 DEF CopyBegin, Truncate
    <2>3. Grows
      BY <2>1, <2>2, Knows, SetDiskKeeps DEF IInv
    <2>4. data[r] \in ever'[user[r]]
      BY <1>1, <2>3, Knows DEF CopyBegin, Grows
    <2>5. ReqType' /\ RequestInv'
      BY <1>1, <2>3, <2>4, Knows, GoKeeps DEF CopyBegin, IInv
    <2> QED
      BY <1>1, <2>1, <2>2, <2>5, Knows, WriteGo DEF CopyBegin
  <1>2. CASE CopyEnd(r)
    <2>1. /\ Go(r, IF op[r] = "backup" THEN "start" ELSE "copied", data[r])
          /\ data[r] \in ever[user[r]]
          /\ UNCHANGED <<cache, verVars>>
      BY <1>2, Knows DEF CopyEnd
    <2>2. ASSUME Grows PROVE ReqType' /\ RequestInv'
      <3>1. data[r] \in ever'[user[r]]
        BY <2>1, <2>2, Knows DEF Grows
      <3> QED
        BY <1>2, <2>1, <2>2, <3>1, Knows, GoKeeps DEF CopyEnd, IInv
    <2>3. CASE UNCHANGED <<diskVars, window>>
      <3>1. Grows /\ DiskType' /\ HistoryInv'
        BY <2>3 DEF Grows, IInv, TypeOK, DiskType, HistoryInv
      <3>2. CacheType' /\ VersionType' /\ VersionInv' /\ CacheInv'
        BY <2>1, <3>1, GrowKeeps DEF IInv
      <3> QED
        BY <2>2, <3>1, <3>2 DEF IInv, TypeOK, ReqType, DiskType, CacheType, VersionType
    <2>4. ASSUME NEW v \in {data[r], Torn}, SetDisk(user[r], v, {}) PROVE IInv'
      <3>1. v \in Value
        BY Knows DEF Value, File
      <3>2. Grows
        BY <2>4, <3>1, Knows, SetDiskKeeps DEF IInv
      <3> QED
        BY <2>1, <2>2, <2>4, <3>1, <3>2, Knows, WriteGo
    <2> QED
      BY <1>2, <2>3, <2>4 DEF CopyEnd
  <1>3. CASE CopyFails(r)
    <2>1. SetDisk(user[r], None, {}) /\ Grows
      BY <1>3, Knows, SetDiskKeeps DEF CopyFails, IInv, Value
    <2>2. ReqType' /\ RequestInv'
      BY <1>3, <2>1, Knows, GoKeeps DEF CopyFails, IInv, Value
    <2> QED
      BY <1>3, <2>1, <2>2, Knows, WriteGo DEF CopyFails, Value
  <1> QED
    BY <1>1, <1>2, <1>3

LEMMA RestoreKeeps ==
  ASSUME IInv, NEW r \in Reqs,
         \/ \E v \in versions[user[r]] : FindVersion(r, v)
         \/ RestoreFails(r)
         \/ Restored(r)
  PROVE  IInv'
  <1>1. ASSUME NEW v \in versions[user[r]], FindVersion(r, v) PROVE IInv'
    <2>1. v.hash \in ever[user[r]] /\ v.file \in ever[user[r]] /\ v.hash \in Value /\ v.file \in Value
      BY Knows DEF IInv, VersionInv
    <2>2. ReqType' /\ RequestInv'
      BY <1>1, <2>1, Knows DEF FindVersion, IInv, TypeOK, ReqType, RequestInv
    <2> QED
      BY <1>1, <2>2 DEF FindVersion, IInv, TypeOK, ReqType, HistoryInv, VersionInv, CacheInv
  <1>2. CASE RestoreFails(r)
    BY <1>2, PlainAnswer DEF RestoreFails
  <1>3. CASE Restored(r)
    <2>1. tag[r] \in ever[user[r]]
      BY <1>3 DEF Restored, IInv, RequestInv
    <2>2. VersionType' /\ VersionInv'
      BY <1>3 DEF Restored, Answer, IInv, TypeOK, VersionType, VersionInv
    <2> QED
      BY <1>3, <2>1, <2>2, PutAnswer DEF Restored
  <1> QED
    BY <1>1, <1>2, <1>3

LEMMA BackupKeeps ==
  ASSUME IInv, NEW r \in Reqs, BackupEnd(r) \/ BackupFails(r)
  PROVE  IInv'
  <1>1. CASE BackupEnd(r)
    <2>1. ReqType' /\ DiskType' /\ HistoryInv' /\ RequestInv' /\ Grows
      BY <1>1, AnswerKeeps DEF BackupEnd, IInv
    <2>2. CacheType' /\ CacheInv'
      BY <1>1, <2>1, Knows DEF BackupEnd, Answer, IInv, TypeOK, CacheType, CacheInv, Empty, Entry, Grows
    <2> QED
      BY <1>1, <2>1, <2>2 DEF BackupEnd, Answer, IInv, TypeOK, ReqType, DiskType, CacheType, VersionInv
  <1>2. CASE BackupFails(r)
    BY <1>2, PlainAnswer DEF BackupFails
  <1> QED
    BY <1>1, <1>2

LEMMA ReadKeeps ==
  ASSUME IInv, NEW r \in Reqs, Read(r)
  PROVE  IInv'
  BY Knows, PlainGo DEF Read

LEMMA ProfileKeeps ==
  ASSUME IInv, NEW r \in Reqs, Lookup(r) \/ ProfileRead(r)
  PROVE  IInv'
  <1> DEFINE json == cache[Home[r]][Key(r)][user[r]]
  <1>1. json \in ever[user[r]] \cup {Miss} /\ Hash(r) \in ever[user[r]] \cup {Miss}
    BY Knows DEF Key, Hash, Kinds
  <1>2. UNCHANGED verVars => VersionType' /\ (Answer(r, json) \/ Answer(r, Hash(r)) \/ Answer(r, data[r]) => VersionInv')
    BY DEF Answer, IInv, TypeOK, VersionType, VersionInv
  <1>3. CASE Lookup(r)
    <2>1. CASE json # Miss /\ Answer(r, json) /\ UNCHANGED cache
      BY <1>1, <1>3, <2>1, PlainAnswer DEF Lookup
    <2>2. CASE Hash(r) # Miss /\ Put(r, {Key(r)}, Hash(r), {}) /\ Answer(r, Hash(r))
      BY <1>1, <1>2, <1>3, <2>2, PutAnswer DEF Lookup
    <2>3. CASE Go(r, "reading", None) /\ UNCHANGED <<cache, diskVars, window>>
      BY <1>3, <2>3, PlainGo DEF Lookup, Value
    <2> QED
      BY <1>3, <2>1, <2>2, <2>3 DEF Lookup
  <1>4. CASE ProfileRead(r)
    BY <1>2, <1>4, Knows, PutAnswer DEF ProfileRead
  <1> QED
    BY <1>3, <1>4

LEMMA CompareKeeps ==
  ASSUME IInv, NEW r \in Reqs, NEW h \in ever[user[r]], op[r] = "download", pc[r] # "idle",
         Compare(r, h), CacheType', CacheInv', UNCHANGED verVars
  PROVE  IInv'
  <1>1. CASE Answer(r, h)
    <2>1. ReqType' /\ DiskType' /\ HistoryInv' /\ RequestInv' /\ Grows
      BY <1>1, AnswerKeeps DEF IInv
    <2> QED
      BY <1>1, <2>1 DEF Answer, IInv, TypeOK, ReqType, DiskType, CacheType, VersionInv
  <1>2. CASE Go(r, "sending", h) /\ UNCHANGED <<diskVars, window>>
    <2>1. Grows /\ DiskType' /\ HistoryInv'
      BY <1>2 DEF Grows, IInv, TypeOK, DiskType, HistoryInv
    <2>2. ReqType' /\ RequestInv'
      BY <1>2, <2>1, Knows, GoKeeps DEF IInv
    <2> QED
      BY <1>2, <2>1, <2>2 DEF IInv, TypeOK, ReqType, DiskType, CacheType, VersionInv
  <1> QED
    BY <1>1, <1>2 DEF Compare

LEMMA DownloadKeeps ==
  ASSUME IInv, NEW r \in Reqs, Access(r) \/ Etag(r) \/ EtagRead(r) \/ Send(r)
  PROVE  IInv'
  <1>1. CASE Access(r)
    <2>1. CASE disk[user[r]] = None /\ Answer(r, None)
      BY <1>1, <2>1, Knows, PlainAnswer DEF Access
    <2>2. CASE Go(r, IF op[r] = "file" THEN "sending" ELSE "accessed", None) /\ UNCHANGED <<diskVars, window>>
      BY <1>1, <2>2, PlainGo DEF Access, Value
    <2> QED
      BY <1>1, <2>1, <2>2 DEF Access
  <1>2. CASE Etag(r)
    <2>1. CASE Hash(r) # Miss /\ Compare(r, Hash(r))
      <3>1. Hash(r) \in ever[user[r]]
        BY <2>1, Knows DEF Hash, Kinds
      <3>2. Grows
        BY <2>1 DEF Compare, Answer, Grows
      <3>3. CacheType' /\ CacheInv'
        BY <1>2, <3>2, GrowKeeps DEF Etag, IInv
      <3> QED
        BY <1>2, <2>1, <3>1, <3>3, CompareKeeps DEF Etag
    <2>2. CASE Go(r, "reading", None) /\ UNCHANGED <<diskVars, window>>
      BY <1>2, <2>2, PlainGo DEF Etag, Value
    <2> QED
      BY <1>2, <2>1, <2>2 DEF Etag
  <1>3. CASE EtagRead(r)
    <2>1. data[r] \in ever[user[r]]
      BY <1>3, Knows DEF EtagRead
    <2>2. CASE data[r] = None /\ Answer(r, None) /\ UNCHANGED cache
      BY <1>3, <2>1, <2>2, PlainAnswer DEF EtagRead
    <2>3. CASE Put(r, {"hash"}, data[r], {}) /\ Compare(r, data[r])
      <3>1. Grows
        BY <2>3 DEF Compare, Answer, Grows
      <3>2. CacheType' /\ CacheInv'
        BY <2>1, <2>3, <3>1, PutKeeps DEF IInv
      <3> QED
        BY <1>3, <2>1, <2>3, <3>2, CompareKeeps DEF EtagRead
    <2> QED
      BY <1>3, <2>2, <2>3 DEF EtagRead
  <1>4. CASE Send(r)
    BY <1>4, Knows, PlainAnswer DEF Send
  <1> QED
    BY <1>1, <1>2, <1>3, <1>4

LEMMA PreviewKeeps ==
  ASSUME IInv, NEW r \in Reqs, Preview(r) \/ Stat(r) \/ PreviewHash(r) \/ PreviewRead(r) \/ Counted(r)
  PROVE  IInv'
  <1>1. CASE Preview(r)
    <2> DEFINE card == cache[Home[r]]["preview"][user[r]]
    <2>1. card \in ever[user[r]] \cup {Miss}
      BY Knows DEF Kinds
    <2>2. CASE card # Miss /\ Answer(r, card)
      BY <1>1, <2>1, <2>2, PlainAnswer DEF Preview
    <2>3. CASE Go(r, "missed", None) /\ UNCHANGED <<diskVars, window>>
      BY <1>1, <2>3, Knows, PlainGo DEF Preview, Value
    <2> QED
      BY <1>1, <2>2, <2>3 DEF Preview
  <1>5. CASE Stat(r)
    BY <1>5, Knows, PlainGo DEF Stat, Value
  <1>2. CASE PreviewHash(r)
    <2>1. CASE Hash(r) # Miss /\ Go(r, "counting", Hash(r))
      BY <1>2, <2>1, Knows, PlainGo DEF PreviewHash, Hash, Kinds
    <2>2. CASE Go(r, "reading", None)
      BY <1>2, <2>2, PlainGo DEF PreviewHash, Value
    <2> QED
      BY <1>2, <2>1, <2>2 DEF PreviewHash
  <1>3. CASE PreviewRead(r)
    <2>1. Put(r, HashKey(r), data[r], {}) /\ data[r] \in ever[user[r]] /\ Grows
      BY <1>3, Knows DEF PreviewRead, Grows
    <2>2. DiskType' /\ HistoryInv' /\ VersionInv' /\ VersionType'
      BY <1>3 DEF PreviewRead, IInv, TypeOK, DiskType, HistoryInv, VersionInv, VersionType
    <2>3. CacheType' /\ CacheInv'
      BY <2>1, PutKeeps DEF IInv
    <2>4. data[r] \in ever'[user[r]]
      BY <2>1, Knows DEF Grows
    <2>5. ReqType' /\ RequestInv'
      BY <1>3, <2>1, <2>4, Knows, GoKeeps DEF PreviewRead, IInv
    <2> QED
      BY <2>2, <2>3, <2>5 DEF IInv, TypeOK, ReqType, DiskType, CacheType, VersionType
  <1>4. CASE Counted(r)
    <2>1. VersionType' /\ VersionInv'
      BY <1>4 DEF Counted, Answer, IInv, TypeOK, VersionType, VersionInv
    <2> QED
      BY <1>4, <2>1, Knows, PutAnswer DEF Counted
  <1> QED
    BY <1>1, <1>2, <1>3, <1>4, <1>5

-----------------------------------------------------------------------------
(* The other actions.                                                      *)

LEMMA StepKeeps ==
  ASSUME IInv, NEW r \in Reqs, Step(r) PROVE IInv'
  BY UploadKeeps, DeleteKeeps, CopyKeeps, RestoreKeeps, BackupKeeps, ReadKeeps,
     ProfileKeeps, DownloadKeeps, PreviewKeeps DEF Step

LEMMA ArriveKeeps ==
  ASSUME IInv, NEW r \in Reqs, NEW o \in Ops, NEW u \in Users, Arrive(r, o, u)
  PROVE  IInv'
  <1>1. o \in AllOps
    BY OpsType
  <1>2. ReqType'
    BY <1>1 DEF Arrive, IInv, TypeOK, ReqType, Value, File
  <1>3. DiskType'
    BY DEF Arrive, IInv, TypeOK, DiskType
  <1>4. RequestInv'
    BY <1>1 DEF Arrive, IInv, TypeOK, RequestInv
  <1> QED
    BY <1>2, <1>3, <1>4 DEF Arrive, IInv, TypeOK, ReqType, DiskType, HistoryInv, VersionInv, CacheInv

LEMMA BackupBeginKeeps ==
  ASSUME IInv, NEW r \in Reqs, NEW u \in Users, NEW c \in File, BackupBegin(r, u, c)
  PROVE  IInv'
  <1> DEFINE i == {r} \cup (IF Copiers(u) = {} THEN {} ELSE into[u])
  <1>1. i \in SUBSET Reqs /\ Torn \in Value /\ c \in Value
    BY DEF IInv, TypeOK, Value, File
  <1>2. SetDisk(u, Torn, i)
    BY DEF BackupBegin, Truncate
  <1>3. Grows
    BY <1>1, <1>2, SetDiskKeeps DEF IInv
  <1>4. c \in ever'[u]
    BY <1>3 DEF BackupBegin, Grows
  <1>5. ReqType'
    BY <1>1 DEF BackupBegin, IInv, TypeOK, ReqType
  <1>6. RequestInv'
    BY <1>3, <1>4 DEF BackupBegin, IInv, TypeOK, RequestInv, Grows
  <1> QED
    BY <1>1, <1>2, <1>5, <1>6, WriteGo DEF BackupBegin

LEMMA SnapshotKeeps ==
  ASSUME IInv, NEW w \in Workers, NEW u \in Users, NEW h \in Contents, Snapshot(w, u, h)
  PROVE  IInv'
  <1> DEFINE new == [hash |-> h, file |-> disk[u]]
             all == versions[u] \cup {new}
  <1>1. disk[u] # None => new \in Version
    BY DEF IInv, TypeOK, Value, Version
  <1>2. h \in ever[u] /\ disk[u] \in ever[u]
    BY DEF Snapshot, IInv, VersionInv, HistoryInv
  <1>3. \/ versions' = versions
        \/ disk[u] # None /\ \E s \in SUBSET all : versions' = [versions EXCEPT ![u] = s]
    BY DEF Snapshot
  <1>4. versions' \in [Users -> SUBSET Version]
    <2>1. CASE disk[u] # None
      <3>1. all \subseteq Version
        BY <1>1, <2>1 DEF IInv, TypeOK
      <3> HIDE DEF all
      <3> QED
        BY <1>3, <3>1 DEF IInv, TypeOK
    <2> QED
      BY <1>3, <2>1 DEF IInv, TypeOK
  <1>5. \A q \in Users : \A v \in versions'[q] : v.hash \in ever[q] /\ v.file \in ever[q]
    <2> SUFFICES ASSUME NEW q \in Users, NEW v \in versions'[q]
                 PROVE  v.hash \in ever[q] /\ v.file \in ever[q]
      OBVIOUS
    <2>1. v \in versions[q] \/ (q = u /\ v = new)
      <3> HIDE DEF new
      <3> QED
        BY <1>3 DEF IInv, TypeOK
    <2> QED
      BY <1>2, <2>1 DEF IInv, VersionInv
  <1>6. /\ snaps' \in [Workers -> [Users -> SUBSET Contents]]
        /\ \A x \in Workers, q \in Users : snaps'[x][q] \subseteq ever[q]
    BY DEF Snapshot, IInv, TypeOK, VersionInv
  <1> QED
    BY <1>4, <1>5, <1>6 DEF Snapshot, IInv, TypeOK, HistoryInv, VersionInv, CacheInv, RequestInv

LEMMA DropVersionKeeps ==
  ASSUME IInv, NEW u \in Users, NEW v \in Version, DropVersion(u, v)
  PROVE  IInv'
  BY DEF DropVersion, IInv, TypeOK, HistoryInv, VersionInv, CacheInv, RequestInv

LEMMA ExpireKeeps ==
  ASSUME IInv, NEW w \in Workers, NEW k \in Kinds, NEW u \in Users, Expire(w, k, u)
  PROVE  IInv'
  BY DEF Expire, IInv, TypeOK, Entry, HistoryInv, VersionInv, CacheInv, RequestInv

LEMMA CrashKeeps ==
  ASSUME IInv, NEW w \in Workers, Crash(w)
  PROVE  IInv'
  <1>1. ReqType' /\ window' \in [Reqs -> SUBSET Value]
    BY DEF Crash, IInv, TypeOK, ReqType, Value
  <1>2. RequestInv'
    <2> SUFFICES ASSUME NEW r \in Reqs PROVE RequestInv!(r)'
      BY DEF RequestInv
    <2>1. UNCHANGED <<user, ever>>
      BY DEF Crash
    <2>2. CASE Home[r] = w
      BY <2>1, <2>2 DEF Crash, IInv, TypeOK
    <2>3. CASE Home[r] # w
      <3>1. pc'[r] = pc[r] /\ op'[r] = op[r] /\ data'[r] = data[r] /\ tag'[r] = tag[r] /\ ans'[r] = ans[r]
        BY <2>3 DEF Crash
      <3> QED
        BY <2>1, <3>1 DEF IInv, RequestInv
    <2> QED
      BY <2>2, <2>3
  <1>3. CacheType' /\ CacheInv'
    <2>1. cache' = [cache EXCEPT ![w] = [k \in Kinds |-> Empty]] /\ ever' = ever
      BY DEF Crash
    <2> QED
      BY <2>1 DEF IInv, TypeOK, CacheType, CacheInv, Empty, Entry
  <1>4. VersionType' /\ VersionInv'
    BY DEF Crash, IInv, TypeOK, VersionType, VersionInv
  <1> QED
    BY <1>1, <1>2, <1>3, <1>4
    DEF Crash, IInv, TypeOK, HistoryInv, ReqType, CacheType, VersionType

-----------------------------------------------------------------------------
(* The invariant holds at the start and every step preserves it. *)
THEOREM Inductive == Spec => []IInv
  <1>1. Init => IInv
    BY HomeType DEF Init, IInv, TypeOK, HistoryInv, VersionInv, CacheInv, RequestInv,
       Value, File, Entry, Empty
  <1>2. ASSUME IInv, [Next]_vars PROVE IInv'
    <2>1. CASE UNCHANGED vars
      BY <1>2, <2>1 DEF vars, IInv, TypeOK, HistoryInv, VersionInv, CacheInv, RequestInv
    <2>2. CASE Next
      BY <1>2, <2>2, ArriveKeeps, StepKeeps, BackupBeginKeeps, SnapshotKeeps,
         DropVersionKeeps, ExpireKeeps, CrashKeeps DEF Next
    <2> QED
      BY <1>2, <2>1, <2>2
  <1> QED
    BY <1>1, <1>2, PTL DEF Spec

(* Type correctness: every variable of the store keeps its type, whatever
   the number of users, requests and workers. *)
THEOREM TypeCorrect == Spec => []TypeOK
  <1>1. IInv => TypeOK
    BY DEF IInv
  <1> QED
    BY <1>1, Inductive, PTL

(* No cache entry and no answer about a user's avatar ever names a content
   that user's file never held, however uploads, deletes, restores, readers,
   expiry and crashes interleave on any number of workers. *)
THEOREM Provenance == Spec => []EverOnDisk
  <1>1. IInv => EverOnDisk
    BY DEF IInv, CacheInv, RequestInv, EverOnDisk
  <1> QED
    BY <1>1, Inductive, PTL

-----------------------------------------------------------------------------
(* Requests one at a time: the store implements the register.              *)

(* Requests one at a time, all of them served by one process. *)
OneProcess == \A q, r \in Reqs : Home[q] = Home[r]

(* A writer between its first change of the file and its update of the
   caches. *)
Between(r) == pc[r] \in {"renamed", "unlinked", "copying", "copied"}

(* The caches that the requests of the scenario use. *)
Used == IF scenario = "figura" THEN {"hash", "json", "figura"} ELSE {"hash", "json"}

(* What a request has read or written is what the file holds, and a restore
   carries the hash of what it copies, *)
InHand ==
  \A r \in Reqs :
    /\ pc[r] \in {"renamed", "read", "copied"} => disk[user[r]] = data[r]
    /\ pc[r] = "unlinked" => disk[user[r]] = None
    /\ pc[r] \in {"found", "copying", "copied"} => tag[r] = data[r]
    /\ pc[r] = "copying" => into[user[r]] = {r}

(* and what a cache holds is in the file, but for the user whose file a
   writer is changing. *)
Truthful ==
  \A r \in Reqs, k \in Used, u \in Users :
    \/ cache[Home[r]][k][u] \in {Miss, disk[u]}
    \/ \E q \in Reqs : Between(q) /\ user[q] = u

(* A version is recorded with the hash of what it holds, since the snapshot
   of an upload is taken while the file is still what was uploaded. *)
Recorded ==
  /\ \A u \in Users : \A v \in versions[u] : v.hash = v.file
  /\ \A w \in Workers, u \in Users : \A h \in snaps[w][u] : h = disk[u]

TruthBut(r, S) ==
  \A q \in Reqs, k \in Used, u \in Users :
    cache[Home[q]][k][u] \in {Miss, disk[u]} \/ (u = user[r] /\ k \in S)

SeqInv == OneAtATime => InHand /\ Truthful /\ Recorded

LEMMA Alone ==
  ASSUME InScenario, OneAtATime, NEW r \in Reqs, pc[r] # "idle", NEW q \in Reqs, q # r
  PROVE  pc[q] = "idle"
  BY DEF InScenario, Untouched, OneAtATime

LEMMA SeqOps ==
  ASSUME InScenario, OneAtATime, NEW r \in Reqs
  PROVE  /\ op[r] \notin {"backup", "preview"}
         /\ op[r] \in {"upload", "delete", "restore"} => scenario = "api"
         /\ op[r] = "fprofile" => scenario = "figura"
  BY DEF InScenario, ScenarioOps, OneAtATime

(* While no writer is between its two steps, the caches of a request are
   truthful. *)
LEMMA Trust ==
  ASSUME IInv, InScenario, OneAtATime, SeqInv, NEW r \in Reqs, pc[r] # "idle", ~Between(r)
  PROVE  /\ \A q \in Reqs, k \in Used, u \in Users : cache[Home[q]][k][u] \in {Miss, disk[u]}
         /\ \A q \in Reqs : ~Between(q)
  <1>1. \A q \in Reqs : ~Between(q)
    BY Alone DEF Between
  <1> QED
    BY <1>1 DEF SeqInv, Truthful

-----------------------------------------------------------------------------
(* What the shared parts of steps mean to the register.                    *)

LEMMA TellStep ==
  ASSUME IInv, OneAtATime, scenario' = scenario, NEW r \in Reqs, NEW a, Answer(r, a),
         a \in {Failed, disk[user[r]]}
  PROVE  Sequentially!Next
  <1>1. Files' = Files /\ Files = disk
    BY DEF Files, OneAtATime, Answer
  <1>2. user[r] \in Users /\ ans' = [ans EXCEPT ![r] = a] /\ user' = user
    BY DEF Answer, IInv, TypeOK
  <1>3. ans \in [Reqs -> Value \cup {Failed}]
    BY DEF IInv, TypeOK
  <1>4. Told' = [Told EXCEPT ![r] = IF a = Failed THEN <<>> ELSE <<user[r], a>>]
    BY <1>2, <1>3 DEF Told, OneAtATime
  <1>5. CASE a = Failed
    BY <1>1, <1>4, <1>5 DEF Sequentially!Next, Sequentially!Forget
  <1>6. CASE a # Failed
    <2>1. Told' = [Told EXCEPT ![r] = <<user[r], Files[user[r]]>>]
      BY <1>1, <1>4, <1>6
    <2> QED
      BY <1>1, <1>2, <2>1 DEF Sequentially!Next, Sequentially!Tell
  <1> QED
    BY <1>5, <1>6

LEMMA QuietStep ==
  ASSUME scenario' = scenario, UNCHANGED <<disk, ans, user>>
  PROVE  UNCHANGED <<Files, Told>>
  BY DEF Files, Told, OneAtATime

LEMMA ChangeStep ==
  ASSUME IInv, OneAtATime, scenario' = scenario, NEW u \in Users, NEW v \in Value,
         disk' = [disk EXCEPT ![u] = v], UNCHANGED <<ans, user>>
  PROVE  Sequentially!Next
  <1>1. Files' = [Files EXCEPT ![u] = v] /\ Told' = Told
    BY DEF Files, Told, OneAtATime
  <1> QED
    BY <1>1 DEF Sequentially!Next, Sequentially!Change

-----------------------------------------------------------------------------
(* What they mean to the invariant.                                        *)

(* A request under way that does not leave the file and the caches at odds. *)
LEMMA CalmStep ==
  ASSUME IInv, InScenario, OneAtATime, SeqInv, scenario' = scenario, NEW r \in Reqs,
         pc[r] # "idle", UNCHANGED <<disk, user>>,
         \A q \in Reqs, k \in Used, u \in Users : cache'[Home[q]][k][u] \in {Miss, disk[u]},
         \A q \in Reqs \ {r} : pc'[q] = pc[q],
         ~Between(r)',
         pc'[r] = "read" => data'[r] = disk[user[r]],
         pc'[r] = "found" => tag'[r] = data'[r]
  PROVE  InHand' /\ Truthful'
  <1>1. \A q \in Reqs \ {r} : pc'[q] = "idle"
    BY Alone
  <1>2. Used' = Used
    BY DEF Used
  <1>3. InHand'
    BY <1>1 DEF InHand, Between
  <1> QED
    BY <1>2, <1>3 DEF Truthful

(* Filling and clearing caches of a truthful process. *)
LEMMA PutTruth ==
  ASSUME OneProcess, IInv, NEW r \in Reqs, NEW fill, NEW drop, NEW h \in {Miss, disk[user[r]]},
         Put(r, fill, h, drop), TruthBut(r, fill \cup drop)
  PROVE  \A q \in Reqs, k \in Used, u \in Users : cache'[Home[q]][k][u] \in {Miss, disk[u]}
  <1> SUFFICES ASSUME NEW q \in Reqs, NEW k \in Used, NEW u \in Users
               PROVE  cache'[Home[q]][k][u] \in {Miss, disk[u]}
    OBVIOUS
  <1>1. Home[q] = Home[r] /\ Home[r] \in Workers /\ k \in Kinds
    BY HomeType DEF OneProcess, Used, Kinds
  <1>2. cache'[Home[r]][k][u] = IF u # user[r] \/ k \notin fill \cup drop THEN cache[Home[r]][k][u]
                                ELSE IF k \in fill THEN h ELSE Miss
    BY <1>1 DEF Put, IInv, TypeOK
  <1> QED
    BY <1>1, <1>2 DEF TruthBut

-----------------------------------------------------------------------------
(* The steps.                                                              *)

Keeps == InHand' /\ Truthful' /\ (Sequentially!Next \/ UNCHANGED <<Files, Told>>)

(* A request that is answered with what the file holds, or with nothing. *)
LEMMA AnswerSeq ==
  ASSUME IInv, InScenario, OneAtATime, SeqInv, scenario' = scenario, NEW r \in Reqs,
         pc[r] # "idle", NEW a, Answer(r, a), a \in {Failed, disk[user[r]]},
         \A q \in Reqs, k \in Used, u \in Users : cache'[Home[q]][k][u] \in {Miss, disk[u]}
  PROVE  Keeps
  <1>1. UNCHANGED <<disk, user>> /\ pc' = [pc EXCEPT ![r] = "idle"]
    BY DEF Answer
  <1>2. pc'[r] = "idle" /\ \A q \in Reqs \ {r} : pc'[q] = pc[q]
    BY <1>1 DEF IInv, TypeOK
  <1>3. InHand' /\ Truthful'
    BY <1>1, <1>2, CalmStep DEF Between
  <1>4. Sequentially!Next
    BY TellStep
  <1> QED
    BY <1>3, <1>4 DEF Keeps

(* One that goes on and changes no file. *)
LEMMA GoSeq ==
  ASSUME IInv, InScenario, OneAtATime, SeqInv, scenario' = scenario, NEW r \in Reqs,
         pc[r] # "idle", NEW p, NEW d, Go(r, p, d), UNCHANGED disk,
         p \notin {"renamed", "unlinked", "found", "copying", "copied"},
         p = "read" => d = disk[user[r]],
         \A q \in Reqs, k \in Used, u \in Users : cache'[Home[q]][k][u] \in {Miss, disk[u]}
  PROVE  Keeps
  <1>1. UNCHANGED <<disk, user, ans>> /\ pc' = [pc EXCEPT ![r] = p] /\ data' = [data EXCEPT ![r] = d]
    BY DEF Go
  <1>2. pc'[r] = p /\ data'[r] = d /\ \A q \in Reqs \ {r} : pc'[q] = pc[q]
    BY <1>1 DEF IInv, TypeOK
  <1>3. InHand' /\ Truthful'
    BY <1>1, <1>2, CalmStep DEF Between
  <1>4. UNCHANGED <<Files, Told>>
    BY <1>1, QuietStep
  <1> QED
    BY <1>3, <1>4 DEF Keeps

(* A writer changes the file; the caches follow in its last step. *)
LEMMA WriteSeq ==
  ASSUME IInv, InScenario, OneAtATime, SeqInv, scenario' = scenario, NEW r \in Reqs,
         pc[r] # "idle", NEW p \in {"renamed", "unlinked", "copying", "copied"},
         NEW v \in Value, NEW d, NEW i,
         SetDisk(user[r], v, i), Go(r, p, d), UNCHANGED cache,
         p \in {"renamed", "copied"} => v = d,
         p = "unlinked" => v = None,
         p \in {"copying", "copied"} => tag[r] = d,
         p = "copying" => i = {r}
  PROVE  Keeps
  <1>1. /\ UNCHANGED <<user, ans, tag>>
        /\ pc' = [pc EXCEPT ![r] = p] /\ data' = [data EXCEPT ![r] = d]
        /\ disk' = [disk EXCEPT ![user[r]] = v] /\ into' = [into EXCEPT ![user[r]] = i]
    BY DEF Go, SetDisk
  <1>2. \A q \in Reqs \ {r} : pc[q] = "idle"
    BY Alone
  <1>3. /\ pc'[r] = p /\ data'[r] = d /\ \A q \in Reqs \ {r} : pc'[q] = "idle"
        /\ user[r] \in Users /\ disk'[user[r]] = v /\ into'[user[r]] = i
        /\ \A u \in Users : u # user[r] => disk'[u] = disk[u]
    BY <1>1, <1>2 DEF IInv, TypeOK
  <1>4. InHand'
    BY <1>1, <1>3 DEF InHand
  <1>5. Truthful'
    <2>1. Between(r)' /\ user'[r] = user[r]
      BY <1>1, <1>3 DEF Between
    <2>2. \A q \in Reqs : Between(q) => q = r
      BY <1>2 DEF Between
    <2>3. \A q \in Reqs, k \in Used, u \in Users :
            u # user[r] => cache'[Home[q]][k][u] \in {Miss, disk'[u]}
      BY <1>3, <2>2 DEF SeqInv, Truthful
    <2>4. Used' = Used
      BY DEF Used
    <2> QED
      BY <2>1, <2>3, <2>4 DEF Truthful
  <1>6. Sequentially!Next
    BY <1>1, <1>3, ChangeStep
  <1> QED
    BY <1>4, <1>5, <1>6 DEF Keeps

LEMMA WritersSeq ==
  ASSUME OneProcess, IInv, InScenario, OneAtATime, SeqInv, scenario' = scenario, NEW r \in Reqs,
         \/ Rename(r) \/ UploadFails(r) \/ Uploaded(r)
         \/ Unlink(r) \/ NothingToDelete(r) \/ Deleted(r) \/ Restored(r)
  PROVE  Keeps
  <1>0. user[r] \in Users /\ data[r] \in Value /\ None \in Value
    BY Knows DEF Value
  <1>1. CASE Rename(r)
    <2>1. pc[r] = "start" /\ ~Between(r)
      BY <1>1 DEF Rename, Between
    <2> QED
      BY <1>0, <1>1, <2>1, WriteSeq DEF Rename
  <1>2. CASE UploadFails(r)
    <2>1. pc[r] = "start" /\ ~Between(r)
      BY <1>2 DEF UploadFails, Between
    <2> QED
      BY <1>2, <2>1, Trust, AnswerSeq DEF UploadFails
  <1>3. CASE Unlink(r)
    <2>1. pc[r] = "start" /\ ~Between(r)
      BY <1>3 DEF Unlink, Between
    <2> QED
      BY <1>0, <1>3, <2>1, WriteSeq DEF Unlink
  <1>4. CASE NothingToDelete(r)
    <2>1. pc[r] = "start" /\ ~Between(r) /\ disk[user[r]] = None
      BY <1>4 DEF NothingToDelete, Between
    <2> QED
      BY <1>4, <2>1, Trust, AnswerSeq DEF NothingToDelete
  <1>5. ASSUME NEW fill, NEW drop, NEW h \in {Miss, disk[user[r]]}, Used \subseteq fill \cup drop,
               Between(r), Put(r, fill, h, drop), Answer(r, Failed)
        PROVE  Keeps
    <2>1. \A q \in Reqs : q # r => ~Between(q)
      BY <1>5, Alone DEF Between
    <2>2. TruthBut(r, fill \cup drop)
      BY <1>5, <2>1 DEF SeqInv, Truthful, TruthBut
    <2>3. \A q \in Reqs, k \in Used, u \in Users : cache'[Home[q]][k][u] \in {Miss, disk[u]}
      BY <1>5, <2>2, PutTruth
    <2>4. pc[r] # "idle"
      BY <1>5 DEF Between
    <2> QED
      BY <1>5, <2>3, <2>4, AnswerSeq
  <1>7. Used \subseteq {"hash"} \cup JsonKeys(r)
    BY SeqOps DEF JsonKeys, Used
  <1>8. CASE Uploaded(r)
    <2>1. Put(r, {"hash"}, data[r], JsonKeys(r)) /\ Answer(r, Failed) /\ Between(r)
      BY <1>8 DEF Uploaded, Between
    <2>2. data[r] = disk[user[r]]
      BY <1>8 DEF Uploaded, SeqInv, InHand
    <2> QED
      BY <1>5, <1>7, <2>1, <2>2
  <1>9. CASE Deleted(r)
    <2>1. Put(r, {}, Miss, {"hash"} \cup JsonKeys(r)) /\ Answer(r, Failed) /\ Between(r)
      BY <1>9 DEF Deleted, Between
    <2>2. Used \subseteq {} \cup ({"hash"} \cup JsonKeys(r))
      BY <1>7
    <2> QED
      BY <1>5, <2>1, <2>2
  <1>10. CASE Restored(r)
    <2>1. Put(r, {"hash"}, tag[r], {"json"}) /\ Answer(r, Failed) /\ Between(r)
      BY <1>10 DEF Restored, Between
    <2>2. tag[r] = disk[user[r]]
      BY <1>10 DEF Restored, SeqInv, InHand
    <2>3. Used \subseteq {"hash"} \cup {"json"}
      BY <1>10, SeqOps DEF Restored, Used
    <2> QED
      BY <1>5, <2>1, <2>2, <2>3
  <1> QED
    BY <1>1, <1>2, <1>3, <1>4, <1>8, <1>9, <1>10

(* Restoring a version: nobody else copies or records anything. *)
LEMMA RestoringSeq ==
  ASSUME OneProcess, IInv, InScenario, InScenario', OneAtATime, SeqInv, scenario' = scenario,
         NEW r \in Reqs,
         \/ \E v \in versions[user[r]] : FindVersion(r, v)
         \/ RestoreFails(r) \/ CopyBegin(r) \/ CopyEnd(r) \/ CopyFails(r)
  PROVE  Keeps
  <1>0. user[r] \in Users /\ data[r] \in Value /\ Torn \in Value
    BY Knows DEF Value, File
  <1>1. ASSUME NEW v \in versions[user[r]], FindVersion(r, v) PROVE Keeps
    <2>1. /\ UNCHANGED <<disk, user, ans, cache>> /\ pc[r] = "start"
          /\ pc' = [pc EXCEPT ![r] = "found"]
          /\ data' = [data EXCEPT ![r] = v.file] /\ tag' = [tag EXCEPT ![r] = v.hash]
      BY <1>1 DEF FindVersion
    <2>2. /\ pc'[r] = "found" /\ data'[r] = v.file /\ tag'[r] = v.hash
          /\ \A q \in Reqs \ {r} : pc'[q] = pc[q]
      BY <2>1 DEF IInv, TypeOK
    <2>3. v.hash = v.file
      BY <1>0 DEF SeqInv, Recorded
    <2>4. \A q \in Reqs, k \in Used, u \in Users : cache[Home[q]][k][u] \in {Miss, disk[u]}
      BY <2>1, Trust DEF Between
    <2>5. InHand' /\ Truthful'
      BY <2>1, <2>2, <2>3, <2>4, CalmStep DEF Between
    <2> QED
      BY <2>1, <2>5, QuietStep DEF Keeps
  <1>2. CASE RestoreFails(r)
    <2>1. pc[r] # "idle" /\ ~Between(r)
      BY <1>2 DEF RestoreFails, Between
    <2> QED
      BY <1>2, <2>1, Trust, AnswerSeq DEF RestoreFails
  <1>3. CASE CopyBegin(r)
    <2>1. Copiers(user[r]) = {}
      <3>1. pc[r] = "found" /\ into[user[r]] \subseteq Reqs
        BY <1>0, <1>3 DEF CopyBegin, IInv, TypeOK
      <3>2. \A q \in Reqs : pc[q] # "copying"
        BY <3>1, Alone
      <3> QED
        BY <3>1, <3>2 DEF Copiers
    <2>2. SetDisk(user[r], Torn, {r}) /\ Go(r, "copying", data[r]) /\ UNCHANGED cache /\ pc[r] = "found"
      BY <1>3, <2>1 DEF CopyBegin, Truncate
    <2>3. tag[r] = data[r]
      BY <2>2 DEF SeqInv, InHand
    <2> QED
      BY <1>0, <2>2, <2>3, WriteSeq
  <1>4. CASE CopyEnd(r)
    <2>1. into[user[r]] = {r} /\ tag[r] = data[r] /\ pc[r] = "copying"
      BY <1>4 DEF CopyEnd, SeqInv, InHand
    <2>2. Copiers(user[r]) \ {r} = {}
      BY <2>1 DEF Copiers
    <2>3. op[r] # "backup"
      BY SeqOps
    <2>4. SetDisk(user[r], data[r], {}) /\ Go(r, "copied", data[r]) /\ UNCHANGED cache
      BY <1>4, <2>1, <2>2, <2>3 DEF CopyEnd
    <2> QED
      BY <1>0, <2>1, <2>4, WriteSeq
  <1>5. CASE CopyFails(r)
    <2>1. pc'[r] = "failed"
      BY <1>5 DEF CopyFails, Go, IInv, TypeOK
    <2> QED
      BY <2>1 DEF InScenario, OneAtATime
  <1> QED
    BY <1>1, <1>2, <1>3, <1>4, <1>5

LEMMA ReadersSeq ==
  ASSUME OneProcess, IInv, InScenario, OneAtATime, SeqInv, scenario' = scenario, NEW r \in Reqs,
         \/ Lookup(r) \/ Read(r) \/ ProfileRead(r)
         \/ Access(r) \/ Etag(r) \/ EtagRead(r) \/ Send(r)
  PROVE  Keeps
  <1>1. pc[r] # "idle" /\ ~Between(r) /\ UNCHANGED disk
    BY DEF Lookup, Read, ProfileRead, Access, Etag, EtagRead, Send, Compare, Answer, Go, Between
  <1>2. \A q \in Reqs, k \in Used, u \in Users : cache[Home[q]][k][u] \in {Miss, disk[u]}
    BY <1>1, Trust
  <1>3. user[r] \in Users
    BY Knows
  <1>4. Hash(r) \in {Miss, disk[user[r]]} /\ Key(r) \in Used
    BY <1>2, <1>3, SeqOps DEF Hash, Key, Used
  <1>5. cache[Home[r]][Key(r)][user[r]] \in {Miss, disk[user[r]]}
    BY <1>2, <1>3, <1>4
  <1>6. ASSUME NEW fill, NEW h \in {Miss, disk[user[r]]}, Put(r, fill, h, {})
        PROVE  \A q \in Reqs, k \in Used, u \in Users : cache'[Home[q]][k][u] \in {Miss, disk[u]}
    <2>1. TruthBut(r, fill \cup {})
      BY <1>2 DEF TruthBut
    <2> QED
      BY <1>6, <2>1, PutTruth
  <1>7. CASE Lookup(r)
    <2>1. CASE Answer(r, cache[Home[r]][Key(r)][user[r]]) /\ UNCHANGED cache
               /\ cache[Home[r]][Key(r)][user[r]] # Miss
      BY <1>1, <1>2, <1>5, <2>1, AnswerSeq
    <2>2. CASE Hash(r) # Miss /\ Put(r, {Key(r)}, Hash(r), {}) /\ Answer(r, Hash(r))
      BY <1>1, <1>4, <1>6, <2>2, AnswerSeq
    <2>3. CASE Go(r, "reading", None) /\ UNCHANGED cache
      BY <1>1, <1>2, <2>3, GoSeq
    <2> QED
      BY <1>7, <2>1, <2>2, <2>3 DEF Lookup
  <1>8. CASE Read(r)
    BY <1>1, <1>2, <1>8, GoSeq DEF Read
  <1>9. pc[r] = "read" => data[r] = disk[user[r]]
    BY DEF SeqInv, InHand
  <1>10. CASE ProfileRead(r)
    BY <1>1, <1>6, <1>9, <1>10, AnswerSeq DEF ProfileRead
  <1>11. CASE Access(r)
    <2>1. CASE disk[user[r]] = None /\ Answer(r, None)
      BY <1>1, <1>2, <1>11, <2>1, AnswerSeq DEF Access
    <2>2. CASE Go(r, IF op[r] = "file" THEN "sending" ELSE "accessed", None)
      BY <1>1, <1>2, <1>11, <2>2, GoSeq DEF Access
    <2> QED
      BY <1>11, <2>1, <2>2 DEF Access
  <1>12. ASSUME Compare(r, disk[user[r]]),
                \A q \in Reqs, k \in Used, u \in Users : cache'[Home[q]][k][u] \in {Miss, disk[u]}
         PROVE  Keeps
    BY <1>1, <1>12, AnswerSeq, GoSeq DEF Compare
  <1>13. CASE Etag(r)
    <2>1. CASE Hash(r) # Miss /\ Compare(r, Hash(r))
      BY <1>2, <1>4, <1>12, <1>13, <2>1 DEF Etag
    <2>2. CASE Go(r, "reading", None)
      BY <1>1, <1>2, <1>13, <2>2, GoSeq DEF Etag
    <2> QED
      BY <1>13, <2>1, <2>2 DEF Etag
  <1>14. CASE EtagRead(r)
    <2>1. CASE data[r] = None /\ Answer(r, None) /\ UNCHANGED cache
      BY <1>1, <1>2, <1>9, <1>14, <2>1, AnswerSeq DEF EtagRead
    <2>2. CASE Put(r, {"hash"}, data[r], {}) /\ Compare(r, data[r])
      BY <1>6, <1>9, <1>12, <1>14, <2>2 DEF EtagRead
    <2> QED
      BY <1>14, <2>1, <2>2 DEF EtagRead
  <1>15. CASE Send(r)
    BY <1>1, <1>2, <1>15, AnswerSeq DEF Send
  <1> QED
    BY <1>7, <1>8, <1>10, <1>11, <1>13, <1>14, <1>15

(* No other request belongs to the scenario. *)
LEMMA StepSeq ==
  ASSUME OneProcess, IInv, InScenario, InScenario', OneAtATime, SeqInv, scenario' = scenario,
         NEW r \in Reqs, Step(r)
  PROVE  Keeps
  <1>1. op[r] \notin {"backup", "preview"}
    BY SeqOps
  <1> QED
    BY <1>1, WritersSeq, RestoringSeq, ReadersSeq
    DEF Step, BackupEnd, BackupFails, Preview, Stat, PreviewHash, PreviewRead, Counted

(* A request arrives, and what it was told before is forgotten. *)
LEMMA ArriveSeq ==
  ASSUME IInv, InScenario, OneAtATime, SeqInv, scenario' = scenario,
         NEW r \in Reqs, NEW o \in Ops, NEW v \in Users, Arrive(r, o, v)
  PROVE  Keeps
  <1>1. /\ UNCHANGED <<disk, into, cache>> /\ pc[r] = "idle"
        /\ pc' = [pc EXCEPT ![r] = "start"] /\ user' = [user EXCEPT ![r] = v]
        /\ ans' = [ans EXCEPT ![r] = Failed]
        /\ \E d : data' = [data EXCEPT ![r] = d]
        /\ \E t : tag' = [tag EXCEPT ![r] = t]
    BY DEF Arrive
  <1>2. /\ pc'[r] = "start"
        /\ \A q \in Reqs \ {r} : /\ pc'[q] = pc[q] /\ user'[q] = user[q]
                                  /\ data'[q] = data[q] /\ tag'[q] = tag[q]
    BY <1>1 DEF IInv, TypeOK
  <1>3. InHand'
    BY <1>1, <1>2 DEF SeqInv, InHand
  <1>4. Truthful'
    <2>1. \A q \in Reqs : Between(q) => Between(q)' /\ user'[q] = user[q]
      BY <1>1, <1>2 DEF Between
    <2>2. Used' = Used
      BY DEF Used
    <2> QED
      BY <1>1, <2>1, <2>2 DEF SeqInv, Truthful
  <1>5. Files' = Files /\ Told' = [Told EXCEPT ![r] = <<>>]
    BY <1>1 DEF Files, Told, OneAtATime, IInv, TypeOK
  <1> QED
    BY <1>3, <1>4, <1>5 DEF Keeps, Sequentially!Next, Sequentially!Forget

LEMMA ExpireSeq ==
  ASSUME IInv, InScenario, OneAtATime, SeqInv, scenario' = scenario,
         NEW w \in Workers, NEW k \in Kinds, NEW v \in Users, Expire(w, k, v)
  PROVE  Keeps
  <1>1. UNCHANGED <<disk, into, pc, user, ans, data, tag>> /\ cache' = [cache EXCEPT ![w][k][v] = Miss]
    BY DEF Expire
  <1>2. \A q \in Reqs, j \in Used, u \in Users :
          cache'[Home[q]][j][u] \in {cache[Home[q]][j][u], Miss}
    BY <1>1, HomeType DEF IInv, TypeOK, Used, Kinds
  <1>3. InHand'
    BY <1>1 DEF SeqInv, InHand
  <1>4. Used' = Used
    BY DEF Used
  <1>5. Truthful'
    BY <1>1, <1>2, <1>4 DEF SeqInv, Truthful, Between
  <1> QED
    BY <1>1, <1>3, <1>5, QuietStep DEF Keeps

(* The process is killed: its caches are empty, and its requests gone.  One
   of them at most had been told anything. *)
LEMMA CrashSeq ==
  ASSUME OneProcess, IInv, InScenario, OneAtATime, SeqInv, scenario' = scenario,
         NEW w \in Workers, Crash(w)
  PROVE  Keeps
  <1>1. /\ UNCHANGED <<disk, into, user>>
        /\ cache' = [cache EXCEPT ![w] = [k \in Kinds |-> Empty]]
        /\ pc' = [r \in Reqs |-> IF Home[r] = w THEN "idle" ELSE pc[r]]
        /\ ans' = [r \in Reqs |-> IF Home[r] = w THEN Failed ELSE ans[r]]
        /\ data' = [r \in Reqs |-> IF Home[r] = w THEN None ELSE data[r]]
        /\ tag' = [r \in Reqs |-> IF Home[r] = w THEN None ELSE tag[r]]
    BY DEF Crash
  <1>2. ans \in [Reqs -> Value \cup {Failed}] /\ pc \in [Reqs -> States] /\ data \in [Reqs -> Value]
        /\ tag \in [Reqs -> Value]
        /\ cache \in [Workers -> [Kinds -> [Users -> Entry]]]
    BY DEF IInv, TypeOK
  <1>5. Used' = Used
    BY DEF Used
  <1>3. CASE \A r \in Reqs : Home[r] # w
    <2>1. pc' = pc /\ ans' = ans /\ data' = data /\ tag' = tag
      BY <1>1, <1>2, <1>3
    <2>2. \A r \in Reqs : cache'[Home[r]] = cache[Home[r]]
      BY <1>1, <1>2, <1>3, HomeType
    <2>3. InHand' /\ Truthful'
      BY <1>1, <1>5, <2>1, <2>2 DEF SeqInv, InHand, Truthful, Between
    <2> QED
      BY <1>1, <2>1, <2>3, QuietStep DEF Keeps
  <1>4. CASE \A r \in Reqs : Home[r] = w
    <2>1. \A r \in Reqs : pc'[r] = "idle" /\ ans'[r] = Failed
      BY <1>1, <1>4
    <2>2. \A r \in Reqs, k \in Used, u \in Users : cache'[Home[r]][k][u] = Miss
      BY <1>1, <1>2, <1>4 DEF Used, Kinds, Empty
    <2>3. InHand' /\ Truthful'
      BY <1>5, <2>1, <2>2 DEF InHand, Truthful
    <2>4. Files' = Files /\ Told' = [r \in Reqs |-> <<>>]
      BY <1>1, <2>1 DEF Files, Told, OneAtATime
    <2>5. CASE \A r \in Reqs : ans[r] = Failed
      <3>1. Told = [r \in Reqs |-> <<>>]
        BY <2>5 DEF Told
      <3> QED
        BY <2>3, <2>4, <3>1 DEF Keeps
    <2>6. ASSUME NEW r \in Reqs, ans[r] # Failed PROVE Keeps
      <3>1. \A q \in Reqs : q # r => ans[q] = Failed
        BY <2>6 DEF InScenario, Untouched, OneAtATime
      <3>2. Told' = [Told EXCEPT ![r] = <<>>]
        BY <2>4, <3>1 DEF Told
      <3> QED
        BY <2>3, <2>4, <3>2 DEF Keeps, Sequentially!Next, Sequentially!Forget
    <2> QED
      BY <2>5, <2>6
  <1> QED
    BY <1>3, <1>4 DEF OneProcess

LEMMA SequentialStep ==
  ASSUME OneProcess, IInv, InScenario, OneAtATime, SeqInv, ScenarioNext
  PROVE  Keeps
  <1>1. scenario' = scenario /\ Next /\ InScenario'
    BY DEF ScenarioNext
  <1>2. ASSUME NEW r \in Reqs, NEW u \in Users, NEW c \in File, BackupBegin(r, u, c) PROVE Keeps
    BY <1>2, SeqOps DEF BackupBegin
  <1>3. ASSUME UNCHANGED <<disk, into, cache, pc, user, data, tag, ans>> PROVE Keeps
    <2>1. InHand' /\ Truthful'
      BY <1>1, <1>3 DEF SeqInv, InHand, Truthful, Between, Used
    <2> QED
      BY <1>1, <1>3, <2>1, QuietStep DEF Keeps
  <1>4. ASSUME NEW w \in Workers, NEW u \in Users, NEW h \in Contents, Snapshot(w, u, h) PROVE Keeps
    BY <1>3, <1>4 DEF Snapshot
  <1>5. ASSUME NEW u \in Users, NEW v \in Version, DropVersion(u, v) PROVE Keeps
    BY <1>3, <1>5 DEF DropVersion
  <1> QED
    BY <1>1, <1>2, <1>4, <1>5, StepSeq, ArriveSeq, ExpireSeq, CrashSeq DEF Next

(* The snapshot that is due is of the file as it is, for no request has
   begun since the upload; while a request is under way none is due. *)
LEMMA RecordedStep ==
  ASSUME IInv, InScenario, OneAtATime, SeqInv, Next
  PROVE  Recorded'
  <1>1. ASSUME UNCHANGED verVars,
               (UNCHANGED disk) \/ (\A w \in Workers, u \in Users : snaps[w][u] = {})
        PROVE  Recorded'
    BY <1>1 DEF SeqInv, Recorded
  <1>2. ASSUME NEW r \in Reqs, pc[r] # "idle" PROVE \A w \in Workers, u \in Users : snaps[w][u] = {}
    BY <1>2 DEF InScenario, OneAtATime
  <1>3. ASSUME NEW r \in Reqs, Step(r) PROVE Recorded'
    <2>1. pc[r] # "idle"
      BY <1>3 DEF Step, Rename, UploadFails, Uploaded, Unlink, NothingToDelete, Deleted,
        FindVersion, RestoreFails, CopyBegin, CopyEnd, CopyFails, Restored, BackupEnd, BackupFails,
        Lookup, Read, ProfileRead, Access, Etag, EtagRead, Send, Preview, Stat, PreviewHash,
        PreviewRead, Counted
    <2>2. CASE Uploaded(r)
      <3>1. /\ UNCHANGED <<disk, versions>> /\ data[r] = disk[user[r]]
            /\ \/ snaps' = snaps
               \/ snaps' = [snaps EXCEPT ![Home[r]][user[r]] = @ \cup {data[r]}]
        BY <2>2 DEF Uploaded, Answer, SeqInv, InHand
      <3>2. \A w \in Workers, u \in Users : \A h \in snaps'[w][u] :
              h \in snaps[w][u] \/ (u = user[r] /\ h = data[r])
        <4>1. snaps \in [Workers -> [Users -> SUBSET Contents]] /\ Home[r] \in Workers /\ user[r] \in Users
          BY Knows DEF IInv, TypeOK
        <4> QED
          BY <3>1, <4>1
      <3> QED
        BY <3>1, <3>2 DEF SeqInv, Recorded
    <2>3. CASE ~Uploaded(r)
      <3>1. UNCHANGED verVars
        BY <1>3, <2>3 DEF Step, Rename, UploadFails, Unlink, NothingToDelete, Deleted,
          FindVersion, RestoreFails, CopyBegin, CopyEnd, CopyFails, Restored, BackupEnd, BackupFails,
          Lookup, Read, ProfileRead, Access, Etag, EtagRead, Send, Preview, Stat, PreviewHash,
          PreviewRead, Counted
      <3> QED
        BY <1>1, <1>2, <2>1, <3>1
    <2> QED
      BY <2>2, <2>3
  <1>4. ASSUME NEW w \in Workers, NEW u \in Users, NEW h \in Contents, Snapshot(w, u, h)
        PROVE  Recorded'
    <2> DEFINE new == [hash |-> h, file |-> disk[u]]
    <2>1. h = disk[u] /\ UNCHANGED disk /\ snaps' = [snaps EXCEPT ![w][u] = @ \ {h}]
      BY <1>4 DEF Snapshot, SeqInv, Recorded
    <2>2. \A x \in Workers, q \in Users : snaps'[x][q] \subseteq snaps[x][q]
      BY <2>1 DEF IInv, TypeOK
    <2>3. new.hash = new.file
      BY <2>1
    <2>4. \/ versions' = versions
          \/ \E t \in SUBSET (versions[u] \cup {new}) : versions' = [versions EXCEPT ![u] = t]
      BY <1>4 DEF Snapshot
    <2>5. \A q \in Users : \A v \in versions'[q] : v \in versions[q] \/ v = new
      <3> HIDE DEF new
      <3> QED
        BY <2>4 DEF IInv, TypeOK
    <2> HIDE DEF new
    <2> QED
      BY <2>1, <2>2, <2>3, <2>5 DEF SeqInv, Recorded
  <1>5. ASSUME NEW u \in Users, NEW v \in Version, DropVersion(u, v) PROVE Recorded'
    <2>1. /\ UNCHANGED <<disk, snaps>>
          /\ \A q \in Users : versions'[q] \subseteq versions[q]
      BY <1>5 DEF DropVersion, IInv, TypeOK
    <2> QED
      BY <2>1 DEF SeqInv, Recorded
  <1>6. ASSUME NEW w \in Workers, Crash(w) PROVE Recorded'
    <2>1. /\ UNCHANGED <<disk, versions>>
          /\ \A x \in Workers, q \in Users : snaps'[x][q] \subseteq snaps[x][q]
      BY <1>6 DEF Crash, IInv, TypeOK
    <2> QED
      BY <2>1 DEF SeqInv, Recorded
  <1>7. ASSUME NEW r \in Reqs, NEW o \in Ops, NEW u \in Users, Arrive(r, o, u) PROVE Recorded'
    BY <1>1, <1>7 DEF Arrive
  <1>8. ASSUME NEW r \in Reqs, NEW u \in Users, NEW c \in File, BackupBegin(r, u, c) PROVE Recorded'
    BY <1>8, SeqOps DEF BackupBegin
  <1>9. ASSUME NEW w \in Workers, NEW k \in Kinds, NEW u \in Users, Expire(w, k, u) PROVE Recorded'
    BY <1>1, <1>9 DEF Expire
  <1> QED
    BY <1>3, <1>4, <1>5, <1>6, <1>7, <1>8, <1>9 DEF Next

LEMMA ScenarioStep ==
  ASSUME OneProcess, IInv, InScenario, SeqInv, [ScenarioNext]_<<vars, scenario>>
  PROVE  InScenario' /\ SeqInv' /\ [Sequentially!Next]_<<Files, Told>>
  <1>1. CASE UNCHANGED <<vars, scenario>>
    <2>1. UNCHANGED <<disk, into, cache, versions, snaps, pc, op, user, data, tag, ans, scenario>>
      BY <1>1 DEF vars
    <2>2. InScenario' /\ (OneAtATime => InHand' /\ Truthful' /\ Recorded') /\ OneAtATime' = OneAtATime
      BY <2>1 DEF InScenario, Untouched, SeqInv, InHand, Truthful, Recorded, Between, OneAtATime, Used
    <2>3. SeqInv'
      BY <2>2 DEF SeqInv
    <2> QED
      BY <2>1, <2>2, <2>3, QuietStep
  <1>2. CASE ScenarioNext /\ OneAtATime
    BY <1>2, SequentialStep, RecordedStep DEF Keeps, ScenarioNext, SeqInv
  <1>3. CASE ScenarioNext /\ ~OneAtATime
    <2>1. scenario' = scenario /\ InScenario'
      BY <1>3 DEF ScenarioNext
    <2>2. SeqInv' /\ UNCHANGED <<Files, Told>>
      BY <1>3, <2>1 DEF SeqInv, OneAtATime, Files, Told
    <2> QED
      BY <2>1, <2>2
  <1> QED
    BY <1>1, <1>2, <1>3

(* One at a time, and served by one process, the requests of Figura clients
   read the file as if there were no cache, for any number of users, contents
   and requests, whatever expires and however often the process is killed
   between the steps of a write; and so do those of the clients of /api, who
   also restore versions, each begun when the snapshot of the last upload has
   been taken. *)
THEOREM ReadsTheFile == ASSUME OneProcess PROVE ScenarioSpec => ServesFile
  <1>1. ScenarioInit => Init /\ InScenario /\ SeqInv /\ Sequentially!Init
    <2> SUFFICES ASSUME ScenarioInit PROVE Init /\ InScenario /\ SeqInv /\ Sequentially!Init
      OBVIOUS
    <2>1. Init /\ InScenario
      BY DEF ScenarioInit
    <2>2. SeqInv
      BY <2>1, HomeType DEF Init, SeqInv, InHand, Truthful, Recorded, Used, Kinds, Empty
    <2>3. Sequentially!Init
      BY <2>1 DEF Init, Sequentially!Init, Files, Told, Value, File
    <2> QED
      BY <2>1, <2>2, <2>3
  <1>2. [ScenarioNext]_<<vars, scenario>> => [Next]_vars
    BY DEF ScenarioNext
  <1>3. IInv /\ InScenario /\ SeqInv /\ [ScenarioNext]_<<vars, scenario>>
        => InScenario' /\ SeqInv' /\ [Sequentially!Next]_<<Files, Told>>
    BY ScenarioStep
  <1>4. ScenarioSpec => []IInv
    BY <1>1, <1>2, Inductive, PTL DEF ScenarioSpec, Spec
  <1>5. ScenarioSpec => [](InScenario /\ SeqInv)
    BY <1>1, <1>3, <1>4, PTL DEF ScenarioSpec
  <1> QED
    BY <1>1, <1>3, <1>4, <1>5, PTL DEF ScenarioSpec, ServesFile, Sequentially!Spec
=============================================================================

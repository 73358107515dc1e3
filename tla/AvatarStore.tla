----------------------------- MODULE AvatarStore -----------------------------
(***************************************************************************)
(* One avatar file per user on disk, and the caches in front of it.        *)
(*                                                                         *)
(* Every HTTP request is a small process split where the code awaits: the  *)
(* file may change, and other requests may fill or clear a cache, between  *)
(* two of its steps.  The workers of a pm2 cluster share the disk; each    *)
(* has caches of its own, which a crash empties.                           *)
(*                                                                         *)
(* A hash is identified with the content it is computed from.              *)
(***************************************************************************)
EXTENDS Naturals, FiniteSets

CONSTANTS
  Users,      \* avatar owners
  Contents,   \* complete avatar files
  None,       \* no avatar file
  Torn,       \* an avatar file whose copy is not complete
  Miss,       \* no (live) cache entry
  Failed,     \* an answer that tells nothing about the file
  Workers,    \* server processes
  Reqs,       \* slots for concurrent requests
  Home,       \* Home[r]: the worker that serves slot r
  Ops,        \* operations that clients invoke
  MaxVersions \* snapshots kept per user

AllOps == {"upload", "fupload", "delete", "fdelete", "restore", "backup",
           "profile", "fprofile", "download", "file", "preview"}

ASSUME HomeType == Home \in [Reqs -> Workers]
ASSUME OpsType == Ops \subseteq AllOps
ASSUME MaxVersionsType == MaxVersions \in Nat \ {0}
ASSUME Distinct ==
  /\ Contents \cap {None, Torn, Miss, Failed} = {}
  /\ None \notin {Torn, Miss, Failed}
  /\ Torn \notin {Miss, Failed}
  /\ Miss # Failed

Uploads  == {"upload", "fupload"}
Deletes  == {"delete", "fdelete"}
Profiles == {"profile", "fprofile"}

(* hashCache, the two families of keys of apiJsonCache (uuid and
   figura:uuid), and the previewCache of avatar-preview.ts. *)
Kinds == {"hash", "json", "figura", "preview"}

File  == Contents \cup {Torn}
Value == File \cup {None}
Entry == Value \cup {Miss}
Empty == [u \in Users |-> Miss]
Version == [hash : Contents, file : File]

VARIABLES
  disk,       \* disk[u]: what <uuid>.moon holds
  into,       \* into[u]: requests whose in-place copies into it overlap
  cache,      \* cache[w][k][u]: the entry of user u in cache k of worker w
  versions,   \* versions[u]: snapshots that can be restored
  snaps,      \* snaps[w][u]: hashes of uploads whose snapshot is still to be taken
  pc, op, user, \* where request r is, what it does, for whom
  data,       \* data[r]: the content it has in hand
  tag,        \* tag[r]: If-None-Match, or the recorded hash of the version
  ans,        \* ans[r]: the file's state as the last answer tells it
  ever,       \* history: everything <uuid>.moon has held
  window      \* history: everything it has held since request r arrived

diskVars == <<disk, into, ever>>
verVars  == <<versions, snaps>>
vars == <<disk, into, cache, versions, snaps, pc, op, user, data, tag, ans,
          ever, window>>

States == {"idle", "start", "renamed", "unlinked", "found", "copying",
           "copied", "failed", "accessed", "missed", "statted", "reading",
           "read", "sending", "counting"}

TypeOK ==
  /\ disk \in [Users -> Value]
  /\ into \in [Users -> SUBSET Reqs]
  /\ cache \in [Workers -> [Kinds -> [Users -> Entry]]]
  /\ versions \in [Users -> SUBSET Version]
  /\ snaps \in [Workers -> [Users -> SUBSET Contents]]
  /\ pc \in [Reqs -> States]
  /\ op \in [Reqs -> AllOps \cup {"none"}]
  /\ user \in [Reqs -> Users]
  /\ data \in [Reqs -> Value]
  /\ tag \in [Reqs -> Value]
  /\ ans \in [Reqs -> Value \cup {Failed}]
  /\ ever \in [Users -> SUBSET Value]
  /\ window \in [Reqs -> SUBSET Value]

Init ==
  /\ disk \in [Users -> Contents \cup {None}]
  /\ into = [u \in Users |-> {}]
  /\ cache = [w \in Workers |-> [k \in Kinds |-> Empty]]
  /\ versions = [u \in Users |-> {}]
  /\ snaps = [w \in Workers |-> [u \in Users |-> {}]]
  /\ pc = [r \in Reqs |-> "idle"]
  /\ op = [r \in Reqs |-> "none"]
  /\ user \in [Reqs -> Users]
  /\ data = [r \in Reqs |-> None]
  /\ tag = [r \in Reqs |-> None]
  /\ ans = [r \in Reqs |-> Failed]
  /\ ever = [u \in Users |-> {disk[u]}]
  /\ window = [r \in Reqs |-> {}]

-----------------------------------------------------------------------------
(* Parts of steps.                                                         *)

At(r, ops, p) == op[r] \in ops /\ pc[r] = p

Hash(r) == cache[Home[r]]["hash"][user[r]]

(* The file of u becomes v; the overlapping copies into it become i. *)
SetDisk(u, v, i) ==
  /\ disk' = [disk EXCEPT ![u] = v]
  /\ into' = [into EXCEPT ![u] = i]
  /\ ever' = [ever EXCEPT ![u] = @ \cup {v}]
  /\ window' = [r \in Reqs |-> IF pc[r] # "idle" /\ user[r] = u
                               THEN window[r] \cup {v} ELSE window[r]]

(* The copies under way into the file that u's name refers to. *)
Copiers(u) == {q \in into[u] : pc[q] = "copying" /\ user[q] = u}

(* A copy into the file of u starts. *)
Truncate(r, u) ==
  SetDisk(u, Torn, {r} \cup (IF Copiers(u) = {} THEN {} ELSE into[u]))

(* Request r goes on to p with content d in hand. *)
Go(r, p, d) ==
  /\ pc' = [pc EXCEPT ![r] = p]
  /\ data' = [data EXCEPT ![r] = d]
  /\ UNCHANGED <<op, user, tag, ans>>

(* Request r is answered with a, and forgotten. *)
Answer(r, a) ==
  /\ ans' = [ans EXCEPT ![r] = a]
  /\ pc' = [pc EXCEPT ![r] = "idle"]
  /\ op' = [op EXCEPT ![r] = "none"]
  /\ data' = [data EXCEPT ![r] = None]
  /\ tag' = [tag EXCEPT ![r] = None]
  /\ window' = [window EXCEPT ![r] = {}]
  /\ UNCHANGED <<user, diskVars>>

(* In the worker of r, the entries of r's user in the caches fill become h,
   those in the caches drop are deleted. *)
Put(r, fill, h, drop) ==
  cache' = [cache EXCEPT ![Home[r]] =
              [k \in Kinds |-> [u \in Users |->
                 IF u # user[r] \/ k \notin fill \cup drop THEN cache[Home[r]][k][u]
                 ELSE IF k \in fill THEN h ELSE Miss]]]

-----------------------------------------------------------------------------
(* A request reaches its handler.  The If-None-Match of a download names a
   version the client may have been given.                                 *)

Arrive(r, o, u) ==
  /\ pc[r] = "idle"
  /\ o \in Ops
  /\ pc' = [pc EXCEPT ![r] = "start"]
  /\ op' = [op EXCEPT ![r] = o]
  /\ user' = [user EXCEPT ![r] = u]
  /\ \E d \in IF o \in Uploads THEN Contents ELSE {None} :
       data' = [data EXCEPT ![r] = d]
  /\ \E t \in IF o = "download" THEN ever[u] ELSE {None} :
       tag' = [tag EXCEPT ![r] = t]
  /\ ans' = [ans EXCEPT ![r] = Failed]
  /\ window' = [window EXCEPT ![r] = {disk[u]}]
  /\ UNCHANGED <<diskVars, cache, verVars>>

-----------------------------------------------------------------------------
(* Upload: the body is streamed to a temporary file of its own and renamed
   over the avatar, or the pipeline fails and nothing changes.             *)

Rename(r) ==
  /\ At(r, Uploads, "start")
  /\ SetDisk(user[r], data[r], {})
  /\ Go(r, "renamed", data[r])
  /\ UNCHANGED <<cache, verVars>>

\* Mutant: the hash is cached although the upload failed.
UploadFailsCached(r) ==
  /\ At(r, Uploads, "start")
  /\ Put(r, {"hash"}, data[r], {})
  /\ Answer(r, Failed)
  /\ UNCHANGED verVars

UploadFails(r) ==
  /\ At(r, Uploads, "start")
  /\ Answer(r, Failed)
  /\ UNCHANGED <<cache, verVars>>

(* The profiles a writer drops: PUT and DELETE /api/avatar leave the figura:
   entry alone. *)
JsonKeys(r) == IF op[r] \in {"upload", "delete"} THEN {"json"} ELSE {"json", "figura"}

\* Mutant: the profiles outlive the upload.
UploadedHashOnly(r) ==
  /\ At(r, Uploads, "renamed")
  /\ Put(r, {"hash"}, data[r], {})
  /\ snaps' = IF op[r] = "upload"
                THEN [snaps EXCEPT ![Home[r]][user[r]] = @ \cup {data[r]}]
                ELSE snaps
  /\ Answer(r, Failed)
  /\ UNCHANGED versions

(* PUT /api/avatar, not PUT /figura/v1/avatar, also takes a snapshot. *)
Uploaded(r) ==
  /\ At(r, Uploads, "renamed")
  /\ Put(r, {"hash"}, data[r], JsonKeys(r))
  /\ snaps' = IF op[r] = "upload"
                THEN [snaps EXCEPT ![Home[r]][user[r]] = @ \cup {data[r]}]
                ELSE snaps
  /\ Answer(r, Failed)
  /\ UNCHANGED versions

-----------------------------------------------------------------------------
(* Delete.                                                                 *)

Unlink(r) ==
  /\ At(r, Deletes, "start")
  /\ disk[user[r]] # None
  /\ SetDisk(user[r], None, {})
  /\ Go(r, "unlinked", None)
  /\ UNCHANGED <<cache, verVars>>

NothingToDelete(r) ==
  /\ At(r, Deletes, "start")
  /\ disk[user[r]] = None
  /\ Answer(r, None)
  /\ UNCHANGED <<cache, verVars>>

Deleted(r) ==
  /\ At(r, Deletes, "unlinked")
  /\ Put(r, {}, Miss, {"hash"} \cup JsonKeys(r))
  /\ Answer(r, Failed)
  /\ UNCHANGED verVars

-----------------------------------------------------------------------------
(* Versions: the snapshot that an upload leaves in the background copies
   whatever the file holds by then, and prunes the oldest version beyond
   MaxVersions (their age is abstracted: any other one); a version can also
   be deleted on request; restoring one copies it over the avatar in place. *)

Snapshot(w, u, h) ==
  LET new == [hash |-> h, file |-> disk[u]]
      all == versions[u] \cup {new}
  IN
  /\ h \in snaps[w][u]
  /\ snaps' = [snaps EXCEPT ![w][u] = @ \ {h}]
  /\ \/ /\ disk[u] = None
        /\ UNCHANGED versions
     \/ /\ disk[u] # None /\ Cardinality(all) <= MaxVersions
        /\ versions' = [versions EXCEPT ![u] = all]
     \/ /\ disk[u] # None /\ Cardinality(all) > MaxVersions
        /\ \E old \in all \ {new} : versions' = [versions EXCEPT ![u] = all \ {old}]
  /\ UNCHANGED <<diskVars, cache, pc, op, user, data, tag, ans, window>>

DropVersion(u, v) ==
  /\ v \in versions[u]
  /\ versions' = [versions EXCEPT ![u] = @ \ {v}]
  /\ UNCHANGED <<diskVars, cache, snaps, pc, op, user, data, tag, ans, window>>

FindVersion(r, v) ==
  /\ At(r, {"restore"}, "start")
  /\ v \in versions[user[r]]
  /\ pc' = [pc EXCEPT ![r] = "found"]
  /\ data' = [data EXCEPT ![r] = v.file]
  /\ tag' = [tag EXCEPT ![r] = v.hash]
  /\ UNCHANGED <<diskVars, cache, verVars, op, user, ans, window>>

(* The version is not in the index, its file is gone, or the copy failed: no
   cache learns of it. *)
RestoreFails(r) ==
  /\ op[r] = "restore" /\ pc[r] \in {"start", "found", "failed"}
  /\ Answer(r, Failed)
  /\ UNCHANGED <<cache, verVars>>

(* The copy truncates the file first. *)
CopyBegin(r) ==
  /\ At(r, {"restore"}, "found")
  /\ Truncate(r, user[r])
  /\ Go(r, "copying", data[r])
  /\ UNCHANGED <<cache, verVars>>

(* A copy that was alone leaves its content; the last of several that
   overlapped leaves its content or a mixture; one whose file has been
   replaced or removed leaves nothing. *)
CopyEnd(r) ==
  LET u == user[r]
      others == Copiers(u) \ {r}
  IN
  /\ At(r, {"restore", "backup"}, "copying")
  /\ IF r \in into[u] /\ others = {}
       THEN \E v \in IF into[u] = {r} THEN {data[r]} ELSE {data[r], Torn} :
              SetDisk(u, v, {})
       ELSE UNCHANGED <<diskVars, window>>
  /\ Go(r, IF op[r] = "backup" THEN "start" ELSE "copied", data[r])
  /\ UNCHANGED <<cache, verVars>>

(* A copyFile that fails on the way removes the file by its name, whoever has
   made it since. *)
CopyFails(r) ==
  /\ At(r, {"restore"}, "copying")
  /\ SetDisk(user[r], None, {})
  /\ Go(r, "failed", None)
  /\ UNCHANGED <<cache, verVars>>

(* The recorded hash goes into hashCache; the figura: entry stays. *)
Restored(r) ==
  /\ At(r, {"restore"}, "copied")
  /\ Put(r, {"hash"}, tag[r], {"json"})
  /\ Answer(r, Failed)
  /\ UNCHANGED verVars

-----------------------------------------------------------------------------
(* Restoring a backup.  An archive holds, for some users, a content their
   file had when it was taken.  Each file is written in place, in one
   synchronous call: it blocks the worker's own event loop, which the model
   does not, but neither the file reads under way in its thread pool nor the
   other workers.  One that throws ends the process (Crash).  The preview
   entries stay.                                                           *)

BackupBegin(r, u, c) ==
  /\ At(r, {"backup"}, "start")
  /\ c \in ever[u] \ {None}
  /\ Truncate(r, u)
  /\ pc' = [pc EXCEPT ![r] = "copying"]
  /\ user' = [user EXCEPT ![r] = u]
  /\ data' = [data EXCEPT ![r] = c]
  /\ UNCHANGED <<cache, verVars, op, tag, ans>>

BackupEnd(r) ==
  /\ At(r, {"backup"}, "start")
  /\ cache' = [cache EXCEPT ![Home[r]] =
                 [k \in Kinds |-> IF k = "preview" THEN cache[Home[r]][k] ELSE Empty]]
  /\ Answer(r, Failed)
  /\ UNCHANGED verVars

BackupFails(r) ==
  /\ At(r, {"backup"}, "start")
  /\ Answer(r, Failed)
  /\ UNCHANGED <<cache, verVars>>

-----------------------------------------------------------------------------
(* Profile: GET /api/:uuid and GET /figura/v1/user/:uuid.                  *)

Key(r) == IF op[r] = "fprofile" THEN "figura" ELSE "json"

Lookup(r) ==
  LET json == cache[Home[r]][Key(r)][user[r]] IN
  /\ At(r, Profiles, "start")
  /\ \/ /\ json # Miss
        /\ Answer(r, json)
        /\ UNCHANGED cache
     \/ /\ json = Miss /\ Hash(r) # Miss
        /\ Put(r, {Key(r)}, Hash(r), {})
        /\ Answer(r, Hash(r))
     \/ /\ json = Miss /\ Hash(r) = Miss
        /\ Go(r, "reading", None)
        /\ UNCHANGED <<cache, diskVars, window>>
  /\ UNCHANGED verVars

(* Where a reader puts what it read: nowhere if there was no file. *)
HashKey(r) == IF data[r] = None THEN {} ELSE {"hash"}

(* readFile; ENOENT when there is no file. *)
Read(r) ==
  /\ pc[r] = "reading"
  /\ Go(r, "read", disk[user[r]])
  /\ UNCHANGED <<diskVars, window, cache, verVars>>

(* The profile is cached even when there is no avatar. *)
ProfileRead(r) ==
  /\ At(r, Profiles, "read")
  /\ Put(r, {Key(r)} \cup HashKey(r), data[r], {})
  /\ Answer(r, data[r])
  /\ UNCHANGED verVars

-----------------------------------------------------------------------------
(* Download: GET /figura/v1/avatar/:uuid, with an ETag, and the plain
   GET /api/:uuid/avatar.                                                  *)

Access(r) ==
  /\ At(r, {"download", "file"}, "start")
  /\ \/ /\ disk[user[r]] = None
        /\ Answer(r, None)
     \/ /\ disk[user[r]] # None
        /\ Go(r, IF op[r] = "file" THEN "sending" ELSE "accessed", None)
        /\ UNCHANGED <<diskVars, window>>
  /\ UNCHANGED <<cache, verVars>>

(* 304 tells the client that the version it names is the file's content;
   otherwise the file is sent. *)
Compare(r, h) ==
  \/ /\ tag[r] = h
     /\ Answer(r, h)
  \/ /\ tag[r] # h
     /\ Go(r, "sending", h)
     /\ UNCHANGED <<diskVars, window>>

Etag(r) ==
  /\ At(r, {"download"}, "accessed")
  /\ \/ /\ Hash(r) # Miss
        /\ Compare(r, Hash(r))
     \/ /\ Hash(r) = Miss
        /\ Go(r, "reading", None)
        /\ UNCHANGED <<diskVars, window>>
  /\ UNCHANGED <<cache, verVars>>

EtagRead(r) ==
  /\ At(r, {"download"}, "read")
  /\ \/ /\ data[r] = None
        /\ Answer(r, None)
        /\ UNCHANGED cache
     \/ /\ data[r] # None
        /\ Put(r, {"hash"}, data[r], {})
        /\ Compare(r, data[r])
  /\ UNCHANGED verVars

Send(r) ==
  /\ pc[r] = "sending"
  /\ Answer(r, disk[user[r]])
  /\ UNCHANGED <<cache, verVars>>

-----------------------------------------------------------------------------
(* Preview card: GET /api/:uuid/preview and /card.                         *)

Preview(r) ==
  LET card == cache[Home[r]]["preview"][user[r]] IN
  /\ At(r, {"preview"}, "start")
  /\ \/ /\ card # Miss
        /\ Answer(r, card)
     \/ /\ card = Miss
        /\ Go(r, "missed", None)
        /\ UNCHANGED <<diskVars, window>>
  /\ UNCHANGED <<cache, verVars>>

Stat(r) ==
  /\ At(r, {"preview"}, "missed")
  /\ Go(r, IF disk[user[r]] = None THEN "counting" ELSE "statted", None)
  /\ UNCHANGED <<diskVars, window, cache, verVars>>

\* Mutant: the hash is taken from the cache without looking whether it is there.
PreviewHashUnchecked(r) ==
  /\ At(r, {"preview"}, "statted")
  /\ Go(r, "counting", Hash(r))
  /\ UNCHANGED <<diskVars, window, cache, verVars>>

PreviewHash(r) ==
  /\ At(r, {"preview"}, "statted")
  /\ IF Hash(r) # Miss THEN Go(r, "counting", Hash(r)) ELSE Go(r, "reading", None)
  /\ UNCHANGED <<diskVars, window, cache, verVars>>

PreviewRead(r) ==
  /\ At(r, {"preview"}, "read")
  /\ Put(r, HashKey(r), data[r], {})
  /\ Go(r, "counting", data[r])
  /\ UNCHANGED <<diskVars, window, verVars>>

(* The index of versions has been read. *)
Counted(r) ==
  /\ At(r, {"preview"}, "counting")
  /\ Put(r, {"preview"}, data[r], {})
  /\ Answer(r, data[r])
  /\ UNCHANGED verVars

-----------------------------------------------------------------------------
(* An entry reaches its TTL or is evicted; a worker is killed and pm2
   starts it again.                                                        *)

\* Mutant: figura: profiles are stored without a TTL.
ExpireNotFigura(w, k, u) ==
  /\ k # "figura" /\ cache[w][k][u] # Miss
  /\ cache' = [cache EXCEPT ![w][k][u] = Miss]
  /\ UNCHANGED <<diskVars, verVars, pc, op, user, data, tag, ans, window>>

Expire(w, k, u) ==
  /\ cache[w][k][u] # Miss
  /\ cache' = [cache EXCEPT ![w][k][u] = Miss]
  /\ UNCHANGED <<diskVars, verVars, pc, op, user, data, tag, ans, window>>

Crash(w) ==
  LET mine == {r \in Reqs : Home[r] = w} IN
  /\ cache' = [cache EXCEPT ![w] = [k \in Kinds |-> Empty]]
  /\ snaps' = [snaps EXCEPT ![w] = [u \in Users |-> {}]]
  /\ pc' = [r \in Reqs |-> IF r \in mine THEN "idle" ELSE pc[r]]
  /\ op' = [r \in Reqs |-> IF r \in mine THEN "none" ELSE op[r]]
  /\ data' = [r \in Reqs |-> IF r \in mine THEN None ELSE data[r]]
  /\ tag' = [r \in Reqs |-> IF r \in mine THEN None ELSE tag[r]]
  /\ ans' = [r \in Reqs |-> IF r \in mine THEN Failed ELSE ans[r]]
  /\ window' = [r \in Reqs |-> IF r \in mine THEN {} ELSE window[r]]
  /\ UNCHANGED <<diskVars, versions, user>>

-----------------------------------------------------------------------------
(* What a request does by itself once it has arrived. *)
Step(r) ==
  \/ Rename(r) \/ UploadFails(r) \/ Uploaded(r)
  \/ Unlink(r) \/ NothingToDelete(r) \/ Deleted(r)
  \/ (\E v \in versions[user[r]] : FindVersion(r, v))
  \/ RestoreFails(r) \/ CopyBegin(r) \/ CopyEnd(r) \/ CopyFails(r)
  \/ Restored(r)
  \/ BackupEnd(r) \/ BackupFails(r)
  \/ Lookup(r) \/ Read(r) \/ ProfileRead(r)
  \/ Access(r) \/ Etag(r) \/ EtagRead(r) \/ Send(r)
  \/ Preview(r) \/ Stat(r) \/ PreviewHash(r) \/ PreviewRead(r) \/ Counted(r)

Next ==
  \/ \E r \in Reqs, o \in Ops, u \in Users : Arrive(r, o, u)
  \/ \E r \in Reqs : Step(r)
  \/ \E r \in Reqs, u \in Users, c \in File : BackupBegin(r, u, c)
  \/ \E w \in Workers, u \in Users, h \in Contents : Snapshot(w, u, h)
  \/ \E u \in Users, v \in Version : DropVersion(u, v)
  \/ \E w \in Workers, k \in Kinds, u \in Users : Expire(w, k, u)
  \/ \E w \in Workers : Crash(w)

Spec == Init /\ [][Next]_vars

(* The event loop takes every step that is due, and the TTL of an entry that
   nobody sets anew runs out.  Nothing is assumed of clients or crashes. *)
Fairness ==
  /\ \A r \in Reqs : WF_vars(Step(r))
  /\ \A w \in Workers, k \in Kinds, u \in Users : WF_vars(Expire(w, k, u))

FairSpec == Spec /\ Fairness

-----------------------------------------------------------------------------
(* Whatever the interleaving of uploads, deletes, restores, readers, expiry
   and crashes, no cache entry and no answer about a user's avatar names a
   content that user's file never held: neither another user's, nor one of
   an upload that failed. *)
EverOnDisk ==
  /\ \A w \in Workers, k \in Kinds, u \in Users :
       cache[w][k][u] \in ever[u] \cup {Miss}
  /\ \A r \in Reqs : ans[r] \in ever[user[r]] \cup {Failed}

Writing(r) == op[r] \in Uploads \cup Deletes \cup {"restore", "backup"}

Coherent ==
  \A w \in Workers, k \in Kinds, u \in Users : cache[w][k][u] \in {Miss, disk[u]}

(* A stale entry does not live on through the caches that are filled from
   it: once nobody writes any more, every cache of every worker comes to
   agree with the disk for good, although no worker is told of the writes of
   another and late readers put back what they read before a write. *)
Converges == <>[](\A r \in Reqs : ~Writing(r)) => <>[]Coherent

-----------------------------------------------------------------------------
(* Nobody is writing the avatar of u. *)
Settled(u) == \A r \in Reqs : Writing(r) => user[r] # u /\ op[r] # "backup"

(* "Download avatar binary file with ETag support (304 if unchanged)": once
   every write of an avatar has been answered, a client is told 304 only if
   the version it names was the file's content at some time during its
   request. *)
NotModifiedIsCurrent ==
  [][\A r \in Reqs :
       (op[r] = "download" /\ pc[r] \in {"accessed", "read"} /\ pc'[r] = "idle"
          /\ tag[r] # None /\ ans'[r] = tag[r] /\ Settled(user[r]))
       => tag[r] \in window[r]]_vars
=============================================================================

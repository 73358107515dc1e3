--------------------------- MODULE UploadPipeline ---------------------------
(***************************************************************************)
(* The uploads of one player: upload-pipeline.ts from the request to the   *)
(* rename, the request timeout of server.ts, and temp-file-cleaner.ts,     *)
(* over a file system in which a name may be unlinked, renamed or opened   *)
(* again while a file is still being written.                              *)
(*                                                                         *)
(* A request sends Len[r] chunks of one unit.  A file maps each position   *)
(* to the request that wrote there.  Time passes in ticks, longer than any *)
(* operation of the disk.                                                  *)
(***************************************************************************)
EXTENDS Integers, FiniteSets

CONSTANTS
  Reqs,            \* upload requests that clients may send; each is sent once
  MaxUploads,      \* bound: so many of them are sent
  Names,           \* names in tempDir
  Temp,            \* Temp[r]: tempPath of r, its player and millisecond
  Len,             \* Len[r]: length of r's body
  Bad,             \* requests whose content has a type that is not allowed
  MaxSize,         \* maxFileSizeBytes
  RequestTimeout,  \* requestTimeoutMs, in ticks
  MaxTempAge,      \* maxTempAgeMs, in ticks
  None

ASSUME ReqsFinite == IsFiniteSet(Reqs)
ASSUME TempType == Temp \in [Reqs -> Names]
ASSUME LenType == Len \in [Reqs -> Nat]
ASSUME BadType == Bad \subseteq Reqs
ASSUME BoundsType == MaxSize \in Nat /\ RequestTimeout \in Nat \ {0} /\ MaxTempAge \in Nat
ASSUME NoneIsNoReq == None \notin Reqs

VARIABLES
  pc,        \* pc[r]: where the request is
  clock,     \* clock[r]: ticks since it arrived
  got,       \* got[r]: chunks that went through the transforms to its file
  fd,        \* fd[r]: the file it writes, named after the request that made it
  cause,     \* cause[r]: the status a failed upload is to be answered with
  ans,       \* ans[r]: the status sent, or "none"
  pending,   \* _pendingCount
  data,      \* data[f][p]: who wrote position p of file f last
  age,       \* age[f]: ticks since file f was last written
  dir,       \* dir[n]: the file that name n of tempDir refers to
  final,     \* the file at finalPath
  condemned, \* names that a cleaner found old and is about to unlink
  installed  \* history: requests whose rename put their whole body at finalPath

files == <<data, age, dir, final, installed>>
vars == <<pc, clock, got, fd, cause, ans, pending, files, condemned>>

Positions == 1..MaxSize
Blank == [p \in Positions |-> None]
Status == {"200", "400", "408", "413", "500", "gone"}

(* handleUpload has been entered and has not returned. *)
Running == {r \in Reqs : pc[r] \notin {"new", "done"}}

TypeOK ==
  /\ pc \in [Reqs -> {"new", "opening", "streaming", "received", "renamed", "failed",
                 "done"}]
  /\ clock \in [Reqs -> 0..RequestTimeout]
  /\ got \in [Reqs -> 0..MaxSize]
  /\ fd \in [Reqs -> Reqs \cup {None}]
  /\ cause \in [Reqs -> Status \cup {"none"}]
  /\ ans \in [Reqs -> Status \cup {"none"}]
  /\ pending \in Nat
  /\ data \in [Reqs -> [Positions -> Reqs \cup {None}]]
  /\ age \in [Reqs -> 0..(MaxTempAge + 1)]
  /\ dir \in [Names -> Reqs \cup {None}]
  /\ final \in Reqs \cup {None}
  /\ condemned \subseteq Names
  /\ installed \subseteq Reqs

Init ==
  /\ pc = [r \in Reqs |-> "new"]
  /\ clock = [r \in Reqs |-> 0]
  /\ got = [r \in Reqs |-> 0]
  /\ fd = [r \in Reqs |-> None]
  /\ cause = [r \in Reqs |-> "none"]
  /\ ans = [r \in Reqs |-> "none"]
  /\ pending = 0
  /\ data = [f \in Reqs |-> Blank]
  /\ age = [f \in Reqs |-> 0]
  /\ dir = [n \in Names |-> None]
  /\ final = None
  /\ condemned = {}
  /\ installed = {}

(* File f is the whole body of r. *)
Whole(f, r) == data[f] = [p \in Positions |-> IF p <= Len[r] THEN r ELSE None]

Go(r, p) == pc' = [pc EXCEPT ![r] = p]

(* The pipeline rejects: the streams are destroyed, and the catch block
   will unlink the temporary file and answer s. *)
Fail(r, s) == Go(r, "failed") /\ cause' = [cause EXCEPT ![r] = s]

(* Every answer is guarded by headersSent.  Nobody hears an answer to a
   client that is gone. *)
Answer(r, s) ==
  ans' = IF ans[r] = "none" /\ s # "gone" THEN [ans EXCEPT ![r] = s] ELSE ans

(* The finally block. *)
Leave(r) ==
  /\ Go(r, "done")
  /\ fd' = [fd EXCEPT ![r] = None]
  /\ pending' = pending - 1

-----------------------------------------------------------------------------
(* The request.                                                            *)

Begin(r) ==
  /\ pc[r] = "new"
  /\ Cardinality({q \in Reqs : pc[q] # "new"}) < MaxUploads
  /\ Go(r, "opening")
  /\ pending' = pending + 1
  /\ UNCHANGED <<clock, got, fd, cause, ans, files, condemned>>

(* open(2) with O_CREAT and O_TRUNC. *)
Open(r) ==
  /\ pc[r] = "opening"
  /\ Go(r, "streaming")
  /\ LET f == IF dir[Temp[r]] = None THEN r ELSE dir[Temp[r]]
     IN  /\ fd' = [fd EXCEPT ![r] = f]
         /\ dir' = [dir EXCEPT ![Temp[r]] = f]
         /\ data' = [data EXCEPT ![f] = Blank]
         /\ age' = [age EXCEPT ![f] = 0]
  /\ UNCHANGED <<clock, got, cause, ans, pending, final, condemned, installed>>

\* Mutant: the limit is compared before the chunk is counted.
ChunkUncounted(r) ==
  /\ pc[r] = "streaming" /\ r \notin Bad /\ got[r] < Len[r]
  /\ IF got[r] > MaxSize
       THEN Fail(r, "413") /\ UNCHANGED <<got, data, age>>
       ELSE /\ got' = [got EXCEPT ![r] = @ + 1]
            /\ data' = [data EXCEPT ![fd[r]] = [p \in Positions |->
                          IF p = got[r] + 1 THEN r ELSE data[fd[r]][p]]]
            /\ age' = [age EXCEPT ![fd[r]] = 0]
            /\ UNCHANGED <<pc, cause>>
  /\ UNCHANGED <<clock, fd, ans, pending, dir, final, condemned, installed>>

(* A chunk passes both transforms and is written where this stream left
   off, or it passes the size limit and the upload fails. *)
Chunk(r) ==
  /\ pc[r] = "streaming" /\ r \notin Bad /\ got[r] < Len[r]
  /\ IF got[r] + 1 > MaxSize
       THEN Fail(r, "413") /\ UNCHANGED <<got, data, age>>
       ELSE /\ got' = [got EXCEPT ![r] = @ + 1]
            /\ data' = [data EXCEPT ![fd[r]] = [p \in Positions |->
                          IF p = got[r] + 1 THEN r ELSE data[fd[r]][p]]]
            /\ age' = [age EXCEPT ![fd[r]] = 0]
            /\ UNCHANGED <<pc, cause>>
  /\ UNCHANGED <<clock, fd, ans, pending, dir, final, condemned, installed>>

\* Mutant: whatever the type, the empty file is kept.
WrongTypeKept(r) ==
  /\ pc[r] = "streaming" /\ r \in Bad
  /\ Go(r, "received")
  /\ UNCHANGED <<clock, got, fd, cause, ans, pending, files, condemned>>

(* The type is known from the first bytes, before anything is written. *)
WrongType(r) ==
  /\ pc[r] = "streaming" /\ r \in Bad
  /\ Fail(r, "400")
  /\ UNCHANGED <<clock, got, fd, ans, pending, files, condemned>>

(* The file cannot be opened, the client hangs up, or a stream has an error
   (a pipeline broken while the file is opening waits for it). *)
Break(r) ==
  /\ \/ pc[r] = "opening" /\ Fail(r, "500")
     \/ pc[r] = "streaming" /\ \E s \in {"gone", "500"} : Fail(r, s)
  /\ UNCHANGED <<clock, got, fd, ans, pending, files, condemned>>

\* Mutant: an incomplete body is taken for a complete one.
EndEarly(r) ==
  /\ pc[r] = "streaming" /\ r \notin Bad
  /\ Go(r, "received")
  /\ UNCHANGED <<clock, got, fd, cause, ans, pending, files, condemned>>

(* The body ends: pipeline() resolves. *)
End(r) ==
  /\ pc[r] = "streaming" /\ r \notin Bad /\ got[r] = Len[r]
  /\ Go(r, "received")
  /\ UNCHANGED <<clock, got, fd, cause, ans, pending, files, condemned>>

(* The rename finds the name, or fails with ENOENT. *)
Rename(r) ==
  /\ pc[r] = "received"
  /\ LET f == dir[Temp[r]]
     IN  IF f # None
           THEN /\ final' = f
                /\ dir' = [dir EXCEPT ![Temp[r]] = None]
                /\ installed' = IF Whole(f, r) THEN installed \cup {r} ELSE installed
                /\ Go(r, "renamed")
                /\ UNCHANGED cause
           ELSE /\ Fail(r, "500")
                /\ UNCHANGED <<dir, final, installed>>
  /\ UNCHANGED <<clock, got, fd, ans, pending, data, age, condemned>>

(* After the await of the rename: the answer, and the finally block. *)
Succeed(r) ==
  /\ pc[r] = "renamed"
  /\ Answer(r, "200")
  /\ Leave(r)
  /\ UNCHANGED <<clock, got, cause, files, condemned>>

RenameFails(r) ==
  /\ pc[r] = "received"
  /\ Fail(r, "500")
  /\ UNCHANGED <<clock, got, fd, ans, pending, files, condemned>>

\* Mutant: the count goes down on success only.
CatchKeepsCount(r) ==
  /\ pc[r] = "failed"
  /\ dir' = [dir EXCEPT ![Temp[r]] = None]
  /\ Answer(r, cause[r])
  /\ Go(r, "done")
  /\ fd' = [fd EXCEPT ![r] = None]
  /\ UNCHANGED <<clock, got, cause, pending, data, age, final, condemned, installed>>

(* The catch block: safeUnlink, the answer, and the finally block. *)
Catch(r) ==
  /\ pc[r] = "failed"
  /\ dir' = [dir EXCEPT ![Temp[r]] = None]
  /\ Answer(r, cause[r])
  /\ Leave(r)
  /\ UNCHANGED <<clock, got, cause, data, age, final, condemned, installed>>

\* Mutant: the timeout answers and leaves the connection open.
TimeoutKeepsSocket(r) ==
  /\ r \in Running /\ clock[r] = RequestTimeout /\ ans[r] = "none"
  /\ Answer(r, "408")
  /\ UNCHANGED <<pc, clock, got, fd, cause, pending, files, condemned>>

(* The request timeout answers 408 and destroys the socket, which breaks a
   body that is still streaming; what was received is renamed all the same. *)
Timeout(r) ==
  /\ r \in Running /\ clock[r] = RequestTimeout /\ ans[r] = "none"
  /\ Answer(r, "408")
  /\ IF pc[r] = "streaming" THEN Fail(r, "gone") ELSE UNCHANGED <<pc, cause>>
  /\ UNCHANGED <<clock, got, fd, pending, files, condemned>>

-----------------------------------------------------------------------------
(* The cleaners, time, and the end of the process.                         *)

\* Mutant: an age of maxTempAgeMs is enough.
CondemnEarly(n) ==
  /\ n \notin condemned
  /\ dir[n] # None /\ age[dir[n]] >= MaxTempAge
  /\ condemned' = condemned \cup {n}
  /\ UNCHANGED <<pc, clock, got, fd, cause, ans, pending, files>>

\* Mutant: the age is compared the wrong way round.
CondemnYoung(n) ==
  /\ n \notin condemned
  /\ dir[n] # None /\ age[dir[n]] < MaxTempAge
  /\ condemned' = condemned \cup {n}
  /\ UNCHANGED <<pc, clock, got, fd, cause, ans, pending, files>>

(* A cleaner's stat finds the file old. *)
Condemn(n) ==
  /\ n \notin condemned
  /\ dir[n] # None /\ age[dir[n]] > MaxTempAge
  /\ condemned' = condemned \cup {n}
  /\ UNCHANGED <<pc, clock, got, fd, cause, ans, pending, files>>

(* Its unlink comes later; that the name is gone by then is no error. *)
Clean(n) ==
  /\ n \in condemned
  /\ condemned' = condemned \ {n}
  /\ dir' = [dir EXCEPT ![n] = None]
  /\ UNCHANGED <<pc, clock, got, fd, cause, ans, pending, data, age, final, installed>>

(* Timers are served and operations of the disk are over within a tick. *)
Tick ==
  /\ \A r \in Running : pc[r] = "streaming" /\ clock[r] < RequestTimeout
  /\ clock' = [r \in Reqs |-> IF r \in Running THEN clock[r] + 1 ELSE clock[r]]
  /\ age' = [f \in Reqs |-> IF age[f] <= MaxTempAge THEN age[f] + 1 ELSE age[f]]
  /\ UNCHANGED <<pc, got, fd, cause, ans, pending, data, dir, final, condemned, installed>>

(* The process ends without clean-up, and another one takes its place. *)
Crash ==
  /\ pc' = [r \in Reqs |-> IF r \in Running THEN "done" ELSE pc[r]]
  /\ fd' = [r \in Reqs |-> None]
  /\ pending' = 0
  /\ condemned' = {}
  /\ UNCHANGED <<clock, got, cause, ans, files>>

-----------------------------------------------------------------------------
Upload(r) ==
  \/ Begin(r) \/ Open(r) \/ Chunk(r) \/ WrongType(r) \/ Break(r) \/ End(r)
  \/ Rename(r) \/ RenameFails(r) \/ Succeed(r) \/ Catch(r) \/ Timeout(r)

Next ==
  \/ \E r \in Reqs : Upload(r)
  \/ \E n \in Names : Condemn(n) \/ Clean(n)
  \/ Tick \/ Crash

Spec == Init /\ [][Next]_vars

(* The disk and the timers answer; clients need not go on.  A crash may
   come between a cleaner's stat and its unlink, but not every time. *)
FairSpec ==
  /\ Spec
  /\ \A r \in Reqs : /\ WF_vars(Open(r)) /\ WF_vars(Rename(r))
                     /\ WF_vars(Succeed(r)) /\ WF_vars(Catch(r)) /\ WF_vars(Timeout(r))
  /\ \A n \in Names : WF_vars(Condemn(n)) /\ SF_vars(Clean(n))
  /\ WF_vars(Tick)

-----------------------------------------------------------------------------
(* What is at the final path is the whole body of one upload, of an allowed
   type and within the limit, whatever failed, timed out or crashed. *)
FinalIsWhole ==
  final # None => \E r \in Reqs \ Bad : Len[r] <= MaxSize /\ Whole(final, r)

(* The temporary file of an upload stays where it is until the upload is
   over: no cleaner, and no failure of another upload, takes it away. *)
UploadKeepsItsFile ==
  \A r \in Reqs : pc[r] \in {"streaming", "received"} => dir[Temp[r]] = fd[r]

(* pendingCount is the number of uploads under way: none is left counted
   after a failure. *)
PendingIsExact == pending = Cardinality(Running)

(* An upload answered with 200 has put its own body at the final path, all of
   it, although the timeout may answer first, cleaners take files away, and by
   the time of the answer another upload may have replaced it. *)
SuccessInstalls == \A r \in Reqs : ans[r] = "200" => r \in installed

(* The request timeout bounds every upload, though its client may stop
   sending without hanging up. *)
UploadsEnd == \A r \in Reqs : (r \in Running) ~> (r \notin Running)

(* No temporary file stays for ever, not even one left by a crash. *)
TempFilesGo == \A n \in Names : (dir[n] # None) ~> (dir[n] = None)
=============================================================================

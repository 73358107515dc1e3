------------------------ MODULE UploadPipelineProofs ------------------------
(***************************************************************************)
(* For every finite set of requests, every length, limit and timeout: what *)
(* UploadPipeline promises of the file it installs, of the temporary file  *)
(* it is writing and of its count.                                         *)
(*                                                                         *)
(* Two assumptions are hypotheses of the theorems, because the code does   *)
(* not enforce them: that two requests never have the same temporary name  *)
(* (tempPath has only a millisecond to tell them apart), and that a        *)
(* temporary file may grow at least as old as a request (two independent   *)
(* settings).                                                              *)
(***************************************************************************)
EXTENDS UploadPipeline, FiniteSetTheorems, TLAPS

OwnNames == \A r, q \in Reqs : Temp[r] = Temp[q] => r = q
PatientCleaner == RequestTimeout <= MaxTempAge

USE DEF Go, Fail, Answer, Leave, files

(***************************************************************************)
(* The count and the types: pending stays a natural number because it is   *)
(* the number of uploads under way.                                        *)
(***************************************************************************)
LEMMA RunningFinite == IsFiniteSet(Running) /\ Cardinality(Running) \in Nat
  <1>1. Running \subseteq Reqs
    BY DEF Running
  <1> QED
    BY <1>1, ReqsFinite, FS_Subset, FS_CardinalityType

LEMMA CountStep ==
  ASSUME TypeOK, PendingIsExact, [Next]_vars PROVE PendingIsExact' /\ pending' \in Nat
  <1> USE DEF PendingIsExact
  <1>1. CASE Running' = Running /\ pending' = pending
    BY <1>1, RunningFinite
  <1>2. ASSUME NEW r \in Reqs, Begin(r) PROVE PendingIsExact' /\ pending' \in Nat
    <2>1. Running' = Running \cup {r} /\ r \notin Running
      BY <1>2 DEF Begin, Running, TypeOK
    <2>2. Cardinality(Running') = Cardinality(Running) + 1
      BY <2>1, RunningFinite, FS_AddElement
    <2>3. pending' = pending + 1
      BY <1>2 DEF Begin
    <2> QED
      BY <2>2, <2>3, RunningFinite
  <1>3. ASSUME NEW r \in Reqs, r \in Running, Leave(r) PROVE PendingIsExact' /\ pending' \in Nat
    <2>1. Running' = Running \ {r}
      BY <1>3 DEF Running, TypeOK
    <2>2. Cardinality(Running') = Cardinality(Running) - 1 /\ Cardinality(Running') \in Nat
      BY <1>3, <2>1, RunningFinite, FS_RemoveElement, FS_CardinalityType
    <2>3. pending' = pending - 1
      BY <1>3
    <2> QED
      BY <2>2, <2>3
  <1>4. ASSUME Crash PROVE PendingIsExact' /\ pending' \in Nat
    <2>1. Running' = {} /\ pending' = 0
      BY <1>4 DEF Crash, Running
    <2> QED
      BY <2>1, FS_EmptySet
  <1>5. ASSUME NEW r \in Reqs,
               Open(r) \/ Chunk(r) \/ WrongType(r) \/ Break(r) \/ End(r) \/ Rename(r)
                 \/ RenameFails(r) \/ Timeout(r)
        PROVE  Running' = Running /\ pending' = pending
    BY <1>5 DEF Open, Chunk, WrongType, Break, End, Rename, RenameFails, Timeout, Running, TypeOK
  <1>6. ASSUME NEW r \in Reqs, Succeed(r) PROVE r \in Running /\ Leave(r)
    BY <1>6 DEF Succeed, Running
  <1>7. ASSUME NEW r \in Reqs, Catch(r) PROVE r \in Running /\ Leave(r)
    BY <1>7 DEF Catch, Running
  <1>8. ASSUME (\E n \in Names : Condemn(n) \/ Clean(n)) \/ Tick \/ UNCHANGED vars
        PROVE  Running' = Running /\ pending' = pending
    BY <1>8 DEF Condemn, Clean, Tick, vars, Running
  <1> QED
    BY <1>1, <1>2, <1>3, <1>4, <1>5, <1>6, <1>7, <1>8 DEF Next, Upload

LEMMA TypeStep ==
  ASSUME TypeOK, pending' \in Nat, [Next]_vars PROVE TypeOK'
  <1> USE BoundsType, TempType, NoneIsNoReq DEF TypeOK, Status
  <1>1. ASSUME NEW r \in Reqs, Begin(r) \/ WrongType(r) \/ Break(r) \/ End(r) \/ RenameFails(r)
        PROVE  TypeOK'
    <2>1. /\ \E p \in {"opening", "received", "failed"} : pc' = [pc EXCEPT ![r] = p]
          /\ cause' = cause \/ \E s \in Status : cause' = [cause EXCEPT ![r] = s]
          /\ UNCHANGED <<clock, got, fd, ans, files, condemned>>
      BY <1>1 DEF Begin, WrongType, Break, End, RenameFails
    <2> QED
      BY <2>1
  <1>2. ASSUME NEW r \in Reqs, Open(r) PROVE TypeOK'
    <2> DEFINE f == IF dir[Temp[r]] = None THEN r ELSE dir[Temp[r]]
    <2>1. f \in Reqs
      OBVIOUS
    <2>2. Blank \in [Positions -> Reqs \cup {None}]
      BY DEF Blank
    <2>3. /\ fd' = [fd EXCEPT ![r] = f]
          /\ dir' = [dir EXCEPT ![Temp[r]] = f]
          /\ data' = [data EXCEPT ![f] = Blank]
          /\ age' = [age EXCEPT ![f] = 0]
          /\ pc' = [pc EXCEPT ![r] = "streaming"]
          /\ UNCHANGED <<clock, got, cause, ans, pending, final, condemned, installed>>
      BY <1>2 DEF Open
    <2> QED
      BY <2>1, <2>2, <2>3
  <1>3. ASSUME NEW r \in Reqs, Chunk(r), got[r] + 1 > MaxSize PROVE TypeOK'
    BY <1>3 DEF Chunk
  <1>4. ASSUME NEW r \in Reqs, Chunk(r), ~(got[r] + 1 > MaxSize) PROVE TypeOK'
    <2>1. data' \in [Reqs -> [Positions -> Reqs \cup {None}]]
      <3>1. CASE fd[r] \in Reqs
        <4>1. [p \in Positions |-> IF p = got[r] + 1 THEN r ELSE data[fd[r]][p]]
                \in [Positions -> Reqs \cup {None}]
          BY <3>1
        <4> QED
          BY <1>4, <4>1 DEF Chunk
      <3>2. CASE fd[r] = None
        <4>1. data' = [data EXCEPT ![None] = [p \in Positions |->
                         IF p = got[r] + 1 THEN r ELSE data[fd[r]][p]]]
          BY <1>4, <3>2 DEF Chunk
        <4>2. data' = data
          BY <4>1
        <4> QED
          BY <4>2
      <3> QED
        BY <3>1, <3>2
    <2>2. got' \in [Reqs -> 0..MaxSize]
      <3>1. got' = [got EXCEPT ![r] = got[r] + 1] /\ got[r] + 1 \in 0..MaxSize
        BY <1>4 DEF Chunk
      <3> QED
        BY <3>1
    <2>3. age' \in [Reqs -> 0..(MaxTempAge + 1)]
      <3>1. age' = [age EXCEPT ![fd[r]] = 0] /\ 0 \in 0..(MaxTempAge + 1)
        BY <1>4 DEF Chunk
      <3> QED
        BY <3>1
    <2> QED
      BY <1>4, <2>1, <2>2, <2>3 DEF Chunk
  <1>5. ASSUME NEW r \in Reqs, Rename(r) PROVE TypeOK'
    <2>1. CASE dir[Temp[r]] # None
      <3>1. /\ dir' = [dir EXCEPT ![Temp[r]] = None] /\ final' = dir[Temp[r]]
            /\ installed' = installed \cup {r} \/ installed' = installed
            /\ pc' = [pc EXCEPT ![r] = "renamed"]
            /\ UNCHANGED <<clock, got, fd, cause, ans, pending, data, age, condemned>>
        BY <1>5, <2>1 DEF Rename
      <3>2. dir' \in [Names -> Reqs \cup {None}] /\ final' \in Reqs \cup {None}
        BY <3>1
      <3> QED
        BY <3>1, <3>2
    <2>2. CASE dir[Temp[r]] = None
      BY <1>5, <2>2 DEF Rename
    <2> QED
      BY <2>1, <2>2
  <1>6. ASSUME NEW r \in Reqs, Catch(r) \/ Succeed(r) PROVE TypeOK'
    BY <1>6 DEF Catch, Succeed
  <1>7. ASSUME NEW r \in Reqs, Timeout(r) PROVE TypeOK'
    BY <1>7 DEF Timeout
  <1>8. ASSUME NEW n \in Names, Condemn(n) \/ Clean(n) PROVE TypeOK'
    BY <1>8 DEF Condemn, Clean
  <1>9. ASSUME Tick PROVE TypeOK'
    <2>1. clock' \in [Reqs -> 0..RequestTimeout]
      BY <1>9 DEF Tick
    <2>2. age' \in [Reqs -> 0..(MaxTempAge + 1)]
      BY <1>9 DEF Tick
    <2> QED
      BY <1>9, <2>1, <2>2 DEF Tick
  <1>10. ASSUME Crash PROVE TypeOK'
    BY <1>10 DEF Crash
  <1>11. ASSUME UNCHANGED vars PROVE TypeOK'
    BY <1>11 DEF vars
  <1> QED
    BY <1>1, <1>2, <1>3, <1>4, <1>5, <1>6, <1>7, <1>8, <1>9, <1>10, <1>11 DEF Next, Upload

THEOREM Counted == Spec => [](TypeOK /\ PendingIsExact)
  <1>1. Init => TypeOK /\ PendingIsExact
    <2>1. ASSUME Init PROVE Running = {} /\ pending = 0
      BY <2>1 DEF Init, Running
    <2>2. ASSUME Init PROVE TypeOK
      BY <2>2, BoundsType DEF Init, Blank, TypeOK
    <2> QED
      BY <2>1, <2>2, FS_EmptySet DEF PendingIsExact
  <1>2. TypeOK /\ PendingIsExact /\ [Next]_vars => (TypeOK /\ PendingIsExact)'
    BY CountStep, TypeStep
  <1> QED
    BY <1>1, <1>2, PTL DEF Spec

(* pendingCount is exact, whatever fails. *)
THEOREM Pending == Spec => []PendingIsExact
  <1> QED
    BY Counted, PTL

(***************************************************************************)
(* The contents.  Who has a temporary name of its own writes a file of its *)
(* own, from the first position on, and never after it is received.        *)
(***************************************************************************)
Writing(r) == pc[r] \in {"streaming", "received"}

Upto(r, g) == [p \in Positions |-> IF p <= g THEN r ELSE None]
Put(d, k, r) == [p \in Positions |-> IF p = k THEN r ELSE d[p]]

Fresh == \A r \in Reqs : pc[r] \in {"new", "opening"} => got[r] = 0 /\ dir[Temp[r]] = None
OwnFile == \A r \in Reqs : /\ dir[Temp[r]] \in {None, r}
                           /\ Writing(r) => fd[r] = r
Prefix == \A r \in Reqs : Writing(r) => data[r] = Upto(r, got[r])
Received == \A r \in Reqs : pc[r] = "received" => r \notin Bad /\ got[r] = Len[r]
FinalOver == \A r \in Reqs : final = r =>
               pc[r] \in {"renamed", "done"} /\ r \notin Bad /\ Len[r] <= MaxSize /\ Whole(r, r)

Content == Fresh /\ OwnFile /\ Prefix /\ Received /\ FinalOver

LEMMA Beginning == ASSUME NEW r PROVE Blank = Upto(r, 0)
  BY BoundsType DEF Blank, Positions, Upto

LEMMA Extension ==
  ASSUME NEW r, NEW g \in Nat PROVE Put(Upto(r, g), g + 1, r) = Upto(r, g + 1)
  <1>1. ASSUME NEW p \in Positions
        PROVE  (IF p = g + 1 THEN r ELSE Upto(r, g)[p]) = (IF p <= g + 1 THEN r ELSE None)
    BY <1>1, BoundsType DEF Positions, Upto
  <1> QED
    BY <1>1 DEF Put, Upto

(* An upload that fails gives up its claims. *)
LEMMA Failing ==
  ASSUME TypeOK, Content, NEW r \in Reqs, pc[r] \notin {"renamed", "done"},
         pc' = [pc EXCEPT ![r] = "failed"],
         UNCHANGED <<got, fd, data, dir, final>>
  PROVE  Content'
  <1> USE DEF TypeOK, Content, Writing
  <1>1. Fresh' /\ OwnFile'
    BY DEF Fresh, OwnFile
  <1>2. Prefix' /\ Received'
    BY DEF Prefix, Received
  <1>3. FinalOver'
    BY DEF FinalOver, Whole
  <1> QED
    BY <1>1, <1>2, <1>3

LEMMA ContentStep ==
  ASSUME OwnNames, TypeOK, Content, [Next]_vars PROVE Content'
  <1> USE TempType, NoneIsNoReq
          DEF Content, Fresh, OwnFile, Prefix, Received, FinalOver, Writing, TypeOK
  <1>1. ASSUME NEW r \in Reqs, Begin(r) PROVE Content'
    BY <1>1 DEF Begin, Whole
  <1>2. ASSUME NEW r \in Reqs, Open(r) PROVE Content'
    <2>1. /\ pc' = [pc EXCEPT ![r] = "streaming"]
          /\ fd' = [fd EXCEPT ![r] = r]
          /\ dir' = [dir EXCEPT ![Temp[r]] = r]
          /\ data' = [data EXCEPT ![r] = Blank]
          /\ got[r] = 0 /\ final # r
          /\ UNCHANGED <<got, final>>
      BY <1>2 DEF Open
    <2>2. Fresh' /\ OwnFile'
      BY <2>1 DEF OwnNames
    <2>3. Prefix'
      BY <2>1, Beginning
    <2>4. Received' /\ FinalOver'
      BY <2>1 DEF Whole
    <2> QED
      BY <2>2, <2>3, <2>4
  <1>3. ASSUME NEW r \in Reqs, Chunk(r) PROVE Content'
    <2>1. CASE got[r] + 1 > MaxSize
      <3>1. /\ pc[r] \notin {"renamed", "done"} /\ pc' = [pc EXCEPT ![r] = "failed"]
            /\ UNCHANGED <<got, fd, data, dir, final>>
        BY <1>3, <2>1 DEF Chunk
      <3> QED
        BY <3>1, Failing
    <2>2. CASE ~(got[r] + 1 > MaxSize)
      <3>1. /\ data' = [data EXCEPT ![r] = Put(data[r], got[r] + 1, r)]
            /\ got' = [got EXCEPT ![r] = got[r] + 1]
            /\ pc[r] = "streaming" /\ final # r
            /\ UNCHANGED <<pc, fd, dir, final>>
        BY <1>3, <2>2 DEF Chunk, Put
      <3>2. data'[r] = Upto(r, got'[r])
        <4>1. data[r] = Upto(r, got[r])
          BY <3>1
        <4>2. got[r] \in Nat /\ got'[r] = got[r] + 1
          BY <3>1
        <4>3. data'[r] = Put(data[r], got[r] + 1, r)
          BY <3>1
        <4> QED
          BY <4>1, <4>2, <4>3, Extension
      <3>3. ASSUME NEW q \in Reqs, q # r, Writing(q)' PROVE data'[q] = Upto(q, got'[q])
        BY <3>1, <3>3
      <3>4. Prefix'
        BY <3>2, <3>3
      <3>5. Fresh' /\ OwnFile' /\ Received' /\ FinalOver'
        BY <3>1 DEF Whole
      <3> QED
        BY <3>4, <3>5
    <2> QED
      BY <2>1, <2>2
  <1>4. ASSUME NEW r \in Reqs, Rename(r) PROVE Content'
    <2>1. CASE dir[Temp[r]] = None
      <3>1. /\ pc[r] \notin {"renamed", "done"} /\ pc' = [pc EXCEPT ![r] = "failed"]
            /\ UNCHANGED <<got, fd, data, dir, final>>
        BY <1>4, <2>1 DEF Rename
      <3> QED
        BY <3>1, Failing
    <2>2. CASE dir[Temp[r]] # None
      <3>1. /\ pc[r] = "received" /\ pc' = [pc EXCEPT ![r] = "renamed"]
            /\ final' = r
            /\ dir' = [dir EXCEPT ![Temp[r]] = None]
            /\ UNCHANGED <<got, fd, data>>
        BY <1>4, <2>2 DEF Rename
      <3>2. Whole(r, r)'
        <4>1. data'[r] = Upto(r, Len[r])
          BY <3>1
        <4> QED
          BY <4>1 DEF Whole, Upto
      <3>3. FinalOver'
        BY <3>1, <3>2
      <3>4. Fresh' /\ OwnFile' /\ Prefix' /\ Received'
        BY <3>1 DEF OwnNames
      <3> QED
        BY <3>3, <3>4
    <2> QED
      BY <2>1, <2>2
  <1>5. ASSUME NEW r \in Reqs, Catch(r) \/ Succeed(r) PROVE Content'
    <2>1. /\ pc[r] \in {"failed", "renamed"} /\ pc' = [pc EXCEPT ![r] = "done"]
          /\ fd' = [fd EXCEPT ![r] = None]
          /\ dir' = dir \/ dir' = [dir EXCEPT ![Temp[r]] = None]
          /\ UNCHANGED <<got, data, final>>
      BY <1>5 DEF Catch, Succeed
    <2>2. Fresh' /\ OwnFile'
      BY <2>1 DEF OwnNames
    <2>3. Prefix' /\ Received'
      BY <2>1
    <2>4. FinalOver'
      BY <2>1 DEF Whole
    <2> QED
      BY <2>2, <2>3, <2>4
  <1>6. ASSUME NEW r \in Reqs,
               WrongType(r) \/ Break(r) \/ RenameFails(r) \/ Timeout(r)
        PROVE  Content'
    <2>1. /\ pc' = pc \/ (pc[r] \notin {"renamed", "done"} /\ pc' = [pc EXCEPT ![r] = "failed"])
          /\ UNCHANGED <<got, fd, data, dir, final>>
      BY <1>6 DEF WrongType, Break, RenameFails, Timeout, Running
    <2>2. CASE pc' = pc
      BY <2>1, <2>2 DEF Whole
    <2> QED
      BY <2>1, <2>2, Failing
  <1>7. ASSUME NEW n \in Names, Condemn(n) \/ Clean(n) PROVE Content'
    <2>1. /\ UNCHANGED <<pc, got, fd, data, final>>
          /\ dir' \in {dir, [dir EXCEPT ![n] = None]}
      BY <1>7 DEF Condemn, Clean
    <2>2. Fresh' /\ OwnFile'
      BY <2>1
    <2>3. Prefix' /\ Received' /\ FinalOver'
      BY <2>1 DEF Whole
    <2> QED
      BY <2>2, <2>3
  <1>8. ASSUME Tick \/ UNCHANGED vars PROVE Content'
    BY <1>8 DEF Tick, vars, Whole
  <1>9. ASSUME Crash PROVE Content'
    BY <1>9 DEF Crash, Running, Whole
  <1>10. ASSUME NEW r \in Reqs, End(r) PROVE Content'
    BY <1>10 DEF End, Whole
  <1> QED
    BY <1>1, <1>2, <1>3, <1>4, <1>5, <1>6, <1>7, <1>8, <1>9, <1>10 DEF Next, Upload

LEMMA Contents == ASSUME OwnNames PROVE Spec => [](TypeOK /\ Content)
  <1>1. Init => Content
    BY NoneIsNoReq, TempType
       DEF Init, Content, Fresh, OwnFile, Prefix, Received, FinalOver, Writing
  <1>2. TypeOK /\ Content /\ [Next]_vars => Content'
    BY ContentStep
  <1> QED
    BY <1>1, <1>2, Counted, PTL DEF Spec

(* The file installed is the whole body of one upload, of an allowed type
   and within the limit, if no two uploads share a temporary name. *)
THEOREM Installation == ASSUME OwnNames PROVE Spec => []FinalIsWhole
  <1>1. TypeOK /\ Content => FinalIsWhole
    BY DEF TypeOK, Content, FinalOver, FinalIsWhole
  <1> QED
    BY <1>1, Contents, PTL

(* A failed upload is never to be answered with success. *)
Causes == \A r \in Reqs : cause[r] # "200"

LEMMA CausesStep == ASSUME TypeOK, Causes, [Next]_vars PROVE Causes'
  <1> USE DEF TypeOK, Causes
  <1>1. ASSUME NEW r \in Reqs, Upload(r) PROVE Causes'
    <2>1. cause' = cause \/ \E s \in {"400", "408", "413", "500", "gone"} : cause' = [cause EXCEPT ![r] = s]
      BY <1>1 DEF Upload, Begin, Open, Chunk, WrongType, Break, End, Rename, RenameFails, Succeed, Catch, Timeout
    <2> QED
      BY <2>1
  <1>2. ASSUME NEW n \in Names, Condemn(n) \/ Clean(n) PROVE Causes'
    BY <1>2 DEF Condemn, Clean
  <1>3. CASE Tick \/ Crash \/ UNCHANGED vars
    BY <1>3 DEF Tick, Crash, vars
  <1> QED
    BY <1>1, <1>2, <1>3 DEF Next

(* What was renamed was the whole body, and only who renamed says so. *)
Told == \A r \in Reqs : pc[r] = "renamed" \/ ans[r] = "200" => r \in installed

LEMMA ToldStep ==
  ASSUME OwnNames, TypeOK, Content, Causes, Told, [Next]_vars PROVE Told'
  <1> USE DEF TypeOK, Told
  <1>1. ASSUME NEW r \in Reqs, Rename(r) PROVE Told'
    <2>1. CASE dir[Temp[r]] = None
      BY <1>1, <2>1 DEF Rename
    <2>2. CASE dir[Temp[r]] # None
      <3>1. dir[Temp[r]] = r
        BY <2>2 DEF Content, OwnFile
      <3>2. data[r] = Upto(r, Len[r])
        BY <1>1 DEF Rename, Content, Prefix, Received, Writing
      <3>3. Whole(r, r)
        BY <3>2 DEF Whole, Upto
      <3>4. installed' = installed \cup {r}
        BY <1>1, <2>2, <3>1, <3>3 DEF Rename
      <3>5. pc' = [pc EXCEPT ![r] = "renamed"] /\ ans' = ans
        BY <1>1, <2>2 DEF Rename
      <3> QED
        BY <3>4, <3>5
    <2> QED
      BY <2>1, <2>2
  <1>2. ASSUME NEW r \in Reqs, Succeed(r) PROVE Told'
    <2>1. /\ pc[r] = "renamed" /\ pc' = [pc EXCEPT ![r] = "done"]
          /\ ans' = ans \/ ans' = [ans EXCEPT ![r] = "200"]
          /\ installed' = installed
      BY <1>2 DEF Succeed
    <2> QED
      BY <2>1
  <1>3. ASSUME NEW r \in Reqs, Catch(r) PROVE Told'
    <2>1. /\ pc' = [pc EXCEPT ![r] = "done"] /\ installed' = installed
          /\ ans' = ans \/ ans' = [ans EXCEPT ![r] = cause[r]]
      BY <1>3 DEF Catch
    <2>2. cause[r] # "200"
      BY DEF Causes
    <2> QED
      BY <2>1, <2>2
  <1>4. ASSUME NEW r \in Reqs, Timeout(r) PROVE Told'
    <2>1. /\ pc' = pc \/ pc' = [pc EXCEPT ![r] = "failed"]
          /\ ans' = [ans EXCEPT ![r] = "408"] /\ installed' = installed
      BY <1>4 DEF Timeout
    <2> QED
      BY <2>1
  <1>5. ASSUME NEW r \in Reqs,
               Begin(r) \/ Open(r) \/ Chunk(r) \/ WrongType(r) \/ Break(r) \/ End(r) \/ RenameFails(r)
        PROVE  Told'
    <2>1. /\ UNCHANGED <<ans, installed>>
          /\ pc' = pc \/ \E p \in {"opening", "streaming", "failed", "received"} : pc' = [pc EXCEPT ![r] = p]
      BY <1>5 DEF Begin, Open, Chunk, WrongType, Break, End, RenameFails
    <2> QED
      BY <2>1
  <1>6. ASSUME NEW n \in Names, Condemn(n) \/ Clean(n) PROVE Told'
    BY <1>6 DEF Condemn, Clean
  <1>7. CASE Tick \/ Crash \/ UNCHANGED vars
    BY <1>7 DEF Tick, Crash, vars
  <1> QED
    BY <1>1, <1>2, <1>3, <1>4, <1>5, <1>6, <1>7 DEF Next, Upload

(* A client that is told 200 has had its own body installed, whole, if no two
   uploads share a temporary name (handleUpload in upload-pipeline.ts). *)
THEOREM Success == ASSUME OwnNames PROVE Spec => []SuccessInstalls
  <1>1. Init => Causes /\ Told
    BY DEF Init, Causes, Told
  <1>2. TypeOK /\ Content /\ Causes /\ Told /\ [Next]_vars => (Causes /\ Told)'
    BY CausesStep, ToldStep
  <1>3. Told => SuccessInstalls
    BY DEF Told, SuccessInstalls
  <1> QED
    BY <1>1, <1>2, <1>3, Contents, PTL DEF Spec

(***************************************************************************)
(* The cleaners.  While a file is being written it is no older than its    *)
(* request, and the request's timeout comes before the cleaner's age.      *)
(***************************************************************************)
InPlace == \A r \in Reqs : Writing(r) => dir[Temp[r]] = r /\ age[r] <= clock[r]
Spared == \A r \in Reqs : Temp[r] \in condemned => pc[r] \in {"renamed", "failed", "done"}

LEMMA SparedStep ==
  ASSUME OwnNames, PatientCleaner, TypeOK, Content, InPlace, Spared, [Next]_vars
  PROVE  InPlace' /\ Spared'
  <1> USE TempType, NoneIsNoReq, BoundsType
          DEF InPlace, Spared, Writing, TypeOK
  <1>1. ASSUME NEW r \in Reqs,
               Begin(r) \/ WrongType(r) \/ Break(r) \/ End(r) \/ RenameFails(r) \/ Timeout(r)
        PROVE  InPlace' /\ Spared'
    BY <1>1 DEF Begin, WrongType, Break, End, RenameFails, Timeout, Running
  <1>2. ASSUME NEW r \in Reqs, Open(r) PROVE InPlace' /\ Spared'
    <2>1. /\ pc[r] = "opening" /\ pc' = [pc EXCEPT ![r] = "streaming"]
          /\ dir' = [dir EXCEPT ![Temp[r]] = r]
          /\ age' = [age EXCEPT ![r] = 0]
          /\ UNCHANGED <<clock, condemned>>
      BY <1>2 DEF Open, Content, Fresh
    <2> QED
      BY <2>1 DEF OwnNames
  <1>3. ASSUME NEW r \in Reqs, Chunk(r) PROVE InPlace' /\ Spared'
    <2>1. /\ pc[r] = "streaming" /\ UNCHANGED <<clock, dir, condemned>>
          /\ \/ pc' = [pc EXCEPT ![r] = "failed"] /\ age' = age
             \/ pc' = pc /\ age' = [age EXCEPT ![r] = 0]
      BY <1>3 DEF Chunk, Content, OwnFile
    <2>2. \A q \in Reqs : age'[q] <= age[q]
      <3>1. \A q \in Reqs : age[q] \in 0..(MaxTempAge + 1)
        OBVIOUS
      <3>2. \A q \in Reqs : age'[q] = age[q] \/ age'[q] = 0
        BY <2>1
      <3>3. ASSUME NEW q \in Reqs PROVE age'[q] <= age[q]
        <4>1. age[q] \in Nat
          BY <3>1
        <4>2. age'[q] = age[q] \/ age'[q] = 0
          BY <3>2
        <4> HIDE DEF TypeOK, InPlace, Spared
        <4> QED
          BY <4>1, <4>2
      <3> QED
        BY <3>3
    <2>3. InPlace'
      <3>1. ASSUME NEW q \in Reqs, Writing(q)' PROVE dir'[Temp[q]] = q /\ age'[q] <= clock'[q]
        <4>1. Writing(q)
          BY <2>1, <3>1
        <4>2. dir[Temp[q]] = q /\ age[q] <= clock[q]
          BY <4>1
        <4>3. age[q] \in Nat /\ clock[q] \in Nat /\ age'[q] \in Nat
          BY <2>1
        <4> QED
          BY <2>1, <2>2, <4>2, <4>3
      <3> QED
        BY <3>1
    <2>4. Spared'
      BY <2>1
    <2> QED
      BY <2>3, <2>4
  <1>4. ASSUME NEW r \in Reqs, Rename(r) \/ Succeed(r) \/ Catch(r) PROVE InPlace' /\ Spared'
    <2>1. /\ pc[r] \in {"received", "renamed", "failed"}
          /\ \E p \in {"renamed", "done", "failed"} : pc' = [pc EXCEPT ![r] = p]
          /\ dir' \in {dir, [dir EXCEPT ![Temp[r]] = None]}
          /\ UNCHANGED <<clock, age, condemned>>
      BY <1>4 DEF Rename, Succeed, Catch
    <2> QED
      BY <2>1 DEF OwnNames
  <1>5. ASSUME NEW n \in Names, Condemn(n) PROVE InPlace' /\ Spared'
    <2>1. /\ dir[n] # None /\ age[dir[n]] > MaxTempAge /\ condemned' = condemned \cup {n}
          /\ UNCHANGED <<pc, clock, age, dir>>
      BY <1>5 DEF Condemn
    <2>2. ASSUME NEW r \in Reqs, Temp[r] = n PROVE pc[r] \in {"renamed", "failed", "done"}
      <3>1. dir[n] = r
        BY <2>1, <2>2 DEF Content, OwnFile
      <3>2. age[r] > clock[r]
        BY <2>1, <3>1 DEF PatientCleaner
      <3>3. pc[r] \notin {"new", "opening"}
        BY <2>1, <2>2 DEF Content, Fresh
      <3> QED
        BY <3>2, <3>3
    <2> QED
      BY <2>1, <2>2
  <1>6. ASSUME NEW n \in Names, Clean(n) PROVE InPlace' /\ Spared'
    BY <1>6 DEF Clean
  <1>7. ASSUME Tick PROVE InPlace' /\ Spared'
    BY <1>7 DEF Tick, Running
  <1>8. ASSUME Crash \/ UNCHANGED vars PROVE InPlace' /\ Spared'
    BY <1>8 DEF Crash, vars, Running
  <1> QED
    BY <1>1, <1>2, <1>3, <1>4, <1>5, <1>6, <1>7, <1>8 DEF Next, Upload

(* No cleaner, and no failure of another upload, takes the temporary file
   of an upload away, if names are distinct and the cleaner is patient. *)
THEOREM FileKept == ASSUME OwnNames, PatientCleaner PROVE Spec => []UploadKeepsItsFile
  <1>1. Init => InPlace /\ Spared
    BY DEF Init, InPlace, Spared, Writing
  <1>2. TypeOK /\ Content /\ InPlace /\ Spared /\ [Next]_vars => (InPlace /\ Spared)'
    BY SparedStep
  <1>3. Content /\ InPlace => UploadKeepsItsFile
    BY DEF Content, OwnFile, InPlace, UploadKeepsItsFile, Writing
  <1> QED
    BY <1>1, <1>2, <1>3, Contents, PTL DEF Spec

(* Whatever fails, times out, is cleaned or crashes, the state stays one of
   upload-pipeline.ts, and no more than maxFileSize is ever in a file. *)
THEOREM TypeCorrect == Spec => []TypeOK
  <1>1. (TypeOK /\ PendingIsExact) => TypeOK
    OBVIOUS
  <1> QED
    BY <1>1, Counted, PTL
=============================================================================

-------------------------- MODULE MCAvatarScenarios --------------------------
(* One run of AvatarStore over several scenarios, each with the operations
   that belong to one question: their union is small enough to check, where
   clients that mix all operations are not.                                 *)
EXTENDS MCAvatarStore

VARIABLE scenario  \* chosen once, at the beginning

(* What clients do in each scenario.  "figura" and "api": the requests that
   Figura clients make for two users, or clients of /api for one, one at a
   time; "caches": concurrent requests to the caches of one user; "snapshots":
   what uploads leave running; "versions": an upload, a restore of a version
   and one of a backup, any two at once. *)
ScenarioOps == [
  figura     |-> {"fupload", "fdelete", "fprofile", "profile", "download", "file"},
  api        |-> {"upload", "delete", "restore", "profile", "download", "file"},
  caches     |-> {"fupload", "delete", "profile", "download", "preview"},
  snapshots  |-> {"upload", "delete"},
  versions   |-> {"upload", "restore", "backup"}]

(* Requests come one at a time; in the scenario "api", after the snapshot that
   the last upload left has been taken, and the copies of restores succeed. *)
OneAtATime == scenario \in {"figura", "api"}

Untouched(r) == pc[r] = "idle" /\ ans[r] = Failed /\ user[r] = u1

InScenario ==
  /\ \A r \in Reqs : op[r] \in ScenarioOps[scenario] \cup {"none"}
  /\ OneAtATime =>
       /\ \A q, r \in Reqs : q = r \/ Untouched(q) \/ Untouched(r)
       /\ \A r \in Reqs : pc[r] # "failed"
       /\ (\E r \in Reqs : pc[r] # "idle") => \A w \in Workers, u \in Users : snaps[w][u] = {}
  /\ scenario # "figura" => disk[u2] = None /\ \A r \in Reqs : user[r] = u1
  /\ scenario = "versions" => \A o \in ScenarioOps[scenario] :
       Cardinality({r \in Reqs : op[r] = o}) <= 1

ScenarioInit == Init /\ scenario \in DOMAIN ScenarioOps /\ user = [r \in Reqs |-> u1] /\ InScenario
ScenarioNext == Next /\ UNCHANGED scenario /\ InScenario'
ScenarioSpec == ScenarioInit /\ [][ScenarioNext]_<<vars, scenario>>

(* What the files hold, and what requests were told, in those scenarios. *)
Files == IF OneAtATime THEN disk ELSE [u \in Users |-> None]
Told == [r \in Reqs |-> IF ~OneAtATime \/ ans[r] = Failed THEN <<>>
                        ELSE <<user[r], ans[r]>>]

(* One at a time, the requests of Figura clients, and those of clients of
   /api, read the file as if there were no cache: every profile, 304 and body
   tells what the file holds then.  The clients of /api also restore versions,
   whose recorded hashes go into hashCache, and for them the snapshots that
   uploads leave must be of what was uploaded. *)
Sequentially == INSTANCE AvatarRegister WITH file <- Files, told <- Told

ServesFile == Sequentially!Spec
=============================================================================

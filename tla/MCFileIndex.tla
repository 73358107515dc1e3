----------------------------- MODULE MCFileIndex -----------------------------
(* FileIndex for TLC, and BackupArchive for what goes into one of the files it
   lists: the two share no state, so one run explores them side by side.    *)
EXTENDS FileIndex, TLC

CONSTANTS
  p1, p2,
  Files, Size, MaxWrites   \* of BackupArchive

ASSUME ArchiveParameters ==
  /\ Files \in Seq({Files[k] : k \in DOMAIN Files})
  /\ \A j, k \in DOMAIN Files : Files[j] = Files[k] => j = k
  /\ Size \in Seq(Nat) /\ MaxWrites \in Nat

VARIABLES scenario, avatar, writes, phase, at, size, packed, exact, archive, buf, out

Archive == INSTANCE BackupArchive

archiveVars == <<avatar, writes, phase, at, size, packed, exact, archive, buf, out>>

BothInit ==
  /\ scenario \in {"index", "archive"}
  /\ Init /\ Archive!Init
  /\ scenario = "index" => avatar = [f \in Archive!Names |-> 1]
  /\ scenario = "archive" => alone

BothNext ==
  /\ \/ scenario = "index" /\ Next /\ UNCHANGED archiveVars
     \/ scenario = "archive" /\ Archive!Next /\ UNCHANGED vars
  /\ UNCHANGED scenario

BothSpec == BothInit /\ [][BothNext]_<<scenario, vars, archiveVars>>

(* BackupArchive!RestoresExact: however gunzip cuts the stream, a restore
   writes every file exactly as it was streamed, up to the first one whose
   size an upload changed between its stat and its stream. *)
RestoresExact == Archive!TypeOK /\ Archive!RestoresExact

\* Services.cfg.
ThreeFiles == <<"a", "b", "c">>
ThreeSizes == <<1, 2, 0>>

Symmetry == Permutations(Procs)
=============================================================================

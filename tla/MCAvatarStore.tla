---------------------------- MODULE MCAvatarStore ----------------------------
(* Instances of AvatarStore for TLC. *)
EXTENDS AvatarStore, TLC

CONSTANTS u1, u2, c1, c2, r1, r2, w1, w2

OneWorker  == [r \in Reqs |-> w1]
TwoWorkers == [r \in Reqs |-> IF r = r1 THEN w1 ELSE w2]

(* Next, as far as uploads, deletions and profiles of Figura clients lead. *)
FiguraNext ==
  \/ \E r \in Reqs, o \in Ops, u \in Users : Arrive(r, o, u)
  \/ \E r \in Reqs :
       \/ Rename(r) \/ UploadFails(r) \/ Uploaded(r)
       \/ Unlink(r) \/ NothingToDelete(r) \/ Deleted(r)
       \/ Lookup(r) \/ Read(r) \/ ProfileRead(r)
  \/ \E w \in Workers, k \in Kinds, u \in Users : Expire(w, k, u)
  \/ \E w \in Workers : Crash(w)

FiguraSpec == Init /\ [][FiguraNext]_vars /\ Fairness

(* Next, where a write begins only when the one before it has been answered. *)
OneWriter == \A q, r \in Reqs : Writing(q) /\ Writing(r) => q = r

OneWriterSpec == Init /\ [][Next /\ OneWriter']_vars

Symmetry == Permutations(Contents) \cup Permutations(Reqs)
=============================================================================

-------------------------- MODULE MCUploadPipeline --------------------------
(* Instances of UploadPipeline for TLC. *)
EXTENDS UploadPipeline, TLC

CONSTANTS r1, r2, r3, r4, n1, n2, n3, n4

OwnNames == [r \in Reqs |-> CASE r = r1 -> n1 [] r = r2 -> n2 [] r = r3 -> n3 [] OTHER -> n4]
SameName == [r \in Reqs |-> n1]

\* r3 is over the limit, the others are at it.
Lengths == [r \in Reqs |-> IF r = r3 THEN MaxSize + 1 ELSE MaxSize]
=============================================================================

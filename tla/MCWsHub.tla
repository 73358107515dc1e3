------------------------------- MODULE MCWsHub -------------------------------
(* Instances of WsHub for TLC. *)
EXTENDS WsHub, TLC

CONSTANTS u1, u2, t1, t2

OnePlayer  == [t \in Tokens |-> u1]
TwoPlayers == [t \in Tokens |-> IF t = t1 THEN u1 ELSE u2]

Symmetry == Permutations(Sockets)
=============================================================================

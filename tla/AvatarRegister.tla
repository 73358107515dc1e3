--------------------------- MODULE AvatarRegister ---------------------------
(***************************************************************************)
(* What a reader of avatars may expect of the store when requests do not   *)
(* overlap: a file per user that changes at once, and answers that tell    *)
(* what it holds.                                                          *)
(***************************************************************************)
CONSTANTS Users, Reqs, Value

VARIABLES
  file,   \* file[u]: the content of u's avatar file, or that there is none
  told    \* told[r]: <<user, content>>, what request r was told; <<>> if nothing yet

Init ==
  /\ file \in [Users -> Value]
  /\ told = [r \in Reqs |-> <<>>]

Change(u, v) ==
  /\ file' = [file EXCEPT ![u] = v]
  /\ UNCHANGED told

Tell(r, u) ==
  /\ told' = [told EXCEPT ![r] = <<u, file[u]>>]
  /\ UNCHANGED file

Forget(r) ==
  /\ told' = [told EXCEPT ![r] = <<>>]
  /\ UNCHANGED file

Next ==
  \/ \E u \in Users, v \in Value : Change(u, v)
  \/ \E r \in Reqs, u \in Users : Tell(r, u)
  \/ \E r \in Reqs : Forget(r)

Spec == Init /\ [][Next]_<<file, told>>
=============================================================================

SPECIFICATION FairSpec
CONSTANTS
  u1 = u1
  u2 = u2
  t1 = t1
  t2 = t2
  None = None
  Sockets = {s1, s2}
  Tokens = {t1}
  Users = {u1}
  Owner <- OnePlayer
  MaxWs = 1
PROPERTIES StrangersLeave DeadPeersLeave SessionsEnd MapReclaimed
INVARIANT AcceptedWithinLimit

SPECIFICATION Spec
CONSTANTS
  u1 = u1
  u2 = u2
  t1 = t1
  t2 = t2
  None = None
  Sockets = {s1, s2}
  Tokens = {t1, t2}
  Users = {u1, u2}
  Owner <- TwoPlayers
  MaxWs = 2
SYMMETRY Symmetry
INVARIANTS TypeOK NoGhostWatcher SessionIsKnown

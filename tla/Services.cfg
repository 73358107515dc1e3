SPECIFICATION ServicesSpec
CONSTANTS
  p1 = p1
  p2 = p2
  Procs = {p1, p2}
  Max = 2
  MaxIds = 3
  Files <- ThreeFiles
  Size <- ThreeSizes
  MaxWrites = 2
  NaN = NaN
  Remnant = Remnant
  NoBan = NoBan
  Unset = Unset
  None = None
  r1 = r1
  Reqs = {r1, r2}
  UploadMax = 1
  ApiMax = 1
  UploadWindow = 2
  ApiWindow = 3
  Grace = 2
  Threshold = 2
  ViolationWindow = 2
  BanTime = 2
  Extension = 2
  MaxBan = 3
  Sids = {s1, s2}
  Ttl = 2
  MaxAwait = 1
INVARIANTS
  TypeOK SnapshotsSafe IndexMatchesFiles RestoresExact
  Bounded LimitWearsOff LiftSticks BansEnd
PROPERTIES
  KeepsNewestFirst RefusedOnlyOverLimit NoReplay SoonAfterAdmission
SYMMETRY Symmetry

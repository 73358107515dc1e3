SPECIFICATION Spec
CONSTANTS
  r1 = r1
  r2 = r2
  r3 = r3
  r4 = r4
  n1 = n1
  n2 = n2
  n3 = n3
  n4 = n4
  None = None
  Reqs = {r1, r2}
  MaxUploads = 2
  Names = {n1}
  Temp <- SameName
  Len <- Lengths
  Bad = {}
  MaxSize = 2
  RequestTimeout = 1
  MaxTempAge = 1
INVARIANT FinalIsWhole

SPECIFICATION FairSpec
CONSTANTS
  r1 = r1
  r2 = r2
  r3 = r3
  r4 = r4
  n1 = n1
  n2 = n2
  n3 = n3
  n4 = n4
  None = None
  Reqs = {r1, r3, r4}
  MaxUploads = 2
  Names = {n1, n3, n4}
  Temp <- OwnNames
  Len <- Lengths
  Bad = {r4}
  MaxSize = 1
  RequestTimeout = 1
  MaxTempAge = 1
INVARIANTS TypeOK FinalIsWhole UploadKeepsItsFile PendingIsExact SuccessInstalls
PROPERTIES UploadsEnd TempFilesGo

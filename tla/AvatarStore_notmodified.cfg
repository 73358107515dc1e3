SPECIFICATION OneWriterSpec
CONSTANTS
  u1 = u1
  u2 = u2
  c1 = c1
  c2 = c2
  r1 = r1
  r2 = r2
  w1 = w1
  w2 = w2
  None = None
  Torn = Torn
  Miss = Miss
  Failed = Failed
  Users = {u1}
  Contents = {c1, c2}
  Reqs = {r1, r2}
  Workers = {w1}
  MaxVersions = 1
  Home <- OneWorker
  Ops = {"fupload", "download", "fprofile"}
PROPERTY NotModifiedIsCurrent

SPECIFICATION Spec
CONSTANTS
  Keys = {k1, k2, k3, k4}
  Values = {v1, v2}
  Ttls = {1, 2}
  MaxEntries = 3
  Null = Null
  Absent = Absent
SYMMETRY Symmetry
INVARIANTS TypeOK ListMatchesMap
PROPERTY IsLru

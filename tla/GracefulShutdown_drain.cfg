SPECIFICATION Spec
CONSTANTS
  Conns = {c1, c2}
PROPERTY CleanOnlyWhenDrained
CHECK_DEADLOCK FALSE

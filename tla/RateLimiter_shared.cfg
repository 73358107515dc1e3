SPECIFICATION Spec
CONSTANTS
  Reqs = {r1}
  MaxHits <- Limits
  Window <- Windows
  Grace = 1
PROPERTY SeparateCounters

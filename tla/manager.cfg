SPECIFICATION Spec
CONSTANTS
  a1 = a1
  a2 = a2
  Workers = {w1, w2}
  Callers = {c1}
  QuietCallers = TRUE
  Addr <- Addresses
  Key <- DistinctKeys
  Pool = {p1, p2, p3, p4}
  None = None
  MaxGets = 4
SYMMETRY Interchangeable
INVARIANTS TypeOK OnePoolPerEndpoint PoolPointerValid TargetMatches NoPoolLeaked

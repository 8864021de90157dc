\* Two waiters, two bits: every mask and rule.
SPECIFICATION FairGroupSpec
CONSTANTS
  Tasks = {t1, t2}
  Bits = {b1, b2}
INVARIANTS
  GroupInv
  SetReachesAll
PROPERTIES
  WaitsEnd

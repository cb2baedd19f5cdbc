SPECIFICATION Spec
CONSTANTS
  None = None
  Keys = {k1, k2, k3}
  Vals = {v1, v2}
  Limits = {0, 1, 2}
  Ttls = {0, 1}
  MaxTime = 4
INVARIANTS TypeOK IndexesAgree
PROPERTIES EvictsLeastRecentlyUsed ServesOnlyLive NeverGrowsPastLimit KeepsLossyPromise
SYMMETRY Interchangeable

\* One invocation at a time, crashing or losing replies anywhere.
SPECIFICATION Spec
CONSTANTS
  Proc = {p1}
  Coin = {c1, c2, c3, f1, f2, f3}
  Initial = {c1, c2, c3}
  Faults = {"crash", "lost_reply", "drop"}
SYMMETRY CoinSymmetry
INVARIANTS ResubmitOnlyUnlogged
PROPERTIES NoLostRecord

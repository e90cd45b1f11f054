\* One invocation at a time, nothing goes wrong: every reservation ends.
SPECIFICATION FairSpec
CONSTANTS
  Proc = {p1}
  Coin = {c1, c2, f1, f2, f3}
  Initial = {c1, c2}
  Faults = {}
INVARIANTS TypeOK NoResubmit ReservationsJustified
PROPERTIES NoLostRecord ReservationsReleased SpendsNeverCompete

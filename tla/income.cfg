\* A cap below the number of coins, a coin of a migrated record, every fault until calm.
SPECIFICATION FairSpec
CONSTANTS
  Coin = {1, 2, 3}
  Amount <- MCAmount
  MaxU64 = 7
  Me = Me
  Away = Away
  MaxNftGen = 3
  Cap = 2
  ExerciseCap = 1
  Legacy = {1}
  Faults = {"crash", "lost_reply", "drop", "lookup"}
INVARIANTS TypeOK SweepIsAllOrNothing SweepTakesMost BundlesBalance
PROPERTIES PendingIsKept IncomeCatchesUp

\* One coin, swept; nothing goes wrong.
SPECIFICATION FairSpec
CONSTANTS
  Coin = {1, 2}
  Amount <- MCAmount
  MaxU64 = 7
  Me = Me
  Away = Away
  MaxNftGen = 3
  Cap = 2
  ExerciseCap = 1
  Legacy = {}
  Faults = {}
PROPERTIES SweptBecomesEmpty

\* An offer is taken, or the deadline passes, while an exercise is in the mempool.
SPECIFICATION FairSpec
CONSTANTS
  Me = Me
  Peer = Peer
  Settle = Settle
  MaxOpt = 1
  MaxNftGen = 3
  MaxOptGen = 2
  Env = {"buys", "races"}
  Faults = {}
PROPERTIES SyncCatchesUp

\* One option, no fault, and nobody overtakes a bundle of this wallet.
SPECIFICATION FairSpec
CONSTANTS
  Me = Me
  Peer = Peer
  Settle = Settle
  MaxOpt = 1
  MaxNftGen = 4
  MaxOptGen = 3
  Env = {"buys", "exercises", "sells", "sends"}
  Faults = {}
PROPERTIES SyncCatchesUp

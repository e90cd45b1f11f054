\* Two options, one after the other, on the same NFT; the mempool drops nothing.
SPECIFICATION Spec
CONSTANTS
  Me = Me
  Peer = Peer
  Settle = Settle
  MaxOpt = 2
  MaxNftGen = 4
  MaxOptGen = 2
  Env = {"buys", "exercises", "sells", "sends", "races"}
  Faults = {"crash", "lost_reply", "lookup"}
INVARIANTS ReclaimedIsTrue ExerciseGuardsSuffice
PROPERTIES ReopenedOnlyToMine

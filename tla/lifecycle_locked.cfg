\* An option is exercised by another wallet.
SPECIFICATION Spec
CONSTANTS
  Me = Me
  Peer = Peer
  Settle = Settle
  MaxOpt = 1
  MaxNftGen = 4
  MaxOptGen = 3
  Env = {"exercises"}
  Faults = {}
INVARIANTS ShownLockedIsLocked

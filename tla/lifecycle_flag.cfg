\* An option this wallet sold expires unexercised.
SPECIFICATION Spec
CONSTANTS
  Me = Me
  Peer = Peer
  Settle = Settle
  MaxOpt = 1
  MaxNftGen = 4
  MaxOptGen = 3
  Env = {"buys"}
  Faults = {}
INVARIANTS ClawbackFlagged

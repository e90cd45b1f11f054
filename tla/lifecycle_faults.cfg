\* One option; everything that can go wrong does.
SPECIFICATION Spec
CONSTANTS
  Me = Me
  Peer = Peer
  Settle = Settle
  MaxOpt = 1
  MaxNftGen = 4
  MaxOptGen = 3
  Env = {"buys", "exercises", "sells", "sends", "races"}
  Faults = {"crash", "lost_reply", "drop", "lookup"}
INVARIANTS TypeOK ConfirmedWasSeen ExerciseGuardsSuffice LockedIsShown ExercisedIsShown
PROPERTIES ReopenedOnlyToMine 

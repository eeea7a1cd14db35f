CONSTANTS
  Clients = {c1, c2}
  NoClient = NoClient
  Main = Main
  Unlocked = Unlocked
  MaxTexts = 2
  MaxTasks = 0
  MaxNotes = 0
SPECIFICATION FairFaultSpec
INVARIANTS
  LockInUseOrLost
PROPERTIES
  LostForGood
  LostLockStopsMain
  DispatchedUnlessLost
CHECK_DEADLOCK FALSE

SPECIFICATION Spec
CONSTANTS
  a = a
  b = b
  a1 = a1
  a2 = a2
  b1 = b1
  Repos = {a, b}
  Intents = {a1, a2, b1}
  RepoOf <- TwoRepos
  RepairFor <- Repair
  Empty = {a2}
  Refusable = {a1}
  UnsafeRollback = {b}
  NoIntent = NoIntent
  NoRepair = NoRepair
  Base = Base
  MaxToken = 3
  MaxGeneration = 2
  MaxFaults = 1
INVARIANTS
  TypeOK
  OneActivation
  LeasesCounted
  ActivationIsOwned
PROPERTIES
  PauseHolds
CHECK_DEADLOCK FALSE

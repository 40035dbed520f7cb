SPECIFICATION Spec
CONSTANTS
  a = a
  b = b
  a1 = a1
  a2 = a2
  b1 = b1
  Repos = {a}
  Intents = {a1, a2}
  RepoOf <- OneRepo
  RepairFor <- RepairOfOne
  Empty = {}
  Refusable = {a1}
  UnsafeRollback = {}
  NoIntent = NoIntent
  NoRepair = NoRepair
  Base = Base
  MaxToken = 5
  MaxGeneration = 2
  MaxFaults = 4
INVARIANTS
  OneOutcome
  MixtureIsKnown
PROPERTIES
  NoCopyAfterOutcome
  AnnouncedIsTrue
CHECK_DEADLOCK FALSE

SPECIFICATION Spec
CONSTANTS
  a = a
  b = b
  a1 = a1
  a2 = a2
  b1 = b1
  Repos = {a}
  Intents = {a1, a2}
  RepoOf <- OneRepo
  RepairFor <- RepairOfOne
  Empty = {}
  Refusable = {a1}
  UnsafeRollback = {}
  NoIntent = NoIntent
  NoRepair = NoRepair
  Base = Base
  MaxToken = 3
  MaxGeneration = 1
  MaxFaults = 1
INVARIANTS
  DeadRunIsReconcilable
CHECK_DEADLOCK FALSE

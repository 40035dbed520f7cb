CONSTANTS
  p1 = p1 c1 = c1 c2 = c2 d1 = d1 x1 = x1 x2 = x2
  Procs = {p1}
  Calls = {c1, c2}
  ProcOf <- OneOwner
  None = None
  MaxEpoch = 1
  Deliveries = {d1}
  Prompts = {x1, x2}
  NoReceipt = NoReceipt
  MaxCrashes = 1
  MaxCalls = 3
SPECIFICATION Spec
INVARIANTS TypeOK AtMostOnce DoneIsDone NothingLeaks
SYMMETRY Alike
CHECK_DEADLOCK FALSE

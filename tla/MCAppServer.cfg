CONSTANTS
  d1 = d1 d2 = d2 d3 = d3 t1 = t1 t2 = t2 t8 = t8 t9 = t9
  Deliveries = {d1, d2, d3}
  New = {d3}
  ThreadOf <- OneThread
  Threads = {t1, t2}
  Fresh = {t8}
  OtherThreads = {t2}
  Other = Other
  None = None
  MaxConns = 2
  MaxFaults = 2
  MaxOthers = 1
SYMMETRY Alike
SPECIFICATION Spec
INVARIANTS TypeOK DeliveredIsDone NoMissedCompletion
CHECK_DEADLOCK FALSE

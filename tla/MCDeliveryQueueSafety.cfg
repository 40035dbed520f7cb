SPECIFICATION Spec
CONSTANTS
  r1 = r1
  r2 = r2
  e1 = e1
  e2 = e2
  thread = thread
  own = own
  Routes = {r1, r2}
  Events = {e1, e2}
  Keys = {thread, own}
  ThreadKey <- SharedThread
  Limit <- LimitOne
  SupportsCoalescing = TRUE
  Unrenderable <- Template
  MaxAttempts = 2
  MaxRows = 3
  MaxFaults = 2
INVARIANTS
  TypeOK
  OneTurnPerThread
  CarrierKept
PROPERTIES
  OldestReadyFirst
  KeepsContract
CHECK_DEADLOCK FALSE

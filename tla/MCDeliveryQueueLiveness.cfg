SPECIFICATION FairSpec
CONSTANTS
  r1 = r1
  r2 = r2
  e1 = e1
  e2 = e2
  thread = thread
  own = own
  Routes = {r1, r2}
  Events = {e1, e2}
  Keys = {thread, own}
  ThreadKey <- TwoKeys
  Limit <- LimitOne
  SupportsCoalescing = TRUE
  Unrenderable <- Template
  MaxAttempts = 2
  MaxRows = 2
  MaxFaults = 2
PROPERTIES
  Drains
  DeliveringEnds
CHECK_DEADLOCK FALSE

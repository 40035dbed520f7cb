CONSTANTS
  a = a  b = b  c = c  d = d
  p = p  q = q  r = r
  Owners = {a, b, c, d}
  Pids = {p, q, r}
  PidOf <- SharedPid
  Waiters = {a, c}
  Reusable = {r}
  Nobody = Nobody
  MaxLevel = 4
SPECIFICATION FairSpec
INVARIANTS TypeOK OneHolder
PROPERTIES NeverDisplaced StaleIsReplaced
CHECK_DEADLOCK FALSE

CONSTANTS
  r1 = r1 r2 = r2 c1 = c1 c2 = c2 i1 = i1 i2 = i2 f1 = f1 f2 = f2 w1 = w1 w2 = w2
  Calls = {c1}
  Instances = {i1}
  Routes = {r1, r2}
  Events <- MCEvents
  Matching <- MCMatching
  Fetches = {f1, f2}
  Workers = {w1}
  Pushed <- MCPushed
  Ignored <- MCIgnored
  MaxMail = 1
  MaxEpoch = 1
  MaxUpsets = 0
  None = None
SPECIFICATION LiveSpec
PROPERTIES MailIsHanded
CHECK_DEADLOCK FALSE

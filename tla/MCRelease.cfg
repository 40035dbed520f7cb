CONSTANTS
  l1 = l1 r1 = r1 t1 = t1 t2 = t2
  p1 = p1 m1 = m1 m2 = m2 h1 = h1 h2 = h2 b1 = b1
  q1 = q1 q2 = q2
  Heads = {h1, h2}
  Bases = {b1}
  NoTree = NoTree
  Lanes = {l1}
  Threads = {t1, t2}
  Repos = {r1}
  Registries <- TwoRegistries
  NoLanes = NoLanes
  PRs = {p1}
  RepoOf <- FirstRepo
  Asks <- ReviewAsks
  Requests = {q1, q2}
  NoRow = NoRow
  FirstHead = h1
  Drafts = {FALSE}
  PlainEvents <- SomeEvents
  MaxSigned = 2
  MaxEvents <- EventBounds
  Merges = {m1, m2}
  PROf <- SamePR
  FactsOf <- TwoFacts
  Consumed = {m2}
  Nothing = Nothing
SPECIFICATION Spec
INVARIANTS TypeOK ReadyIsReviewed OnlyReviewedIsReleased
PROPERTIES OneDelivery
CHECK_DEADLOCK FALSE

CONSTANTS
  ac = ac ah = ah h0 = h0 h1 = h1 h2 = h2 b1 = b1 u1 = u1 u2 = u2 n1 = n1 n2 = n2 ad = ad
  Accounts = {ac, ah}
  Trusted <- TwoAgents
  Heads = {h0, h1, h2}
  Branches = {b1}
  OtherBranch = OtherBranch
  Bundles = {u1, u2}
  PrepushEnabled = TRUE
  Readers = {n1, n2, ad}
  Scenes <- SomeScenes
  PullForms <- SomeForms
  Writings <- SomeWritings
  StatusForms <- SomeStatus
  RunForms <- SomeRuns
  MaxEdits = 2
  Gone = Gone
  Adapter = ad
  Runners = {n1, n2}
  Candidates <- SomeCandidates
  Ancestors <- Histories
  Intact = {h0, h1, h2}
SPECIFICATION Spec
INVARIANTS TypeOK ReadyIsApproved PushOnce PushedIsTested
PROPERTIES NothingIsLost
CHECK_DEADLOCK FALSE
SYMMETRY Twins

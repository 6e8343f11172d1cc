\* Two releases in flight, and a reviewer.
SPECIFICATION Spec
CONSTANTS
  None = None
  Versions = {1, 2, 3}
  Hosts = {"h1"}
  Digests = {"d1"}
  Order <- MCOrder
  Size <- MCSize
  Plugins = {"p"}
  Seed <- SeedOne
  Accounts = {"ann"}
  Publishable = {"ann"}
  Holders0 <- AnnHolds
  Trust0 <- AllNew
  Tiers = {"new"}
  Keys = {"k1", "k2"}
  Requests <- RacingVersions
  Calls = {c1, c2}
  Reviewers = {"rev"}
  Checks = {}
  MaxClock = 0
SYMMETRY Interchangeable
INVARIANTS
  ApprovalNeverRollsBack

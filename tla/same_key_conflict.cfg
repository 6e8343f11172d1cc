\* One request retried while its first attempt is in flight.
SPECIFICATION Spec
CONSTANTS
  None = None
  Versions = {1, 2}
  Hosts = {"h1"}
  Digests = {"d1"}
  Order <- MCOrder
  Size <- MCSize
  Plugins = {"p"}
  Seed <- SeedOne
  Accounts = {"ann"}
  Publishable = {"ann"}
  Holders0 <- AnnHolds
  Trust0 <- AllTrusted
  Tiers = {"trusted"}
  Keys = {"k1"}
  Requests <- OneRequest
  Calls = {c1, c2}
  Reviewers = {"rev"}
  Checks = {}
  MaxClock = 0
SYMMETRY Interchangeable
INVARIANTS
  RetryIsAnsweredWithItsOwnResult
